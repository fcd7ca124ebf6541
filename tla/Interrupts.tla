----------------------------- MODULE Interrupts -----------------------------
(***************************************************************************)
(* Interrupts of the boot processor: the two interrupt controllers as      *)
(* Kernel/arch/x86_64/pic.c and impl-apic.c program them, and the dispatch *)
(* in interrupts.c.                                                        *)
(*                                                                         *)
(* The hardware is external: two cascaded 8259 PICs in fully nested mode,  *)
(* an I/O APIC and a local APIC.  Lines 0..7 belong to the master PIC, 8   *)
(* to 15 to the slave, which is wired to line 2.  Gates are interrupt      *)
(* gates, so the processor runs a handler with interrupts off.             *)
(***************************************************************************)
EXTENDS Integers, FiniteSets, FiniteSetsExt

CONSTANTS
  Lines,        \* the lines that devices raise
  Wiring,       \* line -> input of the I/O APIC
  RaiseLimit,   \* how often one device raises its line
  NONE

VARIABLES
  intsOn,       \* the interrupt flag
  handler,      \* vector in DispatchInterrupts, NONE outside
  gates,        \* vectors with an entry in the IDT
  base,         \* first vectors of the master and of the slave PIC
  imr, irr, isr, \* masked, requested and in-service lines of the PICs
  late,         \* a line whose request the processor saw before it was masked
  lapicOn,      \* did the firmware enable the local APIC?
  lapicIrr, lapicIsr, \* vectors requested and in service at the local APIC
  redirect,     \* input of the I/O APIC -> vector, NONE if masked
  raised        \* line -> how often it was raised

cpuVars  == <<intsOn, handler, gates>>
picVars  == <<base, imr, irr, isr, late>>
apicVars == <<lapicOn, lapicIrr, lapicIsr, redirect>>
intrVars == <<cpuVars, picVars, apicVars, raised>>

AllLines == 0..15
Inputs   == 0..23     \* of the I/O APIC
Vectors  == 0..255

(* Devices raise lines of the PICs, and each is wired to an input. *)
ASSUME LinesAssumption ==
  /\ Lines \subseteq AllLines
  /\ Wiring \in [Lines -> Inputs]
  /\ RaiseLimit \in Nat
  /\ NONE \notin Int

(* Priority in fully nested mode; the slave's lines rank as line 2. *)
Rank(l) == IF l < 8 THEN 16 * l ELSE 32 + (l - 8)
Top(S)  == IF S = {} THEN {} ELSE {Min(S)}

(* Firmware: interrupts off, no gates of ours, the PICs at vectors 8 and   *)
(* 112, all lines masked or none.                                          *)
InterruptsInit ==
  /\ intsOn = FALSE /\ handler = NONE /\ gates = {}
  /\ base = <<8, 112>> /\ imr \in {{}, AllLines} /\ irr = {} /\ isr = {} /\ late = NONE
  /\ lapicIrr = {} /\ lapicIsr = {} /\ redirect = [i \in Inputs |-> NONE]
  /\ raised = [l \in Lines |-> 0]

-----------------------------------------------------------------------------
(* The kernel's side.  Each operator leaves alone what it does not name.   *)

DisableInterrupts == intsOn' = FALSE
EnableInterrupts  == intsOn' = TRUE

(* Vectors 0..47, the timer's 127 and the system call's 128. *)
LoadInterruptDescTable == gates' = (0..47) \cup {127, 128}

(* ICW1 to ICW4: clears requests and services, vectors from 32 and 40; then *)
(* every line is unmasked.                                                  *)
PIC_Initialize ==
  /\ base' = <<32, 40>>
  /\ imr' = {} /\ irr' = {} /\ isr' = {}
  /\ UNCHANGED late

(* A request the processor has seen when its line is masked is answered as *)
(* a spurious interrupt, line 7 or 15.                                     *)
PIC_Disable ==
  /\ imr' = AllLines
  /\ late' \in {NONE} \cup {7 : l \in {k \in irr \ imr : k < 8}} \cup {15 : l \in {k \in irr \ imr : k >= 8}}
  /\ UNCHANGED <<base, irr, isr>>

(* Faulty variant: the comparison misses the slave's first line. *)
BadRestoreInterrupts(i) ==
  LET slave == IF i > 40 THEN Top(isr \cap 8..15) ELSE {} IN
  isr' = isr \ (slave \cup Top(isr \cap 0..7))

(* Non-specific end of interrupt: the line of highest priority in service. *)
RestoreInterrupts(i) ==
  LET slave == IF i >= 40 THEN Top(isr \cap 8..15) ELSE {} IN
  isr' = isr \ (slave \cup Top(isr \cap 0..7))

(* DispatchInterrupts for a device's vector, and the iretq behind it: no    *)
(* handler is registered for one, so all that happens is the end of        *)
(* interrupt.  For an exception CallPanic does not return: the vector      *)
(* stays in handler.                                                       *)
DispatchInterrupts ==
  /\ handler \in 32..255
  /\ RestoreInterrupts(handler)
  /\ handler' = NONE
  /\ intsOn' = TRUE
  /\ UNCHANGED <<gates, base, imr, irr, late, apicVars, raised>>

-----------------------------------------------------------------------------
(* The hardware's side. *)

(* A device raises its line: both controllers see it. *)
Raise(l) ==
  /\ raised[l] < RaiseLimit
  /\ raised' = [raised EXCEPT ![l] = @ + 1]
  /\ irr' = irr \cup {l}
  /\ lapicIrr' = IF lapicOn THEN lapicIrr \cup ({redirect[Wiring[l]]} \ {NONE}) ELSE lapicIrr
  /\ UNCHANGED <<cpuVars, base, imr, isr, late, lapicOn, lapicIsr, redirect>>

Enter(v) ==
  /\ intsOn
  /\ handler = NONE
  /\ handler' = v
  /\ intsOn' = FALSE
  /\ UNCHANGED gates

Vector(l) == IF l < 8 THEN base[1] + l ELSE base[2] + (l - 8)

Deliverable == {l \in irr \ imr : \A b \in isr : Rank(l) < Rank(b)}

(* The PIC's interrupt is acknowledged. *)
DeliverPIC ==
  \E l \in Deliverable :
    /\ \A k \in Deliverable : Rank(l) <= Rank(k)
    /\ Enter(Vector(l))
    /\ irr' = irr \ {l}
    /\ isr' = isr \cup {l} \cup (IF l < 8 THEN {} ELSE {2})
    /\ UNCHANGED <<base, imr, late, apicVars, raised>>

(* A spurious interrupt sets no bit but the master's for the slave. *)
DeliverSpurious ==
  /\ late # NONE
  /\ Enter(Vector(late))
  /\ late' = NONE
  /\ isr' = IF late = 15 THEN isr \cup {2} ELSE isr
  /\ UNCHANGED <<base, imr, irr, apicVars, raised>>

(* The local APIC delivers a vector of a higher class than those in        *)
(* service.  The kernel never writes its end-of-interrupt register.        *)
DeliverAPIC ==
  \E v \in lapicIrr :
    /\ \A w \in lapicIsr : v \div 16 > w \div 16
    /\ \A w \in lapicIrr : v >= w
    /\ Enter(v)
    /\ lapicIrr' = lapicIrr \ {v}
    /\ lapicIsr' = lapicIsr \cup {v}
    /\ UNCHANGED <<picVars, lapicOn, redirect, raised>>

Deliver == DeliverPIC \/ DeliverSpurious \/ DeliverAPIC

InterruptsTypeOK ==
  /\ intsOn \in BOOLEAN /\ handler \in Vectors \cup {NONE} /\ gates \subseteq Vectors
  /\ base \in {<<8, 112>>, <<32, 40>>} /\ late \in {NONE, 7, 15}
  /\ imr \subseteq AllLines /\ irr \subseteq AllLines /\ isr \subseteq AllLines
  /\ lapicOn \in BOOLEAN /\ lapicIrr \subseteq Vectors /\ lapicIsr \subseteq Vectors
  /\ redirect \in [Inputs -> Vectors \cup {NONE}]
  /\ raised \in [Lines -> 0..RaiseLimit]
=============================================================================
