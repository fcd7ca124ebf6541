----------------------------- MODULE BootProofs -----------------------------
(***************************************************************************)
(* Boot's safety invariants, proved for every set of machines, devices and *)
(* wirings: which interrupts the processor can meet at which step of       *)
(* ArchitectureInitialize, what is in service while it handles one, and    *)
(* what the walk of the MADT has recorded when it has passed k entries.    *)
(* Last, what ParseStivale2Info makes of the boot loader's tags, for maps  *)
(* of every length: the sum of the usable memory by induction over the     *)
(* entries.                                                                *)
(***************************************************************************)
EXTENDS Boot, FiniteSetTheorems, WellFoundedInduction, TLAPS

-----------------------------------------------------------------------------
(* Least elements. *)

(* Every nonempty set of naturals has a least element: otherwise the       *)
(* intervals 0..n would have no minimal one among them.                    *)
LEMMA HasLeast ==
  ASSUME NEW S \in SUBSET Nat, S # {}
  PROVE  \E m \in S : \A x \in S : m <= x
<1> DEFINE T == {0..n : n \in S}
<1>1. T \subseteq FiniteSubsetsOf(Nat) /\ T # {}
  <2>1. \A n \in S : 0..n \in FiniteSubsetsOf(Nat)
    BY FS_Interval DEF FiniteSubsetsOf
  <2> QED BY <2>1, Zenon
<1>2. PICK x \in T : \A y \in T : ~(<<y, x>> \in StrictSubsetOrdering(Nat))
  <2> HIDE DEF T
  <2> QED BY <1>1, FS_StrictSubsetOrderingWellFounded, WFMin, Zenon
<1>3. PICK m \in S : x = 0..m
  BY Zenon
<1>4. ASSUME NEW n \in S PROVE m <= n
  <2>1. SUFFICES ASSUME n < m PROVE FALSE
    OBVIOUS
  <2>2. 0..n \in T
    BY Zenon
  <2>3. 0..n \subseteq 0..m /\ 0..n # 0..m /\ 0..n \in SUBSET Nat /\ 0..m \in SUBSET Nat
    BY <2>1
  <2> QED BY <1>2, <1>3, <2>2, <2>3, Zenon DEF StrictSubsetOrdering
<1> QED BY <1>4, Zenon

(* Min, which ACPI_FindTable and Top are built from, is that element. *)
LEMMA MinIsLeast ==
  ASSUME NEW S \in SUBSET Nat, S # {}
  PROVE  Min(S) \in S /\ \A x \in S : Min(S) <= x
BY HasLeast, Zenon DEF Min

LEMMA TopOfOne ==
  ASSUME NEW l \in Nat
  PROVE  Top({l}) = {l}
BY MinIsLeast, Zenon DEF Top

(* The uint8_t counters do not wrap below their limit. *)
LEMMA ModSmall ==
  ASSUME NEW d \in Nat, NEW a \in 0..(d - 1)
  PROVE  a % d = a
<1> DEFINE q == a \div d
<1>1. q \in Int /\ a % d \in 0..(d - 1) /\ a = d * q + (a % d)
  OBVIOUS
<1> HIDE DEF q
<1>2. q >= 1 => d * q >= d
  BY <1>1
<1>3. q <= -1 => d * q <= -d
  BY <1>1
<1>4. q = 0
  BY <1>1, <1>2, <1>3
<1> QED BY <1>1, <1>4

-----------------------------------------------------------------------------
(* Interrupts. *)

(* The steps before PIC_Initialize is through, and those before the IDT is *)
(* loaded.                                                                 *)
BeforeIdt == {"parse", "cli", "idt"}
BeforePic == BeforeIdt \cup {"memory", "pic"}

(* While a handler runs for vector v, the PICs serve nothing, a line of    *)
(* the master, or a line of the slave together with the cascade: then v is *)
(* one of the slave's vectors.                                             *)
InService ==
  \/ isr = {}
  \/ handler # NONE /\ \E l \in 0..7 : isr = {l}
  \/ handler # NONE /\ handler >= 40 /\ \E l \in 8..15 : isr = {2, l}

(* No interrupt before the PICs are remapped and the gates exist; what can *)
(* be delivered afterwards has a vector of 32..47.                         *)
IntrInv ==
  /\ handler \in (32..47) \cup {NONE}
  /\ pc \in BeforePic => ~intsOn /\ handler = NONE
  /\ pc \notin BeforeIdt => gates = (0..47) \cup {127, 128}
  /\ pc \notin BeforePic => base = <<32, 40>>
  /\ irr \subseteq AllLines
  /\ late \in {NONE, 7, 15}
  /\ lapicIrr \subseteq 32..47
  /\ redirect \in [Inputs -> (32..47) \cup {NONE}]
  /\ InService

-----------------------------------------------------------------------------
(* The walk of the MADT, when it has passed the first k entries of body.   *)

UsableIds(body, k) == {body[i].apicId : i \in {j \in 1..k : Usable(body[j])}}
Recorded(body, k)  == {i \in 1..k : body[i].type \in {1, 2}}

(* Where in g_Isos entry i of the MADT is recorded, and which input of the *)
(* I/O APIC it names.                                                      *)
Place(body, i) == Cardinality(Recorded(body, i - 1))
Input(body, i) == AsIso(body[i]).gSi % 256

(* g_Processors holds the usable processors seen, behind the boot one. *)
ProcsUpTo(body, k) ==
  /\ ~spilled
  /\ g_Processors \in [0..(ProcessorLimit - 1) -> ApicIds]
  /\ g_ProcessorCount = Cardinality(UsableIds(body, k)) + 1
  /\ {g_Processors[i] : i \in 1..(g_ProcessorCount - 1)} = UsableIds(body, k)

(* g_Isos holds the entries of type 1 and 2 in order, unless there are     *)
(* more than it can count.                                                 *)
IsosUpTo(body, k) ==
  /\ g_Isos \in [0..(IsoLimit - 1) -> [irqSource : AllLines, gSi : Nat]]
  /\ g_IsoAmount \in 0..(IsoLimit - 1)
  /\ Cardinality(Recorded(body, Len(body))) < IsoLimit =>
       /\ g_IsoAmount = Cardinality(Recorded(body, k))
       /\ \A i \in Recorded(body, k) : g_Isos[Place(body, i)] = AsIso(body[i])
       /\ \A n \in 0..(g_IsoAmount - 1) : \E i \in Recorded(body, k) : Place(body, i) = n

BeforeWalk == BeforePic \cup {"pit", "sti", "rsdp", "tables"}
Passed     == Len(MadtBody) - Len(madt)

WalkInv ==
  /\ pc \in BeforeWalk \cup {"madt", "panic"} \cup
           {"disable", "lapic", "ioapic", "redirect", "smbios", "kernel", "halt"}
  /\ pc \in BeforeWalk => AcpiInit
  /\ pc \in {"disable", "lapic", "ioapic", "redirect"} => machine.hasApic
  /\ HasMadt /\ (Walked \/ pc = "madt") =>
       /\ madt \in Seq(MadtEntries) /\ Len(madt) <= Len(MadtBody)
       /\ \A j \in 1..Len(madt) : madt[j] = MadtBody[Passed + j]
       /\ ProcsUpTo(MadtBody, Passed)
       /\ IsosUpTo(MadtBody, Passed)
  /\ HasMadt /\ Walked => madt = <<>>

(* In IOAPIC_Initialize: an entry whose turn has come is in force, unless  *)
(* a later one whose turn has come names the same input.                   *)
InForce(body) ==
  \A i \in Recorded(body, Len(body)) :
    /\ Place(body, i) < iso /\ Input(body, i) \in Inputs
    /\ \A j \in Recorded(body, Len(body)) :
         j > i /\ Place(body, j) < iso => Input(body, j) # Input(body, i)
    => redirect[Input(body, i)] = AsIso(body[i]).irqSource + 32

RedirectInv ==
  /\ pc \in BeforeWalk \cup {"madt", "disable", "lapic", "ioapic"} => iso = 0
  /\ HasMadt /\ Walked =>
       /\ iso \in 0..g_IsoAmount
       /\ pc \in {"smbios", "kernel", "halt"} /\ machine.hasApic => iso = g_IsoAmount
       /\ Cardinality(Recorded(MadtBody, Len(MadtBody))) < IsoLimit => InForce(MadtBody)

IInv == machine \in Machines /\ IntrInv /\ WalkInv /\ RedirectInv

-----------------------------------------------------------------------------
(* IntrInv is kept. *)

(* IOAPIC_Initialize only runs with a MADT, so it programs vectors 32..47. *)
LEMMA RedirectsToGates ==
  ASSUME IInv, pc = "redirect", iso < g_IsoAmount
  PROVE  g_Isos[iso].irqSource + 32 \in 32..47
<1>1. machine \in Machines /\ machine.hasApic /\ Walked
  BY Zenon DEF IInv, WalkInv, Walked
<1>2. HasMadt
  BY <1>1, MachinesAssumption, Zenon DEF HasMadt
<1>3. /\ g_Isos \in [0..(IsoLimit - 1) -> [irqSource : AllLines, gSi : Nat]]
      /\ g_IsoAmount \in 0..(IsoLimit - 1)
      /\ iso \in 0..g_IsoAmount
  BY <1>1, <1>2, Zenon DEF IInv, WalkInv, RedirectInv, IsosUpTo
<1>4. g_Isos[iso] \in [irqSource : AllLines, gSi : Nat]
  BY <1>3, AcpiAssumption
<1> QED BY <1>4 DEF AllLines

(* The end of interrupt leaves nothing in service. *)
LEMMA EndsService ==
  ASSUME IntrInv, handler # NONE, RestoreInterrupts(handler)
  PROVE  isr' = {}
<1>1. handler \in 32..47
  BY Zenon DEF IntrInv
<1>2. CASE isr = {}
  BY <1>2, Zenon DEF RestoreInterrupts
<1>3. CASE \E l \in 0..7 : isr = {l}
  <2>1. PICK l \in 0..7 : isr = {l}
    BY <1>3, Zenon
  <2>2. isr \cap 0..7 = {l}
    BY <2>1, Zenon
  <2>3. Top(isr \cap 0..7) = {l}
    BY <2>2, TopOfOne
  <2> QED BY <2>1, <2>3, Zenon DEF RestoreInterrupts
<1>4. CASE handler >= 40 /\ \E l \in 8..15 : isr = {2, l}
  <2>1. PICK l \in 8..15 : isr = {2, l}
    BY <1>4, Zenon
  <2>2. isr \cap 0..7 = {2} /\ isr \cap 8..15 = {l}
    <3>1. l \notin 0..7 /\ 2 \in 0..7 /\ l \in 8..15 /\ 2 \notin 8..15
      OBVIOUS
    <3> HIDE DEF IntrInv
    <3> QED BY <2>1, <3>1, Zenon
  <2>3. Top(isr \cap 0..7) = {2} /\ Top(isr \cap 8..15) = {l}
    BY <2>2, TopOfOne
  <2> QED BY <1>4, <2>1, <2>3, Zenon DEF RestoreInterrupts
<1> QED BY <1>2, <1>3, <1>4, Zenon DEF IntrInv, InService

LEMMA DeliverKeepsIntr ==
  ASSUME IntrInv, Deliver, UNCHANGED pc
  PROVE  IntrInv'
<1> USE LinesAssumption
<1>1. intsOn /\ handler = NONE /\ isr = {} /\ ~intsOn' /\ gates' = gates
  BY Zenon DEF IntrInv, InService, Deliver, DeliverPIC, DeliverSpurious, DeliverAPIC, Enter
<1>2. pc \notin BeforePic /\ base = <<32, 40>>
  BY <1>1, Zenon DEF IntrInv
<1>3. CASE DeliverPIC
  <2>1. PICK l \in Deliverable :
          /\ Enter(Vector(l))
          /\ irr' = irr \ {l}
          /\ isr' = isr \cup {l} \cup (IF l < 8 THEN {} ELSE {2})
          /\ UNCHANGED <<base, imr, late, apicVars, raised>>
    BY <1>3, Zenon DEF DeliverPIC
  <2>2. l \in AllLines
    BY Zenon DEF Deliverable, IntrInv
  <2>3. handler' = Vector(l) /\ Vector(l) \in 32..47 /\ (l >= 8 => Vector(l) >= 40)
    BY <1>2, <2>1, <2>2 DEF Vector, Enter, AllLines
  <2>4. handler' # NONE
    BY <2>3
  <2>5. InService'
    <3>1. CASE l < 8
      BY <1>1, <2>1, <2>2, <2>4, <3>1 DEF InService, AllLines
    <3>2. CASE l >= 8
      <4>1. isr' = {2, l}
        BY <1>1, <2>1, <2>2, <3>2 DEF AllLines
      <4> QED BY <2>2, <2>3, <2>4, <3>2, <4>1 DEF InService, AllLines
    <3> QED BY <2>2, <3>1, <3>2 DEF AllLines
  <2> QED BY <1>1, <1>2, <2>1, <2>3, <2>5, Zenon DEF IntrInv, apicVars
<1>4. CASE DeliverSpurious
  <2>1. handler' \in 32..47
    BY <1>2, <1>4 DEF DeliverSpurious, Enter, Vector, IntrInv
  <2>2. InService'
    BY <1>1, <1>4, <2>1 DEF DeliverSpurious, InService
  <2> QED BY <1>1, <1>2, <1>4, <2>1, <2>2, Zenon DEF DeliverSpurious, IntrInv, apicVars
<1>5. CASE DeliverAPIC
  <2>1. handler' \in 32..47
    BY <1>5 DEF DeliverAPIC, Enter, IntrInv
  <2>2. InService'
    BY <1>1, <1>5, Zenon DEF DeliverAPIC, InService, picVars
  <2>3. lapicIrr' \subseteq 32..47
    BY <1>5, Zenon DEF DeliverAPIC, IntrInv
  <2> QED BY <1>1, <1>2, <1>5, <2>1, <2>2, <2>3 DEF DeliverAPIC, IntrInv, picVars
<1> QED BY <1>3, <1>4, <1>5, Zenon DEF Deliver

LEMMA RaiseKeepsIntr ==
  ASSUME IntrInv, NEW l \in Lines, Raise(l), UNCHANGED pc
  PROVE  IntrInv'
<1>1. irr' \subseteq AllLines
  BY LinesAssumption DEF Raise, IntrInv
<1>2. redirect[Wiring[l]] \in (32..47) \cup {NONE}
  BY LinesAssumption, Zenon DEF IntrInv
<1>3. lapicIrr' \subseteq 32..47
  BY <1>2 DEF Raise, IntrInv
<1> QED BY <1>1, <1>3 DEF Raise, IntrInv, InService, cpuVars

LEMMA DispatchKeepsIntr ==
  ASSUME IntrInv, DispatchInterrupts, UNCHANGED pc
  PROVE  IntrInv'
<1>1. handler # NONE
  BY LinesAssumption DEF DispatchInterrupts
<1>2. isr' = {}
  BY <1>1, EndsService, Zenon DEF DispatchInterrupts
<1>3. pc \notin BeforePic
  BY <1>1, Zenon DEF IntrInv
<1> QED BY <1>2, <1>3 DEF DispatchInterrupts, IntrInv, InService, apicVars

LEMMA BootStepKeepsIntr ==
  ASSUME IInv, BootStep
  PROVE  IntrInv'
<1> USE LinesAssumption DEF BeforeIdt, BeforePic
<1>0. IntrInv
  BY Zenon DEF IInv
<1>1. CASE DisableFirst
  BY <1>0, <1>1, Zenon DEF DisableFirst, At, DisableInterrupts, IntrInv, InService, picVars, apicVars
<1>2. CASE LoadIdt
  BY <1>0, <1>2, Zenon DEF LoadIdt, At, LoadInterruptDescTable, IntrInv, InService, picVars, apicVars
<1>3. CASE RemapPic
  BY <1>0, <1>3, Zenon DEF RemapPic, At, PIC_Initialize, IntrInv, InService, cpuVars, apicVars
<1>4. CASE EnableFirst
  BY <1>0, <1>4, Zenon DEF EnableFirst, At, EnableInterrupts, IntrInv, InService, picVars, apicVars
<1>5. CASE FindMadt
  BY <1>0, <1>5, Zenon DEF FindMadt, At, DisableInterrupts, IntrInv, InService, picVars, apicVars
<1>6. CASE AcpiReady
  BY <1>0, <1>6, Zenon DEF AcpiReady, At, EnableInterrupts, IntrInv, InService, picVars, apicVars
<1>7. CASE DisablePic
  <2>1. late' \in {NONE, 7, 15}
    BY <1>7, Zenon DEF DisablePic, PIC_Disable
  <2> QED BY <1>0, <1>7, <2>1, Zenon DEF DisablePic, At, PIC_Disable, IntrInv, InService, cpuVars, apicVars
<1>8. CASE Redirect
  <2>1. redirect' \in [Inputs -> (32..47) \cup {NONE}]
    <3>1. CASE iso < g_IsoAmount
      <4>1. g_Isos[iso].irqSource + 32 \in 32..47
        BY <1>8, <3>1, RedirectsToGates, Zenon DEF Redirect, At
      <4>2. redirect' = [redirect EXCEPT ![g_Isos[iso].gSi % 256] = g_Isos[iso].irqSource + 32]
        BY <1>8, <3>1, Zenon DEF Redirect
      <4> QED BY <1>0, <4>1, <4>2, Zenon DEF IntrInv
    <3> QED BY <1>0, <1>8, <3>1 DEF Redirect, IntrInv
  <2> QED BY <1>0, <1>8, <2>1, Zenon DEF Redirect, At, IntrInv, InService, cpuVars, picVars
<1>9. CASE \/ ParseEntry \/ ParseTag \/ ParseStivale2Info \/ MemoryInitialize \/ PIT_Initialize
           \/ FindRsdp \/ WalkMadt \/ LAPIC_Initialize \/ IOAPIC_Initialize \/ FindSmbios
           \/ KernelInitialize
  <2>1. /\ UNCHANGED intrVars
        /\ pc' \in BeforeIdt <=> pc \in BeforeIdt
        /\ pc' \in BeforePic <=> pc \in BeforePic
    BY <1>9, Zenon
    DEF ParseEntry, ParseTag, ParseStivale2Info, MemoryInitialize, PIT_Initialize, FindRsdp, WalkMadt,
        LAPIC_Initialize, IOAPIC_Initialize, FindSmbios, KernelInitialize, At, Nothing
  <2> QED BY <1>0, <2>1 DEF IntrInv, InService, intrVars, cpuVars, picVars, apicVars
<1> QED BY <1>1, <1>2, <1>3, <1>4, <1>5, <1>6, <1>7, <1>8, <1>9, Zenon DEF BootStep

-----------------------------------------------------------------------------
(* What one more entry of the MADT adds to the sets the invariant is about. *)

(* ACPI_FindTable returns the MADT when there is one. *)
LEMMA TheMadt ==
  ASSUME machine \in Machines, HasMadt
  PROVE  MadtBody \in Seq(MadtEntries) /\ ProperMadt(MadtBody)
<1> DEFINE tables == machine.tables
           found  == {i \in DOMAIN tables : tables[i].signature = "APIC"}
<1>1. tables \in Seq([signature : STRING, body : Seq(MadtEntries)])
  BY MachinesAssumption, Zenon
<1>2. found \in SUBSET Nat /\ found # {}
  BY <1>1 DEF HasMadt
<1>3. Min(found) \in found
  BY <1>2, MinIsLeast, Zenon
<1>4. MadtBody = tables[Min(found)].body
  BY <1>2, Zenon DEF MadtBody, ACPI_FindTable
<1>5. tables[Min(found)] \in [signature : STRING, body : Seq(MadtEntries)]
  <2> DEFINE R == [signature : STRING, body : Seq(MadtEntries)]
  <2>1. tables \in Seq(R) /\ Min(found) \in DOMAIN tables
    BY <1>1, <1>3, Zenon
  <2> HIDE DEF R, tables, found
  <2>2. tables[Min(found)] \in R
    BY <2>1
  <2> QED BY <2>2, Zenon DEF R
<1>6. ProperMadt(tables[Min(found)].body)
  BY <1>3, MachinesAssumption, Zenon
<1> QED BY <1>4, <1>5, <1>6, Zenon

LEMMA EntryType ==
  ASSUME NEW e \in MadtEntries
  PROVE  /\ e.type \in Nat /\ e.length \in Nat
         /\ e.type = 0 => e.apicId \in ApicIds
         /\ e.type = 1 => e.address \in Nat
         /\ e.type = 2 => e.irqSource \in 0..255 /\ e.gSi \in Nat
<1>1. CASE e \in [type : {0}, length : Nat, apicId : ApicIds, flags : Nat]
  BY <1>1
<1>2. CASE e \in [type : {1}, length : Nat, address : Nat, gSib : Nat]
  BY <1>2
<1>3. CASE e \in [type : {2}, length : Nat, irqSource : 0..255, gSi : Nat]
  BY <1>3
<1>4. CASE e \in [type : 3..255, length : Nat]
  BY <1>4
<1> QED BY <1>1, <1>2, <1>3, <1>4 DEF MadtEntries

LEMMA BodyEntry ==
  ASSUME NEW body \in Seq(MadtEntries), NEW i \in 1..Len(body)
  PROVE  body[i] \in MadtEntries
OBVIOUS

LEMMA RecordedFacts ==
  ASSUME NEW body \in Seq(MadtEntries), NEW k \in 0..Len(body)
  PROVE  /\ IsFiniteSet(Recorded(body, k))
         /\ Cardinality(Recorded(body, k)) \in Nat
         /\ \A n \in 0..k : /\ Recorded(body, n) \subseteq Recorded(body, k)
                            /\ Cardinality(Recorded(body, n)) <= Cardinality(Recorded(body, k))
<1>1. IsFiniteSet(Recorded(body, k))
  <2>1. IsFiniteSet(1..k)
    BY FS_Interval
  <2>2. Recorded(body, k) \in SUBSET (1..k)
    BY Zenon DEF Recorded
  <2> QED BY <2>1, <2>2, FS_Subset, Zenon
<1>2. Cardinality(Recorded(body, k)) \in Nat
  BY <1>1, FS_CardinalityType, Zenon
<1>3. ASSUME NEW n \in 0..k
      PROVE  Recorded(body, n) \subseteq Recorded(body, k)
  BY DEF Recorded
<1>4. ASSUME NEW n \in 0..k
      PROVE  Cardinality(Recorded(body, n)) <= Cardinality(Recorded(body, k))
  BY <1>1, <1>3, FS_Subset, Zenon
<1> QED BY <1>1, <1>2, <1>3, <1>4, Zenon

LEMMA RecordedGrows ==
  ASSUME NEW body \in Seq(MadtEntries), NEW k \in 0..(Len(body) - 1)
  PROVE  IF body[k + 1].type \in {1, 2}
         THEN /\ Recorded(body, k + 1) = Recorded(body, k) \cup {k + 1}
              /\ Cardinality(Recorded(body, k + 1)) = Cardinality(Recorded(body, k)) + 1
         ELSE Recorded(body, k + 1) = Recorded(body, k)
<1>1. k + 1 \notin Recorded(body, k) /\ IsFiniteSet(Recorded(body, k))
  BY RecordedFacts DEF Recorded
<1>2. 1..(k + 1) = (1..k) \cup {k + 1}
  OBVIOUS
<1>3. CASE body[k + 1].type \in {1, 2}
  <2>1. Recorded(body, k + 1) = Recorded(body, k) \cup {k + 1}
    BY <1>2, <1>3, Zenon DEF Recorded
  <2> QED BY <1>1, <1>3, <2>1, FS_AddElement, Zenon
<1>4. CASE body[k + 1].type \notin {1, 2}
  BY <1>2, <1>4, Zenon DEF Recorded
<1> QED BY <1>3, <1>4, Zenon

(* A later entry that is recorded has a later place. *)
LEMMA PlacesInOrder ==
  ASSUME NEW body \in Seq(MadtEntries),
         NEW i \in Recorded(body, Len(body)), NEW j \in Recorded(body, Len(body)), i < j
  PROVE  /\ Place(body, i) \in Nat /\ Place(body, j) \in Nat
         /\ Place(body, i) < Place(body, j)
         /\ Place(body, j) < Cardinality(Recorded(body, Len(body)))
<1>1. i \in 1..Len(body) /\ j \in 1..Len(body) /\ body[i].type \in {1, 2} /\ body[j].type \in {1, 2}
  BY Zenon DEF Recorded
<1>2. ASSUME NEW n \in 1..Len(body), body[n].type \in {1, 2}
      PROVE  /\ Place(body, n) \in Nat
             /\ Cardinality(Recorded(body, n)) = Place(body, n) + 1
  <2>1. n - 1 \in 0..(Len(body) - 1) /\ (n - 1) + 1 = n /\ n - 1 \in 0..Len(body)
    OBVIOUS
  <2> QED BY <1>2, <2>1, RecordedGrows, RecordedFacts, Zenon DEF Place
<1>3. Cardinality(Recorded(body, i)) <= Place(body, j)
  <2>1. i \in 0..(j - 1) /\ j - 1 \in 0..Len(body)
    BY <1>1
  <2> QED BY <2>1, RecordedFacts, Zenon DEF Place
<1>4. Cardinality(Recorded(body, j)) <= Cardinality(Recorded(body, Len(body)))
  <2>1. j \in 0..Len(body) /\ Len(body) \in 0..Len(body)
    BY <1>1
  <2> QED BY <2>1, RecordedFacts, Zenon
<1>5. Cardinality(Recorded(body, Len(body))) \in Nat
  BY RecordedFacts
<1> QED BY <1>1, <1>2, <1>3, <1>4, <1>5

LEMMA PlaceBelow ==
  ASSUME NEW body \in Seq(MadtEntries), NEW k \in 0..Len(body), NEW i \in Recorded(body, k)
  PROVE  Place(body, i) \in Nat /\ Place(body, i) < Cardinality(Recorded(body, k))
<1>1. i \in 1..k /\ body[i].type \in {1, 2}
  BY Zenon DEF Recorded
<1>2. i - 1 \in 0..(Len(body) - 1) /\ (i - 1) + 1 = i /\ i - 1 \in 0..Len(body) /\ i \in 0..k
  BY <1>1
<1>3. Place(body, i) \in Nat /\ Cardinality(Recorded(body, i)) = Place(body, i) + 1
  BY <1>1, <1>2, RecordedGrows, RecordedFacts, Zenon DEF Place
<1>4. Cardinality(Recorded(body, i)) <= Cardinality(Recorded(body, k))
  BY <1>2, RecordedFacts, Zenon
<1>5. Cardinality(Recorded(body, k)) \in Nat
  BY RecordedFacts, Zenon
<1> QED BY <1>3, <1>4, <1>5

LEMMA UsableFacts ==
  ASSUME NEW body \in Seq(MadtEntries), NEW k \in 0..Len(body)
  PROVE  /\ UsableIds(body, k) \subseteq ApicIds \ {0}
         /\ IsFiniteSet(UsableIds(body, k))
         /\ Cardinality(UsableIds(body, k)) \in Nat
         /\ ProcessorLimit \in Nat
         /\ Cardinality(UsableIds(body, k)) < ProcessorLimit
<1>1. UsableIds(body, k) \subseteq ApicIds \ {0}
  BY EntryType DEF UsableIds, Usable
<1>2. IsFiniteSet(ApicIds \ {0}) /\ Cardinality(ApicIds \ {0}) = ProcessorLimit - 1
  BY AcpiAssumption, FS_RemoveElement, Zenon DEF ProcessorLimit
<1>3. ProcessorLimit \in Nat
  BY AcpiAssumption, FS_CardinalityType, Zenon DEF ProcessorLimit
<1>4. IsFiniteSet(UsableIds(body, k)) /\ Cardinality(UsableIds(body, k)) <= ProcessorLimit - 1
  BY <1>1, <1>2, FS_Subset
<1> QED BY <1>1, <1>3, <1>4, FS_CardinalityType

LEMMA UsableGrows ==
  ASSUME NEW body \in Seq(MadtEntries), ProperMadt(body), NEW k \in 0..(Len(body) - 1)
  PROVE  IF Usable(body[k + 1])
         THEN /\ UsableIds(body, k + 1) = UsableIds(body, k) \cup {body[k + 1].apicId}
              /\ Cardinality(UsableIds(body, k + 1)) = Cardinality(UsableIds(body, k)) + 1
         ELSE UsableIds(body, k + 1) = UsableIds(body, k)
<1>1. 1..(k + 1) = (1..k) \cup {k + 1}
  OBVIOUS
<1>2. CASE Usable(body[k + 1])
  <2>1. UsableIds(body, k + 1) = UsableIds(body, k) \cup {body[k + 1].apicId}
    BY <1>1, <1>2, Zenon DEF UsableIds
  <2>2. body[k + 1].apicId \notin UsableIds(body, k)
    BY <1>2 DEF UsableIds, ProperMadt
  <2>3. IsFiniteSet(UsableIds(body, k))
    BY UsableFacts
  <2> QED BY <1>2, <2>1, <2>2, <2>3, FS_AddElement, Zenon
<1>3. CASE ~Usable(body[k + 1])
  BY <1>1, <1>3, Zenon DEF UsableIds
<1> QED BY <1>2, <1>3, Zenon

-----------------------------------------------------------------------------
(* WalkInv is kept. *)

(* A step that leaves ACPI's variables alone and goes where it may. *)
LEMMA QuietKeepsWalk ==
  ASSUME WalkInv, UNCHANGED <<acpiVars, machine>>,
         pc' \in BeforeWalk \cup {"madt", "panic"} \cup
                {"disable", "lapic", "ioapic", "redirect", "smbios", "kernel", "halt"},
         pc' \in BeforeWalk => pc \in BeforeWalk,
         pc' \in {"disable", "lapic", "ioapic", "redirect"} => machine.hasApic,
         Walked' \/ pc' = "madt" => Walked \/ pc = "madt",
         Walked' => Walked \/ madt = <<>>
  PROVE  WalkInv'
<1>1. /\ MadtBody' = MadtBody /\ HasMadt' = HasMadt /\ Passed' = Passed
      /\ AcpiInit' = AcpiInit
  BY Zenon DEF acpiVars, MadtBody, HasMadt, Passed, AcpiInit
<1>2. HasMadt' /\ (Walked' \/ pc' = "madt") =>
       /\ madt' \in Seq(MadtEntries) /\ Len(madt') <= Len(MadtBody')
       /\ \A j \in 1..Len(madt') : madt'[j] = MadtBody'[Passed' + j]
       /\ ProcsUpTo(MadtBody, Passed)'
       /\ IsosUpTo(MadtBody, Passed)'
  BY <1>1 DEF WalkInv, acpiVars, ProcsUpTo, IsosUpTo
<1>3. HasMadt' /\ Walked' => madt' = <<>>
  BY <1>1, Zenon DEF WalkInv, acpiVars
<1> QED BY <1>1, <1>2, <1>3, Zenon DEF WalkInv

LEMMA FindKeepsWalk ==
  ASSUME IInv, FindMadt
  PROVE  WalkInv'
<1>1. /\ pc = "tables" /\ pc' = "madt" /\ AcpiInit
      /\ madt' = MadtBody /\ machine' = machine
      /\ UNCHANGED <<g_Processors, g_ProcessorCount, g_Isos, g_IsoAmount, ioApicBase, spilled>>
  BY Zenon DEF IInv, WalkInv, FindMadt, At, BeforeWalk
<1>2. MadtBody' = MadtBody /\ HasMadt' = HasMadt
  BY <1>1, Zenon DEF MadtBody, HasMadt
<1>3. ASSUME HasMadt
      PROVE  /\ madt' \in Seq(MadtEntries) /\ Len(madt') <= Len(MadtBody')
             /\ \A j \in 1..Len(madt') : madt'[j] = MadtBody'[Passed' + j]
             /\ ProcsUpTo(MadtBody, Passed)'
             /\ IsosUpTo(MadtBody, Passed)'
  <2>1. MadtBody \in Seq(MadtEntries)
    BY <1>3, TheMadt, Zenon DEF IInv
  <2>2. Passed' = 0
    BY <1>1, <1>2, <2>1 DEF Passed
  <2>3. UsableIds(MadtBody, 0) = {} /\ Recorded(MadtBody, 0) = {}
    BY DEF UsableIds, Recorded
  <2>4. Cardinality(UsableIds(MadtBody, 0)) = 0 /\ Cardinality(Recorded(MadtBody, 0)) = 0
    BY <2>3, FS_EmptySet, Zenon
  <2>5. /\ ~spilled'
        /\ g_ProcessorCount' = 1 /\ g_IsoAmount' = 0
        /\ g_Processors' \in [0..(ProcessorLimit - 1) -> ApicIds]
        /\ g_Isos' \in [0..(IsoLimit - 1) -> [irqSource : AllLines, gSi : Nat]]
        /\ g_IsoAmount' \in 0..(IsoLimit - 1)
    <3>1. NoIso \in [irqSource : AllLines, gSi : Nat]
      BY DEF NoIso, AllLines
    <3> QED BY <1>1, <3>1, AcpiAssumption DEF AcpiInit
  <2>6. ProcsUpTo(MadtBody, Passed)'
    BY <1>2, <2>2, <2>3, <2>4, <2>5 DEF ProcsUpTo
  <2>7. IsosUpTo(MadtBody, Passed)'
    BY <1>2, <2>2, <2>3, <2>4, <2>5 DEF IsosUpTo
  <2> QED BY <1>1, <1>2, <2>1, <2>2, <2>6, <2>7
<1> QED BY <1>1, <1>2, <1>3, Zenon DEF WalkInv, Walked, BeforeWalk, BeforePic, BeforeIdt

(* The walk is at entry Passed + 1 of the MADT and passes it. *)
LEMMA WalkPasses ==
  ASSUME IInv, WalkMadt, HasMadt
  PROVE  /\ pc = "madt" /\ pc' = "madt"
         /\ MadtBody \in Seq(MadtEntries) /\ ProperMadt(MadtBody)
         /\ Passed \in 0..(Len(MadtBody) - 1)
         /\ Head(madt) = MadtBody[Passed + 1]
         /\ madt' = Tail(madt)
         /\ MadtBody' = MadtBody /\ HasMadt' = HasMadt /\ Passed' = Passed + 1
         /\ madt' \in Seq(MadtEntries) /\ Len(madt') <= Len(MadtBody)
         /\ \A j \in 1..Len(madt') : madt'[j] = MadtBody[Passed' + j]
<1>1. pc = "madt" /\ pc' = "madt" /\ madt # <<>> /\ machine' = machine
  BY Zenon DEF WalkMadt, At, MadtEntry
<1>2. MadtBody \in Seq(MadtEntries) /\ ProperMadt(MadtBody)
  BY TheMadt, Zenon DEF IInv
<1>3. /\ madt \in Seq(MadtEntries) /\ Len(madt) <= Len(MadtBody)
      /\ \A j \in 1..Len(madt) : madt[j] = MadtBody[Passed + j]
  BY <1>1, Zenon DEF IInv, WalkInv
<1>4. MadtBody' = MadtBody /\ HasMadt' = HasMadt
  BY <1>1, Zenon DEF MadtBody, HasMadt
<1>5. Passed \in 0..(Len(MadtBody) - 1) /\ Len(madt) \in Nat \ {0}
  <2>1. Len(madt) \in Nat \ {0} /\ Len(MadtBody) \in Nat
    BY <1>1, <1>2, <1>3
  <2> QED BY <1>3, <2>1 DEF Passed
<1>6. Head(madt) = MadtBody[Passed + 1]
  BY <1>1, <1>3, <1>5
<1>7. Head(madt).length # 0
  BY <1>2, <1>5, <1>6 DEF ProperMadt
<1>8. madt' = Tail(madt)
  BY <1>7, Zenon DEF WalkMadt, MadtEntry
<1>9. /\ madt' \in Seq(MadtEntries) /\ Len(madt') = Len(madt) - 1
      /\ \A j \in 1..Len(madt') : madt'[j] = madt[j + 1]
  BY <1>1, <1>3, <1>8
<1>10. Passed' = Passed + 1
  BY <1>2, <1>4, <1>5, <1>9 DEF Passed
<1>11. ASSUME NEW j \in 1..Len(madt')
       PROVE  madt'[j] = MadtBody[Passed' + j]
  <2>1. j + 1 \in 1..Len(madt) /\ Passed' + j = Passed + (j + 1)
    BY <1>5, <1>9, <1>10
  <2> QED BY <1>3, <1>9, <2>1, Zenon
<1>12. Len(madt') <= Len(MadtBody)
  BY <1>2, <1>3, <1>5, <1>9
<1> QED BY <1>1, <1>2, <1>4, <1>5, <1>6, <1>8, <1>9, <1>10, <1>11, <1>12

(* A usable processor is put behind the others: there is room, as firmware *)
(* lists each APIC id once and number 0 is left out.                       *)
LEMMA WalkKeepsProcs ==
  ASSUME IInv, WalkMadt, HasMadt
  PROVE  ProcsUpTo(MadtBody, Passed)'
<1> DEFINE b == MadtBody
           k == Passed
           e == b[k + 1]
           ids == UsableIds(b, k)
<1>1. /\ b \in Seq(MadtEntries) /\ ProperMadt(b) /\ k \in 0..(Len(b) - 1)
      /\ Head(madt) = e /\ MadtBody' = b /\ Passed' = k + 1 /\ pc = "madt"
  BY WalkPasses, Zenon
<1>2. ProcsUpTo(b, k)
  BY <1>1, Zenon DEF IInv, WalkInv
<1>3. e \in MadtEntries
  BY <1>1, BodyEntry
<1>4. /\ ids \subseteq ApicIds \ {0} /\ Cardinality(ids) \in Nat
      /\ ProcessorLimit \in Nat
      /\ Cardinality(ids) < ProcessorLimit
  BY <1>1, UsableFacts
<1>5. IF Usable(e)
      THEN /\ UsableIds(b, k + 1) = ids \cup {e.apicId}
           /\ Cardinality(UsableIds(b, k + 1)) = Cardinality(ids) + 1
      ELSE UsableIds(b, k + 1) = ids
  BY <1>1, UsableGrows, Zenon
<1> HIDE DEF b, k, e, ids
<1>6. CASE Usable(e)
  <2>1. MadtLocal(e)
    BY <1>1, <1>6 DEF WalkMadt, MadtEntry, MadtIo, MadtIso, MadtOther, Usable
  <2>2. g_ProcessorCount = Cardinality(ids) + 1
    BY <1>2, Zenon DEF ProcsUpTo, ids
  <2>3. Cardinality(UsableIds(b, k + 1)) < ProcessorLimit
    BY <1>1, UsableFacts
  <2>4. g_ProcessorCount \in 1..(ProcessorLimit - 1)
    BY <1>4, <1>5, <1>6, <2>2, <2>3
  <2>5. /\ g_ProcessorCount' = g_ProcessorCount + 1
        /\ g_Processors' = [g_Processors EXCEPT ![g_ProcessorCount] = e.apicId]
        /\ spilled' = spilled
    BY <1>4, <1>6, <2>1, <2>4 DEF MadtLocal
  <2>6. e.apicId \in ApicIds
    BY <1>3, <1>6, EntryType, Zenon DEF Usable
  <2>7. /\ g_Processors \in [0..(ProcessorLimit - 1) -> ApicIds] /\ ~spilled
        /\ {g_Processors[i] : i \in 1..(g_ProcessorCount - 1)} = ids
    BY <1>2, Zenon DEF ProcsUpTo, ids
  <2>8. g_Processors' \in [0..(ProcessorLimit - 1) -> ApicIds]
    BY <2>5, <2>6, <2>7, Zenon
  <2>9. {g_Processors'[i] : i \in 1..(g_ProcessorCount' - 1)} = ids \cup {e.apicId}
    <3>1. 1..(g_ProcessorCount' - 1) = (1..(g_ProcessorCount - 1)) \cup {g_ProcessorCount}
      BY <2>4, <2>5
    <3>2. \A i \in 1..(g_ProcessorCount - 1) : g_Processors'[i] = g_Processors[i]
      BY <1>4, <2>4, <2>5, <2>7
    <3>3. g_Processors'[g_ProcessorCount] = e.apicId
      BY <1>4, <2>4, <2>5, <2>7
    <3> QED BY <2>7, <3>1, <3>2, <3>3
  <2>10. g_ProcessorCount' = Cardinality(UsableIds(b, k + 1)) + 1
    BY <1>4, <1>5, <1>6, <2>2, <2>5, Zenon
  <2> QED BY <1>1, <1>5, <1>6, <2>5, <2>7, <2>8, <2>9, <2>10, Zenon DEF ProcsUpTo
<1>7. CASE ~Usable(e)
  <2>1. UNCHANGED <<g_Processors, g_ProcessorCount, spilled>>
    BY <1>1, <1>7, Zenon DEF WalkMadt, MadtEntry, MadtLocal, MadtIo, MadtIso, MadtOther
  <2> QED BY <1>1, <1>2, <1>5, <1>7, <2>1, Zenon DEF ProcsUpTo, ids
<1> QED BY <1>6, <1>7, Zenon

LEMMA IsoType ==
  ASSUME NEW e \in MadtEntries, e.type \in {1, 2}, e.type = 2 => e.irqSource \in AllLines
  PROVE  AsIso(e) \in [irqSource : AllLines, gSi : Nat]
BY EntryType DEF AsIso, AllLines

LEMMA WalkKeepsIsos ==
  ASSUME IInv, WalkMadt, HasMadt
  PROVE  IsosUpTo(MadtBody, Passed)'
<1> DEFINE b == MadtBody
           k == Passed
           e == b[k + 1]
           all == Cardinality(Recorded(b, Len(b)))
<1>1. /\ b \in Seq(MadtEntries) /\ ProperMadt(b) /\ k \in 0..(Len(b) - 1)
      /\ Head(madt) = e /\ MadtBody' = b /\ Passed' = k + 1 /\ pc = "madt"
  BY WalkPasses, Zenon
<1>2. IsosUpTo(b, k)
  BY <1>1, Zenon DEF IInv, WalkInv
<1>3. e \in MadtEntries /\ (e.type = 2 => e.irqSource \in AllLines)
  BY <1>1, BodyEntry DEF ProperMadt
<1>4. IF e.type \in {1, 2}
      THEN /\ Recorded(b, k + 1) = Recorded(b, k) \cup {k + 1}
           /\ Cardinality(Recorded(b, k + 1)) = Cardinality(Recorded(b, k)) + 1
      ELSE Recorded(b, k + 1) = Recorded(b, k)
  BY <1>1, RecordedGrows, Zenon
<1> HIDE DEF b, k, e, all
<1>5. CASE e.type \in {1, 2}
  <2>1. Record(AsIso(e))
    BY <1>1, <1>5 DEF WalkMadt, MadtEntry, MadtLocal, MadtIo, MadtIso, MadtOther
  <2>2. /\ g_Isos \in [0..(IsoLimit - 1) -> [irqSource : AllLines, gSi : Nat]]
        /\ g_IsoAmount \in 0..(IsoLimit - 1)
    BY <1>2, Zenon DEF IsosUpTo
  <2>3. g_Isos' \in [0..(IsoLimit - 1) -> [irqSource : AllLines, gSi : Nat]]
    <3>1. AsIso(e) \in [irqSource : AllLines, gSi : Nat]
      BY <1>3, <1>5, IsoType, Zenon
    <3> QED BY <2>1, <2>2, <3>1, Zenon DEF Record
  <2>4. g_IsoAmount' \in 0..(IsoLimit - 1)
    BY <2>1, <2>2, AcpiAssumption DEF Record
  <2>5. ASSUME all < IsoLimit
        PROVE  /\ g_IsoAmount' = Cardinality(Recorded(b, k + 1))
               /\ \A i \in Recorded(b, k + 1) : g_Isos'[Place(b, i)] = AsIso(b[i])
               /\ \A n \in 0..(g_IsoAmount' - 1) : \E i \in Recorded(b, k + 1) : Place(b, i) = n
    <3>1. /\ g_IsoAmount = Cardinality(Recorded(b, k))
          /\ \A i \in Recorded(b, k) : g_Isos[Place(b, i)] = AsIso(b[i])
          /\ \A n \in 0..(g_IsoAmount - 1) : \E i \in Recorded(b, k) : Place(b, i) = n
      BY <1>2, <2>5, Zenon DEF IsosUpTo, all
    <3>2. Cardinality(Recorded(b, k + 1)) <= all /\ all \in Nat
      <4>1. k + 1 \in 0..Len(b) /\ Len(b) \in 0..Len(b)
        BY <1>1
      <4> QED BY <1>1, <4>1, RecordedFacts, Zenon DEF all
    <3>3. g_IsoAmount' = g_IsoAmount + 1
      <4>1. g_IsoAmount + 1 \in 0..(IsoLimit - 1)
        BY <1>4, <1>5, <2>2, <2>5, <3>1, <3>2, AcpiAssumption
      <4>2. (g_IsoAmount + 1) % IsoLimit = g_IsoAmount + 1
        BY <4>1, ModSmall, AcpiAssumption, Zenon
      <4> QED BY <2>1, <4>2, Zenon DEF Record
    <3>4. Place(b, k + 1) = g_IsoAmount
      <4>1. (k + 1) - 1 = k
        BY <1>1
      <4> QED BY <3>1, <4>1, Zenon DEF Place
    <3>5. ASSUME NEW i \in Recorded(b, k)
          PROVE  g_Isos'[Place(b, i)] = AsIso(b[i])
      <4>1. Place(b, i) \in Nat /\ Place(b, i) < g_IsoAmount
        <5>1. k \in 0..Len(b)
          BY <1>1
        <5> QED BY <1>1, <3>1, <5>1, PlaceBelow, Zenon
      <4> QED BY <2>1, <2>2, <3>1, <4>1 DEF Record
    <3>6. g_Isos'[Place(b, k + 1)] = AsIso(b[k + 1])
      BY <2>1, <2>2, <3>4, Zenon DEF Record, e
    <3>7. ASSUME NEW n \in 0..(g_IsoAmount' - 1)
          PROVE  \E i \in Recorded(b, k + 1) : Place(b, i) = n
      <4>1. n = g_IsoAmount \/ n \in 0..(g_IsoAmount - 1)
        BY <2>2, <3>3
      <4> QED BY <1>4, <1>5, <3>1, <3>4, <4>1, Zenon
    <3>8. \A i \in Recorded(b, k + 1) : g_Isos'[Place(b, i)] = AsIso(b[i])
      BY <1>4, <1>5, <3>5, <3>6, Zenon
    <3> QED BY <1>4, <1>5, <3>1, <3>3, <3>7, <3>8, Zenon
  <2> QED BY <1>1, <2>3, <2>4, <2>5, Zenon DEF IsosUpTo, all
<1>6. CASE e.type \notin {1, 2}
  <2>1. UNCHANGED <<g_Isos, g_IsoAmount>>
    BY <1>1, <1>6, Zenon DEF WalkMadt, MadtEntry, MadtLocal, MadtIo, MadtIso, MadtOther
  <2> QED BY <1>1, <1>2, <1>4, <1>6, <2>1, Zenon DEF IsosUpTo
<1> QED BY <1>5, <1>6, Zenon

LEMMA WalkKeepsWalk ==
  ASSUME IInv, WalkMadt
  PROVE  WalkInv'
<1>1. pc = "madt" /\ pc' = "madt" /\ machine' = machine
  BY Zenon DEF WalkMadt, At
<1>2. HasMadt' = HasMadt
  BY <1>1, Zenon DEF HasMadt
<1>3. HasMadt' => /\ madt' \in Seq(MadtEntries) /\ Len(madt') <= Len(MadtBody')
                  /\ \A j \in 1..Len(madt') : madt'[j] = MadtBody'[Passed' + j]
                  /\ ProcsUpTo(MadtBody, Passed)'
                  /\ IsosUpTo(MadtBody, Passed)'
  BY <1>2, WalkPasses, WalkKeepsProcs, WalkKeepsIsos, Zenon
<1> QED BY <1>1, <1>3, Zenon DEF WalkInv, Walked, BeforeWalk, BeforePic, BeforeIdt

-----------------------------------------------------------------------------
(* RedirectInv is kept. *)

(* When the walk is over, g_Isos holds all entries of type 1 and 2. *)
LEMMA WalkDone ==
  ASSUME IInv, HasMadt, Walked
  PROVE  /\ MadtBody \in Seq(MadtEntries) /\ ProperMadt(MadtBody)
         /\ Passed = Len(MadtBody)
         /\ ProcsUpTo(MadtBody, Len(MadtBody))
         /\ IsosUpTo(MadtBody, Len(MadtBody))
<1>1. MadtBody \in Seq(MadtEntries) /\ ProperMadt(MadtBody)
  BY TheMadt, Zenon DEF IInv
<1>2. madt = <<>> /\ ProcsUpTo(MadtBody, Passed) /\ IsosUpTo(MadtBody, Passed)
  BY Zenon DEF IInv, WalkInv
<1>3. Passed = Len(MadtBody)
  <2>1. Len(MadtBody) \in Nat /\ Len(madt) = 0
    BY <1>1, <1>2
  <2> QED BY <2>1 DEF Passed
<1> QED BY <1>1, <1>2, <1>3, Zenon

LEMMA TurnKeepsInForce ==
  ASSUME IInv, HasMadt, Walked, iso < g_IsoAmount,
         Cardinality(Recorded(MadtBody, Len(MadtBody))) < IsoLimit,
         redirect' = [redirect EXCEPT ![g_Isos[iso].gSi % 256] = g_Isos[iso].irqSource + 32],
         iso' = iso + 1, machine' = machine
  PROVE  InForce(MadtBody)'
<1> DEFINE b == MadtBody
           R == Recorded(b, Len(b))
<1>1. b \in Seq(MadtEntries) /\ MadtBody' = b
  BY WalkDone, Zenon DEF MadtBody
<1>2. /\ g_IsoAmount = Cardinality(R) /\ iso \in 0..g_IsoAmount /\ InForce(b)
      /\ \A i \in R : g_Isos[Place(b, i)] = AsIso(b[i])
      /\ \A n \in 0..(g_IsoAmount - 1) : \E i \in R : Place(b, i) = n
  BY WalkDone, Zenon DEF IsosUpTo, IInv, RedirectInv
<1>3. g_IsoAmount \in Nat
  BY WalkDone DEF IsosUpTo
<1>4. redirect \in [Inputs -> (32..47) \cup {NONE}]
  BY Zenon DEF IInv, IntrInv
<1> HIDE DEF b, R
<1>5. PICK n \in R : Place(b, n) = iso
  BY <1>2, <1>3
<1>6. redirect' = [redirect EXCEPT ![Input(b, n)] = AsIso(b[n]).irqSource + 32]
  BY <1>2, <1>5, Zenon DEF Input
<1>7. ASSUME NEW i \in R, Place(b, i) < iso + 1, Input(b, i) \in Inputs,
             \A j \in R : j > i /\ Place(b, j) < iso + 1 => Input(b, j) # Input(b, i)
      PROVE  redirect'[Input(b, i)] = AsIso(b[i]).irqSource + 32
  <2>1. i \in Nat /\ n \in Nat
    BY <1>1 DEF R, Recorded
  <2>2. CASE i = n
    BY <1>4, <1>6, <1>7, <2>2, Zenon
  <2>3. CASE i < n
    <3>1. Place(b, i) < iso
      BY <1>1, <1>5, <2>3, PlacesInOrder, Zenon DEF R
    <3>2. Input(b, n) # Input(b, i)
      BY <1>2, <1>3, <1>5, <1>7, <2>1, <2>3
    <3>3. \A j \in R : j > i /\ Place(b, j) < iso => Input(b, j) # Input(b, i)
      <4>1. \A j \in R : Place(b, j) \in Nat
        <5>1. Len(b) \in 0..Len(b)
          BY <1>1
        <5> QED BY <1>1, <5>1, PlaceBelow, Zenon DEF R
      <4> QED BY <1>2, <1>3, <1>7, <4>1
    <3>4. redirect[Input(b, i)] = AsIso(b[i]).irqSource + 32
      BY <1>2, <1>7, <3>1, <3>3, Zenon DEF InForce, R
    <3> QED BY <1>4, <1>6, <1>7, <3>2, <3>4, Zenon
  <2>4. CASE i > n
    <3>1. Place(b, n) < Place(b, i) /\ Place(b, i) \in Nat
      BY <1>1, <2>4, PlacesInOrder, Zenon DEF R
    <3> QED BY <1>2, <1>3, <1>5, <1>7, <3>1
  <2> QED BY <2>1, <2>2, <2>3, <2>4
<1> QED BY <1>1, <1>7, Zenon DEF InForce, R

LEMMA QuietKeepsRedirect ==
  ASSUME RedirectInv, UNCHANGED <<g_IsoAmount, machine, iso, redirect>>,
         pc' \in BeforeWalk \cup {"madt", "disable", "lapic", "ioapic"} =>
           pc \in BeforeWalk \cup {"madt", "disable", "lapic", "ioapic"},
         Walked' => Walked,
         pc' \in {"smbios", "kernel", "halt"} => pc \in {"smbios", "kernel", "halt"}
  PROVE  RedirectInv'
<1>1. MadtBody' = MadtBody /\ HasMadt' = HasMadt
  BY Zenon DEF MadtBody, HasMadt
<1>2. InForce(MadtBody) => InForce(MadtBody)'
  BY <1>1, Zenon DEF InForce
<1>3. HasMadt' /\ Walked' =>
       /\ iso' \in 0..g_IsoAmount'
       /\ pc' \in {"smbios", "kernel", "halt"} /\ machine'.hasApic => iso' = g_IsoAmount'
       /\ Cardinality(Recorded(MadtBody', Len(MadtBody'))) < IsoLimit => InForce(MadtBody)'
  BY <1>1, <1>2, Zenon DEF RedirectInv
<1> QED BY <1>3, Zenon DEF RedirectInv

-----------------------------------------------------------------------------
(* Both are kept by every step of the boot processor. *)

LEMMA BootStepKeepsWalk ==
  ASSUME IInv, BootStep
  PROVE  WalkInv' /\ RedirectInv'
<1> USE DEF Walked, BeforeWalk, BeforePic, BeforeIdt
<1>0. WalkInv /\ RedirectInv /\ machine \in Machines
  BY Zenon DEF IInv
<1>1. CASE \/ ParseEntry \/ ParseTag \/ ParseStivale2Info \/ DisableFirst \/ LoadIdt
           \/ MemoryInitialize \/ RemapPic \/ PIT_Initialize \/ EnableFirst \/ FindRsdp
           \/ DisablePic \/ LAPIC_Initialize \/ IOAPIC_Initialize \/ FindSmbios \/ KernelInitialize
  <2>1. UNCHANGED <<acpiVars, machine, iso, redirect>>
    BY <1>1, Zenon
    DEF ParseEntry, ParseTag, ParseStivale2Info, DisableFirst, LoadIdt, MemoryInitialize, RemapPic,
        PIT_Initialize, EnableFirst, FindRsdp, DisablePic, LAPIC_Initialize, IOAPIC_Initialize,
        FindSmbios, KernelInitialize, Nothing, intrVars, apicVars
  <2>2. \/ pc' = pc
        \/ pc \in BeforeWalk /\ pc' \in BeforeWalk \cup {"panic"}
        \/ pc = "disable" /\ pc' = "lapic"
        \/ pc = "lapic" /\ pc' = "ioapic"
        \/ pc = "ioapic" /\ pc' \in {"panic", "redirect"}
        \/ pc \in {"smbios", "kernel"} /\ pc' \in {"panic", "kernel", "halt"}
    <3>1. CASE ParseEntry \/ ParseTag \/ ParseStivale2Info
      <4>1. pc = "parse" /\ pc' \in {"parse", "cli"}
        BY <3>1, Zenon DEF ParseEntry, ParseTag, ParseStivale2Info
      <4> QED BY <4>1, Zenon
    <3>2. CASE \/ DisableFirst \/ LoadIdt \/ MemoryInitialize \/ RemapPic \/ PIT_Initialize
               \/ EnableFirst \/ FindRsdp
      BY <3>2, Zenon
      DEF DisableFirst, LoadIdt, MemoryInitialize, RemapPic, PIT_Initialize, EnableFirst, FindRsdp, At
    <3>3. CASE DisablePic \/ LAPIC_Initialize \/ IOAPIC_Initialize \/ FindSmbios \/ KernelInitialize
      BY <3>3, Zenon DEF DisablePic, LAPIC_Initialize, IOAPIC_Initialize, FindSmbios, KernelInitialize, At
    <3> QED BY <1>1, <3>1, <3>2, <3>3, Zenon
  <2>3. /\ pc' \in BeforeWalk => pc \in BeforeWalk
        /\ pc' \in {"disable", "lapic", "ioapic", "redirect"}
             => pc \in {"disable", "lapic", "ioapic", "redirect"}
        /\ Walked' \/ pc' = "madt" => Walked \/ pc = "madt"
        /\ Walked' => Walked
        /\ pc' \in BeforeWalk \cup {"madt", "disable", "lapic", "ioapic"} =>
             pc \in BeforeWalk \cup {"madt", "disable", "lapic", "ioapic"}
        /\ pc' \in {"smbios", "kernel", "halt"} => pc \in {"smbios", "kernel", "halt"}
    BY <2>2, Zenon
  <2>4. pc' \in BeforeWalk \cup {"madt", "panic"} \cup
               {"disable", "lapic", "ioapic", "redirect", "smbios", "kernel", "halt"}
    BY <1>0, <2>2, Zenon DEF WalkInv
  <2>5. machine.hasApic \/ pc \notin {"disable", "lapic", "ioapic", "redirect"}
    BY <1>0, Zenon DEF WalkInv
  <2> HIDE DEF Walked, BeforeWalk
  <2>6. WalkInv'
    BY <1>0, <2>1, <2>3, <2>4, <2>5, QuietKeepsWalk, Zenon
  <2>7. RedirectInv'
    BY <1>0, <2>1, <2>3, QuietKeepsRedirect, Zenon DEF acpiVars
  <2> QED BY <2>6, <2>7, Zenon
<1>2. CASE FindMadt
  <2>1. RedirectInv'
    BY <1>0, <1>2, Zenon DEF FindMadt, At, RedirectInv, apicVars
  <2> QED BY <1>2, <2>1, FindKeepsWalk, Zenon
<1>3. CASE WalkMadt
  <2>1. RedirectInv'
    BY <1>0, <1>3, Zenon DEF WalkMadt, At, RedirectInv
  <2> QED BY <1>3, <2>1, WalkKeepsWalk, Zenon
<1>4. CASE AcpiReady
  <2>1. /\ UNCHANGED <<acpiVars, machine, iso, redirect>> /\ madt = <<>>
        /\ pc = "madt" /\ pc' \in {"disable", "smbios"} /\ (pc' = "disable" <=> machine.hasApic)
    BY <1>0, <1>4, MachinesAssumption, Zenon DEF AcpiReady, At, apicVars
  <2>2. WalkInv'
    BY <1>0, <2>1, QuietKeepsWalk, Zenon
  <2>3. iso = 0 /\ iso' = 0
    BY <1>0, <2>1, Zenon DEF RedirectInv
  <2>4. HasMadt' = HasMadt /\ MadtBody' = MadtBody
    BY <2>1, Zenon DEF HasMadt, MadtBody
  <2>5. HasMadt => g_IsoAmount' \in Nat
    BY <1>0, <2>1 DEF WalkInv, IsosUpTo, acpiVars
  <2>6. HasMadt => InForce(MadtBody)'
    <3>1. ASSUME HasMadt, NEW i \in Recorded(MadtBody, Len(MadtBody))
          PROVE  ~(Place(MadtBody, i) < 0)
      <4>1. MadtBody \in Seq(MadtEntries)
        BY <1>0, <3>1, TheMadt, Zenon
      <4>2. Len(MadtBody) \in 0..Len(MadtBody)
        BY <4>1
      <4>3. Place(MadtBody, i) \in Nat
        BY <3>1, <4>1, <4>2, PlaceBelow, Zenon
      <4> QED BY <4>3
    <3> QED BY <2>1, <2>3, <2>4, <3>1, Zenon DEF InForce
  <2>7. RedirectInv'
    BY <2>1, <2>3, <2>4, <2>5, <2>6 DEF RedirectInv
  <2> QED BY <2>2, <2>7, Zenon
<1>5. CASE Redirect
  <2>1. /\ UNCHANGED <<acpiVars, machine>> /\ pc = "redirect"
        /\ pc' = IF iso = g_IsoAmount THEN "smbios" ELSE "redirect"
        /\ IF iso < g_IsoAmount
           THEN /\ redirect' = [redirect EXCEPT ![g_Isos[iso].gSi % 256] = g_Isos[iso].irqSource + 32]
                /\ iso' = iso + 1
           ELSE UNCHANGED <<redirect, iso>>
    BY <1>5, Zenon DEF Redirect, At
  <2>2. HasMadt /\ HasMadt' /\ MadtBody' = MadtBody /\ machine.hasApic
    BY <1>0, <2>1, MachinesAssumption, Zenon DEF WalkInv, HasMadt, MadtBody
  <2>3. WalkInv'
    <3>1. pc' \in {"redirect", "smbios"}
      BY <2>1, Zenon
    <3> QED BY <1>0, <2>1, <2>2, <3>1, QuietKeepsWalk, Zenon
  <2>4. iso \in 0..g_IsoAmount /\ g_IsoAmount' = g_IsoAmount /\ g_IsoAmount \in Nat
    BY <1>0, <2>1, <2>2 DEF WalkInv, RedirectInv, IsosUpTo, acpiVars
  <2>5. CASE iso < g_IsoAmount
    <3>1. Cardinality(Recorded(MadtBody, Len(MadtBody))) < IsoLimit => InForce(MadtBody)'
      BY <2>1, <2>2, <2>5, TurnKeepsInForce, Zenon
    <3>2. iso' \in 0..g_IsoAmount' /\ pc' = "redirect"
      BY <2>1, <2>4, <2>5
    <3> QED BY <2>2, <2>3, <3>1, <3>2, Zenon DEF RedirectInv
  <2>6. CASE iso = g_IsoAmount
    <3>1. UNCHANGED <<redirect, iso>> /\ pc' = "smbios"
      BY <2>1, <2>4, <2>6
    <3>2. Cardinality(Recorded(MadtBody, Len(MadtBody))) < IsoLimit => InForce(MadtBody)'
      BY <1>0, <2>1, <2>2, <3>1, Zenon DEF RedirectInv, InForce
    <3> QED BY <2>2, <2>3, <2>4, <2>6, <3>1, <3>2, Zenon DEF RedirectInv
  <2> QED BY <2>4, <2>5, <2>6
<1> QED BY <1>1, <1>2, <1>3, <1>4, <1>5, Zenon DEF BootStep

-----------------------------------------------------------------------------
(* The invariant, and what follows from it. *)

LEMMA InitIInv ==
  ASSUME Init
  PROVE  IInv
<1>1. machine \in Machines /\ pc = "parse" /\ iso = 0
  BY Zenon DEF Init
<1>2. IntrInv
  BY <1>1, LinesAssumption, Zenon
  DEF Init, InterruptsInit, IntrInv, InService, BeforeIdt, BeforePic, AllLines
<1>3. WalkInv /\ RedirectInv
  BY <1>1, Zenon DEF Init, WalkInv, RedirectInv, Walked, BeforeWalk, BeforePic, BeforeIdt
<1> QED BY <1>1, <1>2, <1>3, Zenon DEF IInv

LEMMA NextIInv ==
  ASSUME IInv, [Next]_vars
  PROVE  IInv'
<1>1. CASE BootStep
  <2>1. machine' = machine
    BY <1>1, Zenon
    DEF BootStep, ParseEntry, ParseTag, ParseStivale2Info, DisableFirst, LoadIdt, MemoryInitialize,
        RemapPic, PIT_Initialize, EnableFirst, FindRsdp, FindMadt, WalkMadt, AcpiReady, DisablePic,
        LAPIC_Initialize, IOAPIC_Initialize, Redirect, FindSmbios, KernelInitialize, Nothing
  <2>2. machine' \in Machines
    BY <2>1, Zenon DEF IInv
  <2> QED BY <1>1, <2>2, BootStepKeepsIntr, BootStepKeepsWalk, Zenon DEF IInv
<1>2. CASE Interrupt \/ Device \/ UNCHANGED vars
  <2>1. UNCHANGED <<acpiVars, machine, iso, pc>>
    BY <1>2, Zenon DEF Interrupt, Device, vars, bootVars
  <2>2. redirect' = redirect
    BY <1>2, Zenon DEF Interrupt, Device, vars, intrVars, apicVars, DispatchInterrupts, Deliver, DeliverPIC,
                DeliverSpurious, DeliverAPIC, Raise
  <2>3. IntrInv'
    <3>0. IntrInv
      BY Zenon DEF IInv
    <3>1. CASE Interrupt
      BY <2>1, <3>0, <3>1, DispatchKeepsIntr, DeliverKeepsIntr, Zenon DEF Interrupt
    <3>2. CASE Device
      BY <2>1, <3>0, <3>2, RaiseKeepsIntr, Zenon DEF Device
    <3>3. CASE UNCHANGED vars
      BY <3>0, <3>3, Zenon DEF vars, bootVars, intrVars, cpuVars, picVars, apicVars, IntrInv, InService
    <3> QED BY <1>2, <3>1, <3>2, <3>3, Zenon
  <2>4. Walked' = Walked
    BY <2>1, Zenon DEF Walked
  <2>5. WalkInv'
    BY <2>1, <2>4, QuietKeepsWalk, Zenon DEF IInv, WalkInv
  <2>6. RedirectInv'
    BY <2>1, <2>2, <2>4, QuietKeepsRedirect, Zenon DEF IInv, acpiVars
  <2> QED BY <2>1, <2>3, <2>5, <2>6, Zenon DEF IInv
<1> QED BY <1>1, <1>2, Zenon DEF Next

LEMMA Invariance == Spec => []IInv
<1>1. Init => IInv
  BY InitIInv, Zenon
<1>2. IInv /\ [Next]_vars => IInv'
  BY NextIInv, Zenon
<1> QED BY <1>1, <1>2, PTL DEF Spec

(* Whatever machine the kernel boots on and whenever its devices raise     *)
(* their lines, the processor enters no exception's gate for a device, and *)
(* no gate that is missing.                                                *)
THEOREM NoDeviceIsAnException == Spec => []IrqIsNoException
<1>1. IInv => IrqIsNoException
  <2> SUFFICES ASSUME IInv, handler # NONE PROVE handler \in gates /\ handler >= 32
    BY Zenon DEF IrqIsNoException
  <2>1. IntrInv
    BY Zenon DEF IInv
  <2>2. handler \in 32..47 /\ gates = (0..47) \cup {127, 128}
    BY <2>1, Zenon DEF IntrInv, BeforePic
  <2> QED BY <2>2
<1> QED BY <1>1, Invariance, PTL

(* RestoreInterrupts acknowledges exactly what is in service: when no      *)
(* handler runs the PICs are free to deliver every line.                   *)
THEOREM EveryServiceEnds == Spec => []ServiceEnds
<1>1. IInv => ServiceEnds
  BY Zenon DEF IInv, IntrInv, InService, ServiceEnds
<1> QED BY <1>1, Invariance, PTL

(* When ACPI_Initialize is through, g_Processors and its count are what    *)
(* the MADT lists, for any number of APIC ids.                             *)
THEOREM EveryProcessorIsListed == Spec => []ProcessorsListed
<1>1. IInv => ProcessorsListed
  <2> SUFFICES ASSUME IInv, Walked, HasMadt PROVE ProcessorsListed
    BY Zenon DEF ProcessorsListed
  <2> DEFINE b == MadtBody
             usable == {b[i].apicId : i \in {k \in DOMAIN b : Usable(b[k])}}
  <2>1. b \in Seq(MadtEntries) /\ ProcsUpTo(b, Len(b))
    BY WalkDone, Zenon
  <2> HIDE DEF b
  <2>2. DOMAIN b = 1..Len(b)
    BY <2>1
  <2>3. UsableIds(b, Len(b)) = usable
    BY <2>2, Zenon DEF UsableIds
  <2>4. /\ ~spilled
        /\ g_ProcessorCount = Cardinality(usable) + 1
        /\ {g_Processors[i] : i \in 1..(g_ProcessorCount - 1)} = usable
    BY <2>1, <2>3, Zenon DEF ProcsUpTo
  <2> QED BY <2>4, Zenon DEF ProcessorsListed, b
<1> QED BY <1>1, Invariance, PTL

(* When IOAPIC_Initialize is through, an input of the I/O APIC has the     *)
(* vector that the last MADT entry naming it asks for.                     *)
THEOREM EveryOverrideIsInForce == Spec => []OverridesInForce
<1>1. IInv => OverridesInForce
  <2> DEFINE b == MadtBody
             recorded == {i \in DOMAIN b : b[i].type \in {1, 2}}
  <2>1. SUFFICES ASSUME IInv, pc \in {"smbios", "kernel", "halt"}, machine.hasApic,
                        Cardinality(recorded) < IsoLimit, NEW i \in recorded,
                        b[i].type = 2, Input(b, i) \in Inputs,
                        \A j \in recorded : j > i => Input(b, j) # Input(b, i)
                 PROVE  redirect[Input(b, i)] = b[i].irqSource + 32
    BY DEF OverridesInForce, Input
  <2>2. HasMadt /\ Walked
    BY <2>1, MachinesAssumption, Zenon DEF IInv, HasMadt, Walked
  <2>3. b \in Seq(MadtEntries) /\ IsosUpTo(b, Len(b))
    BY <2>1, <2>2, WalkDone, Zenon
  <2>4. recorded = Recorded(b, Len(b))
    <3> HIDE DEF b
    <3>1. DOMAIN b = 1..Len(b)
      BY <2>3
    <3> QED BY <3>1, Zenon DEF Recorded
  <2>5. iso = g_IsoAmount /\ InForce(b)
    BY <2>1, <2>2, <2>4, Zenon DEF IInv, RedirectInv
  <2>6. Place(b, i) < iso
    <3>1. g_IsoAmount = Cardinality(Recorded(b, Len(b)))
      BY <2>1, <2>3, <2>4, Zenon DEF IsosUpTo
    <3>2. Len(b) \in 0..Len(b)
      BY <2>3
    <3> QED BY <2>3, <2>4, <2>5, <3>1, <3>2, PlaceBelow, Zenon
  <2>7. AsIso(b[i]).irqSource = b[i].irqSource
    BY <2>1 DEF AsIso
  <2> HIDE DEF b, recorded
  <2> QED BY <2>1, <2>4, <2>5, <2>6, <2>7, Zenon DEF InForce
<1> QED BY <1>1, Invariance, PTL

-----------------------------------------------------------------------------
(* ParseStivale2Info: what is in bootInfo.mem when so many tags and, of    *)
(* the memory map, so many entries have been read.                         *)
AsCell(e) == [start |-> e.base, end |-> e.base + e.length, type |-> MapType(e.type)]

EntriesRead(i) ==
  IF tag < i THEN 0 ELSE IF tag = i THEN idx ELSE Len(machine.tags[i].memmap)

MapRead(i) ==
  LET map == machine.tags[i].memmap IN
  /\ mem.size = EntriesRead(i)
  /\ \A k \in 1..EntriesRead(i) : mem.cells[k - 1] = AsCell(map[k])
  /\ mem.usable = UsableSums(map)[EntriesRead(i)]
  /\ \A j \in DOMAIN machine.tags :
       j < tag /\ machine.tags[j].id = "framebuffer"
         => mem.cells[MapLimit] = machine.tags[j].framebuffer

ParseInv ==
  /\ tag \in 1..(Len(machine.tags) + 1)
  /\ mem \in [total : Nat, usable : Nat, size : Nat, cells : [0..MapLimit -> Cells]]
  /\ IF tag <= Len(machine.tags) /\ TheTag.id = "memmap"
     THEN idx \in 0..Len(TheTag.memmap) ELSE idx = 0
  /\ pc # "parse" => tag = Len(machine.tags) + 1
  /\ \A i \in DOMAIN machine.tags :
       machine.tags[i].id = "memmap" /\ Len(machine.tags[i].memmap) <= MapLimit => MapRead(i)

InfoInv == machine \in Machines /\ ParseInv

-----------------------------------------------------------------------------
(* The boot loader's memory map. *)

Part(map, n) == IF map[n].type = "usable" THEN map[n].length ELSE 0

(* The sums of the first k parts, as functions on 0..k. *)
SumsUpTo(map, k) ==
  {g \in [0..k -> Nat] : g[0] = 0 /\ \A n \in 1..k : g[n] = g[n - 1] + Part(map, n)}

(* There are such functions for every k: take the least k for which there  *)
(* is none, and extend one for k - 1.                                      *)
LEMMA SumsExist ==
  ASSUME NEW map \in Seq(MapEntries), NEW k \in 0..Len(map)
  PROVE  SumsUpTo(map, k) # {}
<1>0. ASSUME NEW n \in 1..Len(map) PROVE Part(map, n) \in Nat
  <2>1. map[n] \in MapEntries
    OBVIOUS
  <2> QED BY <2>1, Zenon DEF Part, MapEntries
<1> DEFINE Bad == {n \in 0..Len(map) : SumsUpTo(map, n) = {}}
<1>1. SUFFICES ASSUME Bad # {} PROVE FALSE
  BY Zenon
<1>2. Bad \in SUBSET Nat
  OBVIOUS
<1>3. PICK m \in Bad : \A x \in Bad : m <= x
  <2> HIDE DEF Bad
  <2> QED BY <1>1, <1>2, HasLeast, Zenon
<1>4. CASE m = 0
  <2>1. [n \in 0..0 |-> 0] \in SumsUpTo(map, 0)
    BY DEF SumsUpTo
  <2> QED BY <1>3, <1>4, <2>1, Zenon
<1>5. CASE m # 0
  <2>1. m - 1 \in 0..Len(map) /\ m - 1 \notin Bad /\ m \in 1..Len(map)
    BY <1>3, <1>5
  <2>2. PICK g \in SumsUpTo(map, m - 1) : TRUE
    BY <2>1, Zenon
  <2> DEFINE h == [n \in 0..m |-> IF n = m THEN g[m - 1] + Part(map, m) ELSE g[n]]
  <2>3. g \in [0..(m - 1) -> Nat] /\ g[0] = 0 /\ \A n \in 1..(m - 1) : g[n] = g[n - 1] + Part(map, n)
    BY <2>2, Zenon DEF SumsUpTo
  <2>4. h \in [0..m -> Nat]
    BY <1>0, <2>1, <2>3
  <2>5. h[0] = 0
    BY <2>1, <2>3
  <2>6. ASSUME NEW n \in 1..m PROVE h[n] = h[n - 1] + Part(map, n)
    BY <2>1, <2>3
  <2>7. h \in SumsUpTo(map, m)
    <3> HIDE DEF h
    <3> QED BY <2>4, <2>5, <2>6, Zenon DEF SumsUpTo
  <2> QED BY <1>3, <2>7, Zenon
<1> QED BY <1>4, <1>5, Zenon

(* So UsableSums is what its recursive definition says. *)
LEMMA SumsAre ==
  ASSUME NEW map \in Seq(MapEntries)
  PROVE  /\ UsableSums(map)[0] = 0
         /\ \A n \in 1..Len(map) : UsableSums(map)[n] = UsableSums(map)[n - 1] + Part(map, n)
<1> DEFINE Rec(f) == [n \in 0..Len(map) |-> IF n = 0 THEN 0 ELSE f[n - 1] + Part(map, n)]
<1>1. PICK g \in SumsUpTo(map, Len(map)) : TRUE
  <2>1. Len(map) \in 0..Len(map)
    OBVIOUS
  <2> QED BY <2>1, SumsExist, Zenon
<1>2. g = Rec(g)
  <2>1. g \in [0..Len(map) -> Nat] /\ g[0] = 0 /\ \A n \in 1..Len(map) : g[n] = g[n - 1] + Part(map, n)
    BY <1>1, Zenon DEF SumsUpTo
  <2> QED BY <2>1
<1>3. UsableSums(map) = CHOOSE f : f = Rec(f)
  BY Zenon DEF UsableSums, Part
<1>4. UsableSums(map) = Rec(UsableSums(map))
  BY <1>2, <1>3, Zenon
<1> QED BY <1>4

LEMMA TagType ==
  ASSUME machine \in Machines, NEW i \in DOMAIN machine.tags
  PROVE  /\ i \in 1..Len(machine.tags) /\ Len(machine.tags) \in Nat
         /\ machine.tags[i].framebuffer \in Cells
         /\ machine.tags[i].memmap \in Seq(MapEntries)
<1> DEFINE R == [id : STRING, framebuffer : Cells, memmap : Seq(MapEntries)]
           tags == machine.tags
<1>1. tags \in Seq(R)
  BY MachinesAssumption, Zenon
<1> HIDE DEF R, tags
<1>2. tags[i] \in R /\ i \in 1..Len(tags) /\ Len(tags) \in Nat
  BY <1>1 DEF tags
<1> QED BY <1>2, Zenon DEF R, tags

LEMMA MapTypeIs == ASSUME NEW t PROVE MapType(t) \in Nat /\ (MapType(t) = 0 <=> t = "usable")
BY DEF MapType

LEMMA CellType ==
  ASSUME NEW e \in MapEntries
  PROVE  AsCell(e) \in Cells
BY MapTypeIs DEF AsCell, MapEntries, Cells

LEMMA PutEntryIs ==
  ASSUME NEW m \in [total : Nat, usable : Nat, size : Nat, cells : [0..MapLimit -> Cells]],
         NEW e \in MapEntries
  PROVE  /\ PutEntry(m, e) \in [total : Nat, usable : Nat, size : Nat, cells : [0..MapLimit -> Cells]]
         /\ PutEntry(m, e).size = m.size + 1
         /\ PutEntry(m, e).usable = m.usable + (IF e.type = "usable" THEN e.length ELSE 0)
         /\ PutEntry(m, e).cells =
              IF m.size \in 0..MapLimit THEN [m.cells EXCEPT ![m.size] = AsCell(e)] ELSE m.cells
<1>1. AsCell(e) \in Cells
  BY CellType, Zenon
<1>2. /\ PutEntry(m, e).size = m.size + 1
      /\ PutEntry(m, e).usable = m.usable + (IF e.type = "usable" THEN e.length ELSE 0)
      /\ PutEntry(m, e).total = m.total + e.length
      /\ PutEntry(m, e).cells =
              IF m.size \in 0..MapLimit THEN [m.cells EXCEPT ![m.size] = AsCell(e)] ELSE m.cells
  <2>1. DOMAIN m.cells = 0..MapLimit
    BY Zenon
  <2>2. PutEntry(m, e).cells =
          IF m.size \in DOMAIN m.cells THEN [m.cells EXCEPT ![m.size] = AsCell(e)] ELSE m.cells
    BY Zenon DEF PutEntry, AsCell
  <2>3. PutEntry(m, e).size = m.size + 1 /\ PutEntry(m, e).total = m.total + e.length
    BY Zenon DEF PutEntry
  <2>4. PutEntry(m, e).usable = IF e.type = "usable" THEN m.usable + e.length ELSE m.usable
    BY Zenon DEF PutEntry
  <2>5. m.usable \in Nat
    BY Zenon
  <2> QED BY <2>1, <2>2, <2>3, <2>4, <2>5
<1>3. PutEntry(m, e).cells \in [0..MapLimit -> Cells]
  BY <1>1, <1>2, Zenon
<1>4. /\ PutEntry(m, e).size \in Nat /\ PutEntry(m, e).usable \in Nat /\ PutEntry(m, e).total \in Nat
  BY <1>2 DEF MapEntries
<1>5. PutEntry(m, e) = [total |-> PutEntry(m, e).total, usable |-> PutEntry(m, e).usable,
                        size |-> PutEntry(m, e).size, cells |-> PutEntry(m, e).cells]
  BY Zenon DEF PutEntry
<1> QED BY <1>2, <1>3, <1>4, <1>5, Zenon

(* An entry of the memory map is put into the next cell. *)
LEMMA EntryKeepsParse ==
  ASSUME InfoInv, ParseEntry
  PROVE  ParseInv'
<1> DEFINE map == TheTag.memmap
           n == Len(machine.tags)
<1>1. machine \in Machines /\ ParseInv
  BY Zenon DEF InfoInv
<1>2. /\ pc = "parse" /\ pc' = "parse" /\ tag' = tag /\ machine' = machine /\ idx' = idx + 1
      /\ TheTag.id = "memmap" /\ idx < Len(map) /\ mem' = PutEntry(mem, map[idx + 1])
      /\ tag \in DOMAIN machine.tags /\ tag <= n /\ tag \in Nat /\ n \in Nat
  <2>1. /\ pc = "parse" /\ pc' = "parse" /\ tag' = tag /\ machine' = machine /\ idx' = idx + 1
        /\ TheTag.id = "memmap" /\ idx < Len(map) /\ mem' = PutEntry(mem, map[idx + 1]) /\ tag <= n
    BY Zenon DEF ParseEntry
  <2>2. n \in Nat /\ DOMAIN machine.tags = 1..n
    BY <1>1, MachinesAssumption
  <2>3. tag \in 1..(n + 1)
    BY <1>1, Zenon DEF ParseInv
  <2>4. tag \in 1..n /\ tag \in Nat
    BY <2>1, <2>2, <2>3
  <2> QED BY <2>1, <2>2, <2>4, Zenon
<1>3. map \in Seq(MapEntries) /\ idx \in 0..Len(map) /\ Len(map) \in Nat
  BY <1>1, <1>2, TagType DEF ParseInv, TheTag
<1>4. map[idx + 1] \in MapEntries /\ idx + 1 \in 1..Len(map)
  BY <1>2, <1>3
<1>5. mem \in [total : Nat, usable : Nat, size : Nat, cells : [0..MapLimit -> Cells]]
  BY <1>1, Zenon DEF ParseInv
<1>6. /\ mem' \in [total : Nat, usable : Nat, size : Nat, cells : [0..MapLimit -> Cells]]
      /\ mem'.size = mem.size + 1
      /\ mem'.usable = mem.usable + Part(map, idx + 1)
      /\ mem'.cells = IF mem.size \in 0..MapLimit
                      THEN [mem.cells EXCEPT ![mem.size] = AsCell(map[idx + 1])] ELSE mem.cells
  BY <1>2, <1>4, <1>5, PutEntryIs, Zenon DEF Part
<1>7. TheTag' = TheTag /\ idx' \in 0..Len(map)
  BY <1>2, <1>4 DEF TheTag
<1>8. ASSUME NEW i \in DOMAIN machine.tags, machine.tags[i].id = "memmap",
             Len(machine.tags[i].memmap) <= MapLimit
      PROVE  MapRead(i)'
  <2>1. i = tag /\ machine.tags[i].memmap = map
    BY <1>1, <1>2, <1>8, MachinesAssumption, Zenon DEF TheTag
  <2>2. EntriesRead(i) = idx /\ EntriesRead(i)' = idx + 1
    BY <1>2, <2>1 DEF EntriesRead
  <2>3. MapRead(i)
    BY <1>1, <1>8, Zenon DEF ParseInv
  <2>4. /\ mem.size = idx /\ mem.usable = UsableSums(map)[idx]
        /\ \A k \in 1..idx : mem.cells[k - 1] = AsCell(map[k])
    BY <2>1, <2>2, <2>3, Zenon DEF MapRead
  <2>5. mem.size \in 0..MapLimit /\ mem.size # MapLimit
    BY <1>2, <1>3, <1>8, <2>1, <2>4, MachinesAssumption
  <2>6. mem'.cells = [mem.cells EXCEPT ![mem.size] = AsCell(map[idx + 1])]
    BY <1>6, <2>5, Zenon
  <2>7. mem.cells \in [0..MapLimit -> Cells]
    BY <1>5, Zenon
  <2>8. \A k \in 1..(idx + 1) : mem'.cells[k - 1] = AsCell(map[k])
    <3> TAKE k \in 1..(idx + 1)
    <3>1. CASE k = idx + 1
      <4>1. k - 1 = mem.size
        BY <1>3, <2>4, <3>1
      <4> QED BY <2>5, <2>6, <2>7, <3>1, <4>1, Zenon
    <3>2. CASE k # idx + 1
      <4>1. k \in 1..idx /\ k - 1 # mem.size /\ k - 1 \in 0..MapLimit
        BY <1>3, <2>4, <2>5, <3>2, MachinesAssumption
      <4> QED BY <2>4, <2>6, <2>7, <4>1, Zenon
    <3> QED BY <3>1, <3>2, Zenon
  <2>9. mem'.usable = UsableSums(map)[idx + 1]
    <3>1. UsableSums(map)[idx + 1] = UsableSums(map)[(idx + 1) - 1] + Part(map, idx + 1)
      BY <1>3, <1>4, SumsAre, Zenon
    <3>2. (idx + 1) - 1 = idx
      BY <1>3
    <3> QED BY <1>6, <2>4, <3>1, <3>2, Zenon
  <2>10. mem'.cells[MapLimit] = mem.cells[MapLimit]
    BY <2>5, <2>6, <2>7, MachinesAssumption
  <2>11. mem'.size = idx + 1
    BY <1>6, <2>4, Zenon
  <2>12. \A j \in DOMAIN machine.tags :
           j < tag /\ machine.tags[j].id = "framebuffer"
             => mem'.cells[MapLimit] = machine.tags[j].framebuffer
    BY <2>3, <2>10, Zenon DEF MapRead
  <2> QED BY <1>2, <2>1, <2>2, <2>8, <2>9, <2>11, <2>12 DEF MapRead
<1>9. \A i \in DOMAIN machine'.tags :
        machine'.tags[i].id = "memmap" /\ Len(machine'.tags[i].memmap) <= MapLimit => MapRead(i)'
  BY <1>2, <1>8, Zenon
<1>10. tag' \in 1..(Len(machine'.tags) + 1)
  BY <1>1, <1>2, Zenon DEF ParseInv
<1> QED BY <1>2, <1>6, <1>7, <1>9, <1>10, Zenon DEF ParseInv

(* A tag is left behind; the framebuffer is kept behind the map's cells. *)
LEMMA TagKeepsParse ==
  ASSUME InfoInv, ParseTag
  PROVE  ParseInv'
<1> DEFINE n == Len(machine.tags)
<1>1. machine \in Machines /\ ParseInv
  BY Zenon DEF InfoInv
<1>2. /\ pc = "parse" /\ pc' = "parse" /\ tag' = tag + 1 /\ machine' = machine /\ idx' = 0
      /\ TheTag.id = "memmap" => idx = Len(TheTag.memmap)
      /\ tag \in DOMAIN machine.tags /\ tag <= n /\ tag \in Nat \ {0} /\ n \in Nat
  <2>1. n \in Nat /\ DOMAIN machine.tags = 1..n
    BY <1>1, MachinesAssumption
  <2>2. tag \in 1..(n + 1) /\ tag <= n
    BY <1>1, Zenon DEF ParseTag, ParseInv
  <2>3. tag \in DOMAIN machine.tags /\ tag \in Nat \ {0}
    BY <2>1, <2>2
  <2> QED BY <2>1, <2>2, <2>3, Zenon DEF ParseTag
<1>3. mem \in [total : Nat, usable : Nat, size : Nat, cells : [0..MapLimit -> Cells]]
  BY <1>1, Zenon DEF ParseInv
<1>4. /\ mem'.size = mem.size /\ mem'.usable = mem.usable
      /\ mem'.cells = IF TheTag.id = "framebuffer"
                      THEN [mem.cells EXCEPT ![MapLimit] = TheTag.framebuffer] ELSE mem.cells
      /\ mem' \in [total : Nat, usable : Nat, size : Nat, cells : [0..MapLimit -> Cells]]
  <2>1. TheTag.framebuffer \in Cells
    BY <1>1, <1>2, TagType, Zenon DEF TheTag
  <2>2. CASE TheTag.id = "framebuffer"
    <3> DEFINE c == [mem.cells EXCEPT ![MapLimit] = TheTag.framebuffer]
    <3>1. c \in [0..MapLimit -> Cells]
      BY <1>3, <2>1, Zenon
    <3>2. mem' = [mem EXCEPT !.cells = c]
      BY <2>2, Zenon DEF ParseTag
    <3> HIDE DEF c
    <3>3. mem'.cells = c /\ mem'.size = mem.size /\ mem'.usable = mem.usable
      BY <1>3, <3>2, Zenon
    <3>4. mem' \in [total : Nat, usable : Nat, size : Nat, cells : [0..MapLimit -> Cells]]
      BY <1>3, <3>1, <3>2, Zenon
    <3> QED BY <2>2, <3>3, <3>4, Zenon DEF c
  <2>3. CASE TheTag.id # "framebuffer"
    BY <1>3, <2>3, Zenon DEF ParseTag
  <2> QED BY <2>2, <2>3, Zenon
<1>5. ASSUME NEW i \in DOMAIN machine.tags, machine.tags[i].id = "memmap",
             Len(machine.tags[i].memmap) <= MapLimit
      PROVE  MapRead(i)'
  <2> DEFINE map == machine.tags[i].memmap
  <2>1. MapRead(i)
    BY <1>1, <1>5, Zenon DEF ParseInv
  <2>2. i \in 1..n /\ map \in Seq(MapEntries)
    BY <1>1, TagType, Zenon
  <2>3. EntriesRead(i)' = EntriesRead(i)
    <3>1. CASE i = tag
      BY <1>2, <1>5, <2>2, <3>1 DEF EntriesRead, TheTag
    <3>2. CASE i < tag
      BY <1>2, <2>2, <3>2 DEF EntriesRead
    <3>3. CASE i > tag
      BY <1>2, <2>2, <3>3 DEF EntriesRead
    <3> QED BY <1>2, <2>2, <3>1, <3>2, <3>3
  <2>4. EntriesRead(i) \in 0..Len(map)
    <3>1. i = tag => idx \in 0..Len(map)
      BY <1>1, <1>2, <1>5, Zenon DEF ParseInv, TheTag
    <3> QED BY <2>2, <3>1 DEF EntriesRead
  <2>5. ASSUME NEW k \in 1..EntriesRead(i) PROVE mem'.cells[k - 1] = AsCell(map[k])
    <3>1. k - 1 \in 0..MapLimit /\ k - 1 # MapLimit
      BY <1>5, <2>2, <2>4, MachinesAssumption
    <3>2. mem'.cells[k - 1] = mem.cells[k - 1]
      BY <1>3, <1>4, <3>1, Zenon
    <3> QED BY <2>1, <3>2, Zenon DEF MapRead
  <2>6. ASSUME NEW j \in DOMAIN machine.tags, j < tag', machine.tags[j].id = "framebuffer"
        PROVE  mem'.cells[MapLimit] = machine.tags[j].framebuffer
    <3>0. j \in 1..n /\ mem.cells \in [0..MapLimit -> Cells] /\ MapLimit \in 0..MapLimit
      BY <1>1, <1>3, TagType, MachinesAssumption
    <3>1. CASE j = tag
      BY <1>4, <2>6, <3>0, <3>1, Zenon DEF TheTag
    <3>2. CASE j # tag
      <4>1. j < tag
        BY <1>2, <2>6, <3>0, <3>2
      <4>2. TheTag.id # "framebuffer"
        BY <1>1, <1>2, <2>6, <3>2, MachinesAssumption, Zenon DEF TheTag
      <4> QED BY <1>4, <2>1, <2>6, <4>1, <4>2, Zenon DEF MapRead
    <3> QED BY <3>1, <3>2, Zenon
  <2> QED BY <1>2, <1>4, <2>1, <2>3, <2>5, <2>6, Zenon DEF MapRead
<1>6. \A i \in DOMAIN machine'.tags :
        machine'.tags[i].id = "memmap" /\ Len(machine'.tags[i].memmap) <= MapLimit => MapRead(i)'
  BY <1>2, <1>5, Zenon
<1>7. tag' \in 1..(Len(machine'.tags) + 1)
  BY <1>2
<1>8. IF tag' <= Len(machine'.tags) /\ TheTag'.id = "memmap"
      THEN idx' \in 0..Len(TheTag'.memmap) ELSE idx' = 0
  <2>1. ASSUME tag' <= n PROVE Len(TheTag'.memmap) \in Nat
    <3>1. tag' \in DOMAIN machine.tags
      BY <1>1, <1>2, <2>1, MachinesAssumption
    <3> QED BY <1>1, <1>2, <3>1, TagType DEF TheTag
  <2> QED BY <1>2, <2>1
<1> QED BY <1>2, <1>4, <1>6, <1>7, <1>8, Zenon DEF ParseInv

LEMMA QuietKeepsParse ==
  ASSUME InfoInv, UNCHANGED <<machine, tag, idx, mem>>,
         pc # "parse" \/ pc' = "parse" \/ tag > Len(machine.tags)
  PROVE  ParseInv'
<1>1. ParseInv /\ machine \in Machines
  BY Zenon DEF InfoInv
<1>2. ASSUME NEW i \in DOMAIN machine.tags PROVE MapRead(i)' = MapRead(i)
  BY Zenon DEF MapRead, EntriesRead
<1>3. TheTag' = TheTag
  BY Zenon DEF TheTag
<1>4. pc' # "parse" => tag' = Len(machine'.tags) + 1
  <2>1. Len(machine.tags) \in Nat
    BY <1>1, MachinesAssumption
  <2> QED BY <1>1, <2>1 DEF ParseInv
<1> QED BY <1>1, <1>2, <1>3, <1>4, Zenon DEF ParseInv

-----------------------------------------------------------------------------
(* The invariant, and what follows from it. *)

LEMMA InitInfo ==
  ASSUME Init
  PROVE  InfoInv
<1>1. machine \in Machines /\ pc = "parse" /\ tag = 1 /\ idx = 0
  BY Zenon DEF Init
<1>2. Len(machine.tags) \in Nat
  BY <1>1, MachinesAssumption
<1>3. mem \in [total : Nat, usable : Nat, size : Nat, cells : [0..MapLimit -> Cells]]
  BY Zenon DEF Init, NoCell, Cells
<1>4. ASSUME NEW i \in DOMAIN machine.tags PROVE MapRead(i)
  <2>1. i \in 1..Len(machine.tags) /\ machine.tags[i].memmap \in Seq(MapEntries)
    BY <1>1, TagType, Zenon
  <2>2. EntriesRead(i) = 0
    BY <1>1, <2>1 DEF EntriesRead
  <2>3. UsableSums(machine.tags[i].memmap)[0] = 0
    BY <2>1, SumsAre, Zenon
  <2>4. \A j \in DOMAIN machine.tags : ~(j < tag)
    BY <1>1, TagType
  <2> QED BY <2>2, <2>3, <2>4 DEF Init, MapRead
<1>5. IF tag <= Len(machine.tags) /\ TheTag.id = "memmap"
      THEN idx \in 0..Len(TheTag.memmap) ELSE idx = 0
  <2>1. ASSUME tag <= Len(machine.tags) PROVE Len(TheTag.memmap) \in Nat
    <3>1. tag \in DOMAIN machine.tags
      BY <1>1, <1>2, <2>1, MachinesAssumption
    <3> QED BY <1>1, <3>1, TagType DEF TheTag
  <2> QED BY <1>1, <2>1
<1>6. ParseInv
  BY <1>1, <1>2, <1>3, <1>4, <1>5 DEF ParseInv
<1> QED BY <1>1, <1>6, Zenon DEF InfoInv

LEMMA NextInfo ==
  ASSUME InfoInv, [Next]_vars
  PROVE  InfoInv'
<1>1. CASE BootStep
  <2>1. machine' = machine
    BY <1>1, Zenon
    DEF BootStep, ParseEntry, ParseTag, ParseStivale2Info, DisableFirst, LoadIdt, MemoryInitialize,
        RemapPic, PIT_Initialize, EnableFirst, FindRsdp, FindMadt, WalkMadt, AcpiReady, DisablePic,
        LAPIC_Initialize, IOAPIC_Initialize, Redirect, FindSmbios, KernelInitialize, Nothing
  <2>2. ParseInv'
    <3>1. CASE ParseEntry
      BY <3>1, EntryKeepsParse, Zenon
    <3>2. CASE ParseTag
      BY <3>2, TagKeepsParse, Zenon
    <3>3. CASE ParseStivale2Info
      BY <3>3, QuietKeepsParse, Zenon DEF ParseStivale2Info
    <3>4. CASE ~(ParseEntry \/ ParseTag \/ ParseStivale2Info)
      <4>1. UNCHANGED <<machine, tag, idx, mem>> /\ pc # "parse"
        BY <1>1, <3>4, Zenon
        DEF BootStep, DisableFirst, LoadIdt, MemoryInitialize,
            RemapPic, PIT_Initialize, EnableFirst, FindRsdp, FindMadt, WalkMadt, AcpiReady, DisablePic,
            LAPIC_Initialize, IOAPIC_Initialize, Redirect, FindSmbios, KernelInitialize, Nothing, At
      <4> QED BY <4>1, QuietKeepsParse, Zenon
    <3> QED BY <3>1, <3>2, <3>3, <3>4, Zenon
  <2> QED BY <2>1, <2>2, Zenon DEF InfoInv
<1>2. CASE Interrupt \/ Device \/ UNCHANGED vars
  <2>1. UNCHANGED <<machine, tag, idx, mem, pc>>
    BY <1>2, Zenon DEF Interrupt, Device, vars, bootVars
  <2> QED BY <2>1, QuietKeepsParse, Zenon DEF InfoInv
<1> QED BY <1>1, <1>2, Zenon DEF Next

LEMMA InfoAlways == Spec => []InfoInv
<1>1. Init => InfoInv
  BY InitInfo, Zenon
<1>2. InfoInv /\ [Next]_vars => InfoInv'
  BY NextInfo, Zenon
<1> QED BY <1>1, <1>2, PTL DEF Spec

(* When ParseStivale2Info is through, bootInfo says of memory and screen   *)
(* what the boot loader said, for every map that fits and in any order of  *)
(* the tags.                                                               *)
THEOREM BootInfoIsKept == Spec => []BootInfoKept
<1>1. InfoInv => BootInfoKept
  <2> SUFFICES ASSUME InfoInv, NEW i \in DOMAIN machine.tags, pc # "parse",
                      machine.tags[i].id = "memmap", Len(machine.tags[i].memmap) <= MapLimit
               PROVE  LET map == machine.tags[i].memmap IN
                      /\ mem.size = Len(map)
                      /\ \A k \in 1..Len(map) :
                           /\ mem.cells[k - 1].start = map[k].base
                           /\ mem.cells[k - 1].end = map[k].base + map[k].length
                           /\ mem.cells[k - 1].type = 0 <=> map[k].type = "usable"
                      /\ mem.usable = UsableSums(map)[Len(map)]
                      /\ \A j \in DOMAIN machine.tags :
                           machine.tags[j].id = "framebuffer" =>
                             mem.cells[MapLimit] = machine.tags[j].framebuffer
    BY Zenon DEF BootInfoKept
  <2> DEFINE map == machine.tags[i].memmap
  <2>1. machine \in Machines /\ MapRead(i) /\ tag = Len(machine.tags) + 1
    BY Zenon DEF InfoInv, ParseInv
  <2>2. ASSUME NEW j \in DOMAIN machine.tags PROVE j \in Nat /\ j < tag /\ tag \in Nat
    <3>1. j \in 1..Len(machine.tags) /\ Len(machine.tags) \in Nat
      BY <2>1, TagType, Zenon
    <3> QED BY <2>1, <3>1
  <2>3. EntriesRead(i) = Len(map)
    BY <2>1, <2>2 DEF EntriesRead
  <2>4. ASSUME NEW k \in 1..Len(map)
        PROVE  /\ mem.cells[k - 1].start = map[k].base
               /\ mem.cells[k - 1].end = map[k].base + map[k].length
               /\ mem.cells[k - 1].type = 0 <=> map[k].type = "usable"
    <3>1. mem.cells[k - 1] = AsCell(map[k])
      BY <2>1, <2>3, Zenon DEF MapRead
    <3> QED BY <3>1, MapTypeIs DEF AsCell
  <2> QED BY <2>1, <2>2, <2>3, <2>4, Zenon DEF MapRead
<1> QED BY <1>1, InfoAlways, PTL
=============================================================================
