-------------------------------- MODULE Acpi --------------------------------
(***************************************************************************)
(* What the kernel reads from the firmware: the tables that                *)
(* Kernel/arch/x86_64/impl-acpi.c searches and walks, and the SMBIOS       *)
(* search of smbios.c.                                                     *)
(*                                                                         *)
(* A table is its signature and its body, read as MADT entries.            *)
(* g_Processors has one cell for every APIC id, as in the code (256 bytes  *)
(* for 8-bit ids).                                                         *)
(***************************************************************************)
EXTENDS Integers, Sequences, FiniteSets, FiniteSetsExt

CONSTANTS
  ApicIds,      \* 0..255
  IsoLimit      \* 256: entries of g_Isos, and where the uint8_t g_IsoAmount wraps

ASSUME AcpiAssumption ==
  /\ IsFiniteSet(ApicIds) /\ ApicIds \subseteq Nat /\ 0 \in ApicIds
  /\ IsoLimit \in Nat \ {0}

VARIABLES
  madt,              \* what madtEntry has not passed yet, as entries
  g_Processors,      \* index -> APIC id, 0 where nothing was recorded
  g_ProcessorCount,
  g_Isos,            \* index -> the recorded entry read as an override
  g_IsoAmount,
  ioApicBase,
  spilled            \* was something written behind g_Processors?

acpiVars == <<madt, g_Processors, g_ProcessorCount, g_Isos, g_IsoAmount, ioApicBase, spilled>>

ProcessorLimit == Cardinality(ApicIds)
NoIso == [irqSource |-> 0, gSi |-> 0]

(* madt_local_t, madt_io_t, madt_iso_t, and entries nothing is read from.  *)
MadtEntries ==
  [type : {0}, length : Nat, apicId : ApicIds, flags : Nat]
    \cup [type : {1}, length : Nat, address : Nat, gSib : Nat]
    \cup [type : {2}, length : Nat, irqSource : 0..255, gSi : Nat]
    \cup [type : 3..255, length : Nat]

AcpiInit ==
  /\ g_Processors = [i \in 0..(ProcessorLimit - 1) |-> 0]
  /\ g_ProcessorCount = 1
  /\ g_Isos = [i \in 0..(IsoLimit - 1) |-> NoIso]
  /\ g_IsoAmount = 0
  /\ ioApicBase = 0
  /\ spilled = FALSE

(* The first table with the signature.  The function has no return behind  *)
(* its loop; in this build it then returns the last table it looked at.    *)
ACPI_FindTable(tables, signature) ==
  LET found == {i \in DOMAIN tables : tables[i].signature = signature} IN
  IF found = {} THEN tables[Len(tables)] ELSE tables[Min(found)]

(* A processor the kernel may start: enabled or to be enabled, and not the *)
(* one it runs on.                                                         *)
Usable(e) == e.type = 0 /\ e.flags % 4 # 0 /\ e.apicId # 0

(* What an entry of type 1 or 2 is when it is read as a madt_iso_t: of an  *)
(* I/O APIC the source is the reserved byte and the input the address.     *)
AsIso(e) ==
  IF e.type = 1 THEN [irqSource |-> 0, gSi |-> e.address]
                ELSE [irqSource |-> e.irqSource, gSi |-> e.gSi]

Record(iso) ==
  /\ g_Isos' = [g_Isos EXCEPT ![g_IsoAmount] = iso]
  /\ g_IsoAmount' = (g_IsoAmount + 1) % IsoLimit

(* Faulty variant: the boot processor is recorded, too. *)
BadMadtLocal(e) ==
  /\ e.type = 0
  /\ IF e.flags % 4 # 0
     THEN /\ g_ProcessorCount' = g_ProcessorCount + 1
          /\ IF g_ProcessorCount < ProcessorLimit
             THEN /\ g_Processors' = [g_Processors EXCEPT ![g_ProcessorCount] = e.apicId]
                  /\ UNCHANGED spilled
             ELSE spilled' = TRUE /\ UNCHANGED g_Processors
     ELSE UNCHANGED <<g_Processors, g_ProcessorCount, spilled>>
  /\ UNCHANGED <<g_Isos, g_IsoAmount, ioApicBase>>

(* Case 0: a local APIC that is enabled or can be, and is not number 0. *)
MadtLocal(e) ==
  /\ e.type = 0
  /\ IF Usable(e)
     THEN /\ g_ProcessorCount' = g_ProcessorCount + 1
          /\ IF g_ProcessorCount < ProcessorLimit
             THEN /\ g_Processors' = [g_Processors EXCEPT ![g_ProcessorCount] = e.apicId]
                  /\ UNCHANGED spilled
             ELSE spilled' = TRUE /\ UNCHANGED g_Processors
     ELSE UNCHANGED <<g_Processors, g_ProcessorCount, spilled>>
  /\ UNCHANGED <<g_Isos, g_IsoAmount, ioApicBase>>

(* Case 1: an I/O APIC.  There is no break: it is recorded as an override. *)
MadtIo(e) ==
  /\ e.type = 1
  /\ ioApicBase' = IF e.gSib = 0 THEN e.address ELSE ioApicBase
  /\ Record(AsIso(e))
  /\ UNCHANGED <<g_Processors, g_ProcessorCount, spilled>>

(* Case 2: an interrupt source override. *)
MadtIso(e) ==
  /\ e.type = 2
  /\ Record(AsIso(e))
  /\ UNCHANGED <<g_Processors, g_ProcessorCount, ioApicBase, spilled>>

(* Cases 3 to 5 and the rest. *)
MadtOther(e) ==
  /\ e.type > 2
  /\ UNCHANGED <<g_Processors, g_ProcessorCount, g_Isos, g_IsoAmount, ioApicBase, spilled>>

(* Faulty variant: entries of other types are not passed. *)
BadMadtEntry ==
  /\ madt # <<>>
  /\ madt' = IF Head(madt).type > 2 THEN madt ELSE Tail(madt)
  /\ MadtLocal(Head(madt)) \/ MadtIo(Head(madt)) \/ MadtIso(Head(madt)) \/ MadtOther(Head(madt))

(* One turn of the walk in ACPI_Initialize.  An entry of length 0, as may  *)
(* be read from a table that is no MADT, is walked for ever.               *)
MadtEntry ==
  /\ madt # <<>>
  /\ madt' = IF Head(madt).length = 0 THEN madt ELSE Tail(madt)
  /\ MadtLocal(Head(madt)) \/ MadtIo(Head(madt)) \/ MadtIso(Head(madt)) \/ MadtOther(Head(madt))

(* SMBIOS_Initialize: the first slot with a zero checksum is taken, as     *)
(* every slot differs from at least one signature.  memcmp is nonzero when *)
(* the strings differ, so a slot with the old signature counts as version  *)
(* 3 and any other as 2.  -1 is the panic.                                 *)
SMBIOS_Initialize(image) ==
  LET good == {i \in DOMAIN image : image[i].sum = 0} IN
  IF good = {} THEN -1 ELSE IF image[Min(good)].anchor = "_SM_" THEN 3 ELSE 2

AcpiTypeOK ==
  /\ g_Processors \in [0..(ProcessorLimit - 1) -> ApicIds]
  /\ madt \in Seq(MadtEntries)
  /\ g_ProcessorCount \in Nat \ {0}
  /\ g_Isos \in [0..(IsoLimit - 1) -> [irqSource : 0..255, gSi : Nat]]
  /\ g_IsoAmount \in 0..(IsoLimit - 1)
  /\ ioApicBase \in Nat
  /\ spilled \in BOOLEAN
=============================================================================
