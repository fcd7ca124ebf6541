-------------------------------- MODULE Boot --------------------------------
(***************************************************************************)
(* The boot processor's way through Kernel/arch/x86_64/bootx64.c: the boot *)
(* loader's tags, ArchitectureInitialize step by step, with interrupts     *)
(* arriving between any two steps once they are enabled, and what the      *)
(* firmware's tables make the kernel do.                                   *)
(*                                                                         *)
(* MemoryInitialize, SMP_Initialize and KernelInitialize are steps without *)
(* effect here: PageFrames, KernelMap and KernelObjects model them.        *)
(***************************************************************************)
EXTENDS Interrupts, Acpi

CONSTANTS
  Machines,   \* what the kernel may be started on, see MCBoot
  MapLimit    \* MEMORY_MAP_LIMIT

VARIABLES
  pc,         \* the next step of the boot processor
  machine,
  tag, idx,   \* the boot loader's tag and the entry of its memory map that are next
  iso,        \* i in IOAPIC_Initialize
  mem,        \* bootInfo.mem: sums, map_size and entries, with graphic behind them
  smbios      \* g_SmbiosVersion

bootVars == <<pc, machine, tag, idx, iso, mem, smbios>>
vars == <<intrVars, acpiVars, bootVars>>

(* A stivale2_mmap_entry; a memory_map_entry, and boot_info.graphic read as *)
(* one.                                                                    *)
MapEntries == [base : Nat, length : Nat, type : STRING]
Cells  == [start : Nat, end : Nat, type : Nat]
NoCell == [start |-> 0, end |-> 0, type |-> 0]

(* The MADT, or what ACPI_FindTable returns when there is none. *)
MadtBody == ACPI_FindTable(machine.tables, "APIC").body
HasMadt  == \E i \in DOMAIN machine.tables : machine.tables[i].signature = "APIC"

(* What firmware that follows the ACPI specification writes into a MADT:   *)
(* entries with a length, one for each processor, and interrupts of the    *)
(* ISA bus as what an override replaces.                                   *)
ProperMadt(body) ==
  /\ \A i \in DOMAIN body : body[i].length > 0
  /\ \A i \in DOMAIN body : body[i].type = 2 => body[i].irqSource \in AllLines
  /\ \A i, j \in DOMAIN body :
       Usable(body[i]) /\ Usable(body[j]) /\ body[i].apicId = body[j].apicId => i = j

(* A machine with an APIC has a MADT; a boot loader gives one memory map   *)
(* and one framebuffer at most.  A table that is no MADT holds anything.   *)
ASSUME MachinesAssumption ==
  /\ MapLimit \in Nat
  /\ \A m \in Machines :
       /\ m.rsdp \in BOOLEAN /\ m.hasApic \in BOOLEAN /\ m.lapicOn \in BOOLEAN
       /\ m.tables \in Seq([signature : STRING, body : Seq(MadtEntries)]) /\ m.tables # <<>>
       /\ \A i \in DOMAIN m.tables :
            m.tables[i].signature = "APIC" => ProperMadt(m.tables[i].body)
       /\ m.hasApic => \E i \in DOMAIN m.tables : m.tables[i].signature = "APIC"
       /\ m.tags \in Seq([id : STRING, framebuffer : Cells, memmap : Seq(MapEntries)])
       /\ \A i, j \in DOMAIN m.tags :
            m.tags[i].id = m.tags[j].id /\ m.tags[i].id \in {"memmap", "framebuffer"} => i = j

Init ==
  /\ pc = "parse"
  /\ machine \in Machines
  /\ lapicOn = machine.lapicOn
  /\ InterruptsInit
  /\ madt = <<>> /\ AcpiInit
  /\ tag = 1 /\ idx = 0 /\ iso = 0 /\ smbios = -1
  /\ mem = [total |-> 0, usable |-> 0, size |-> 0, cells |-> [i \in 0..MapLimit |-> NoCell]]

-----------------------------------------------------------------------------
(* ParseStivale2Info.  entries[MapLimit] is where boot_info.graphic lies:  *)
(* both have 24 bytes.  The test against UINTPTR_MAX is never true.        *)

MapType(type) ==
  CASE type = "usable"      -> 0
    [] type = "kernel"      -> 5
    [] type = "reclaimable" -> 2
    [] type = "nvs"         -> 3
    [] type = "bad"         -> 4
    [] OTHER                -> 1

(* Faulty variant: only usable memory is kept in the map. *)
BadPutEntry(m, e) ==
  IF e.type # "usable" THEN m ELSE
  [total  |-> m.total + e.length,
   usable |-> m.usable + e.length,
   size   |-> m.size + 1,
   cells  |-> [m.cells EXCEPT ![m.size] = [start |-> e.base, end |-> e.base + e.length, type |-> 0]]]

(* A write to a cell behind graphic leaves bootInfo. *)
PutEntry(m, e) ==
  LET new == [start |-> e.base, end |-> e.base + e.length, type |-> MapType(e.type)] IN
  [total  |-> m.total + e.length,
   usable |-> IF e.type = "usable" THEN m.usable + e.length ELSE m.usable,
   size   |-> m.size + 1,
   cells  |-> IF m.size \in DOMAIN m.cells THEN [m.cells EXCEPT ![m.size] = new] ELSE m.cells]

TheTag == machine.tags[tag]

(* One turn of the loop over the entries of a memory map. *)
ParseEntry ==
  /\ pc = "parse"
  /\ tag <= Len(machine.tags)
  /\ TheTag.id = "memmap" /\ idx < Len(TheTag.memmap)
  /\ mem' = PutEntry(mem, TheTag.memmap[idx + 1])
  /\ idx' = idx + 1
  /\ UNCHANGED <<intrVars, acpiVars, pc, machine, tag, iso, smbios>>

(* The end of that loop, or a tag of another kind; then the next tag. *)
ParseTag ==
  /\ pc = "parse"
  /\ tag <= Len(machine.tags)
  /\ TheTag.id = "memmap" => idx = Len(TheTag.memmap)
  /\ mem' = IF TheTag.id = "framebuffer"
            THEN [mem EXCEPT !.cells = [@ EXCEPT ![MapLimit] = TheTag.framebuffer]]
            ELSE mem
  /\ tag' = tag + 1
  /\ idx' = 0
  /\ UNCHANGED <<intrVars, acpiVars, pc, machine, iso, smbios>>

ParseStivale2Info ==
  /\ pc = "parse"
  /\ tag > Len(machine.tags)
  /\ pc' = "cli"
  /\ UNCHANGED <<intrVars, acpiVars, machine, tag, idx, iso, mem, smbios>>

-----------------------------------------------------------------------------
(* ArchitectureInitialize.  A step runs while no interrupt is handled.     *)

At(here, next) == /\ pc = here /\ handler = NONE /\ pc' = next
Nothing == UNCHANGED <<intrVars, acpiVars, machine, tag, idx, iso, mem, smbios>>

DisableFirst ==
  /\ At("cli", "idt")
  /\ DisableInterrupts
  /\ UNCHANGED <<handler, gates, picVars, apicVars, raised, acpiVars, machine, tag, idx, iso, mem, smbios>>

LoadIdt ==
  /\ At("idt", "memory")
  /\ LoadInterruptDescTable
  /\ UNCHANGED <<intsOn, handler, picVars, apicVars, raised, acpiVars, machine, tag, idx, iso, mem, smbios>>

MemoryInitialize == At("memory", "pic") /\ Nothing

(* Faulty variant: interrupts are enabled without PIC_Initialize. *)
BadRemapPic == At("pic", "pit") /\ Nothing

RemapPic ==
  /\ At("pic", "pit")
  /\ PIC_Initialize
  /\ UNCHANGED <<cpuVars, apicVars, raised, acpiVars, machine, tag, idx, iso, mem, smbios>>

(* The timer raises line 0 from here on, which Raise(0) does at any time. *)
PIT_Initialize == At("pit", "sti") /\ Nothing

EnableFirst ==
  /\ At("sti", "rsdp")
  /\ EnableInterrupts
  /\ UNCHANGED <<handler, gates, picVars, apicVars, raised, acpiVars, machine, tag, idx, iso, mem, smbios>>

(* ACPI_Initialize up to line 103: without the signature in the three      *)
(* areas it panics.                                                        *)
FindRsdp ==
  /\ At("rsdp", IF machine.rsdp THEN "tables" ELSE "panic")
  /\ Nothing

FindMadt ==
  /\ At("tables", "madt")
  /\ DisableInterrupts
  /\ madt' = MadtBody
  /\ UNCHANGED <<handler, gates, picVars, apicVars, raised>>
  /\ UNCHANGED <<g_Processors, g_ProcessorCount, g_Isos, g_IsoAmount, ioApicBase, spilled>>
  /\ UNCHANGED <<machine, tag, idx, iso, mem, smbios>>

WalkMadt ==
  /\ At("madt", "madt")
  /\ MadtEntry
  /\ UNCHANGED <<intrVars, machine, tag, idx, iso, mem, smbios>>

AcpiReady ==
  /\ At("madt", IF machine.hasApic THEN "disable" ELSE "smbios")
  /\ madt = <<>>
  /\ EnableInterrupts
  /\ UNCHANGED <<handler, gates, picVars, apicVars, raised, acpiVars, machine, tag, idx, iso, mem, smbios>>

DisablePic ==
  /\ At("disable", "lapic")
  /\ PIC_Disable
  /\ UNCHANGED <<cpuVars, apicVars, raised, acpiVars, machine, tag, idx, iso, mem, smbios>>

(* The base register keeps its flags as part of the address, and registers *)
(* are indexed in words: what is read and written is a reserved register.  *)
(* Whether the local APIC accepts interrupts stays what firmware decided.  *)
LAPIC_Initialize == At("lapic", "ioapic") /\ Nothing

IOAPIC_Initialize ==
  /\ At("ioapic", IF ioApicBase = 0 THEN "panic" ELSE "redirect")
  /\ Nothing

(* Faulty variant: the loop stops one short. *)
BadRedirect ==
  /\ At("redirect", IF iso + 1 >= g_IsoAmount THEN "smbios" ELSE "redirect")
  /\ iso' = iso + 1
  /\ redirect' = IF iso + 1 < g_IsoAmount
                 THEN [redirect EXCEPT ![g_Isos[iso].gSi % 256] = g_Isos[iso].irqSource + 32]
                 ELSE redirect
  /\ UNCHANGED <<cpuVars, picVars, lapicOn, lapicIrr, lapicIsr, raised, acpiVars, machine, tag, idx, mem, smbios>>

(* One turn of the loop over g_Isos, or its end.  __apic_Redirect takes the *)
(* input as a uint8_t.                                                      *)
Redirect ==
  /\ At("redirect", IF iso = g_IsoAmount THEN "smbios" ELSE "redirect")
  /\ IF iso < g_IsoAmount
     THEN /\ redirect' = [redirect EXCEPT ![g_Isos[iso].gSi % 256] = g_Isos[iso].irqSource + 32]
          /\ iso' = iso + 1
     ELSE UNCHANGED <<redirect, iso>>
  /\ UNCHANGED <<cpuVars, picVars, lapicOn, lapicIrr, lapicIsr, raised, acpiVars, machine, tag, idx, mem, smbios>>

FindSmbios ==
  /\ At("smbios", IF SMBIOS_Initialize(machine.image) = -1 THEN "panic" ELSE "kernel")
  /\ smbios' = SMBIOS_Initialize(machine.image)
  /\ UNCHANGED <<intrVars, acpiVars, machine, tag, idx, iso, mem>>

(* SMP_Initialize, KernelInitialize and the hlt. *)
KernelInitialize == At("kernel", "halt") /\ Nothing

-----------------------------------------------------------------------------
BootStep ==
  \/ ParseEntry \/ ParseTag \/ ParseStivale2Info \/ DisableFirst \/ LoadIdt \/ MemoryInitialize
  \/ RemapPic \/ PIT_Initialize \/ EnableFirst
  \/ FindRsdp \/ FindMadt \/ WalkMadt \/ AcpiReady
  \/ DisablePic \/ LAPIC_Initialize \/ IOAPIC_Initialize \/ Redirect
  \/ FindSmbios \/ KernelInitialize

(* Also after CallPanic, which waits with hlt, interrupts as they are. *)
Interrupt == (DispatchInterrupts \/ Deliver) /\ UNCHANGED <<acpiVars, bootVars>>
Device    == (\E l \in Lines : Raise(l)) /\ UNCHANGED <<acpiVars, bootVars>>

Next == BootStep \/ Interrupt \/ Device

(* The processor executes: its own steps and its handlers go on.  A device *)
(* need not raise anything.                                                *)
Spec == Init /\ [][Next]_vars /\ WF_vars(BootStep) /\ WF_vars(Interrupt)
-----------------------------------------------------------------------------
(* Every variable has its type, and nothing is written behind g_Processors. *)
TypeOK ==
  /\ InterruptsTypeOK
  /\ AcpiTypeOK
  /\ machine \in Machines
  /\ iso \in 0..IsoLimit
  /\ smbios \in {-1, 2, 3}

(* What the processor enters for a device is a handler of the IDT and no   *)
(* exception: the PIC is remapped and the IDT loaded before every sti that *)
(* a device could use.  bootx64.c:40-46 explains the order.                *)
IrqIsNoException == handler # NONE => handler \in gates /\ handler >= 32

(* RestoreInterrupts ends exactly what the PICs have in service: no bit of *)
(* either is left when a handler returns, for the slave's lines, for the   *)
(* spurious interrupts PIC_Disable may cause, and for vectors of the APIC. *)
ServiceEnds == handler = NONE => isr = {}

Walked == pc \in {"disable", "lapic", "ioapic", "redirect", "smbios", "kernel", "halt"}

(* After ACPI_Initialize g_Processors holds every processor that firmware  *)
(* lists as usable, besides the boot processor, once, and no other; the    *)
(* count says how many there are, also when every APIC id is in use.       *)
ProcessorsListed ==
  Walked /\ HasMadt =>
    LET usable == {MadtBody[i].apicId : i \in {k \in DOMAIN MadtBody : Usable(MadtBody[k])}} IN
    /\ ~spilled
    /\ g_ProcessorCount = Cardinality(usable) + 1
    /\ {g_Processors[i] : i \in 1..(g_ProcessorCount - 1)} = usable

(* After IOAPIC_Initialize every override the firmware lists is in force,  *)
(* unless a later entry, of an I/O APIC included, names the same input, or *)
(* there are as many as the uint8_t counter has values.                    *)
OverridesInForce ==
  LET recorded == {i \in DOMAIN MadtBody : MadtBody[i].type \in {1, 2}}
      input(i) == AsIso(MadtBody[i]).gSi % 256
  IN  pc \in {"smbios", "kernel", "halt"} /\ machine.hasApic /\ Cardinality(recorded) < IsoLimit =>
        \A i \in recorded :
          /\ MadtBody[i].type = 2 /\ input(i) \in Inputs
          /\ \A j \in recorded : j > i => input(j) # input(i)
          => redirect[input(i)] = MadtBody[i].irqSource + 32

(* n -> the usable memory in the first n entries of a memory map. *)
UsableSums(map) ==
  LET sum[n \in 0..Len(map)] ==
        IF n = 0 THEN 0
        ELSE sum[n - 1] + (IF map[n].type = "usable" THEN map[n].length ELSE 0)
  IN  sum

(* The kernel sees the memory map and the framebuffer as the boot loader   *)
(* described them, in whatever order the tags come, as long as the map has *)
(* no more entries than fit.                                               *)
BootInfoKept ==
  \A i \in DOMAIN machine.tags :
    LET map == machine.tags[i].memmap IN
    pc # "parse" /\ machine.tags[i].id = "memmap" /\ Len(map) <= MapLimit =>
      /\ mem.size = Len(map)
      /\ \A k \in 1..Len(map) :
           /\ mem.cells[k - 1].start = map[k].base
           /\ mem.cells[k - 1].end = map[k].base + map[k].length
           /\ mem.cells[k - 1].type = 0 <=> map[k].type = "usable"
      /\ mem.usable = UsableSums(map)[Len(map)]
      /\ \A j \in DOMAIN machine.tags :
           machine.tags[j].id = "framebuffer" => mem.cells[MapLimit] = machine.tags[j].framebuffer

(* A machine that has a MADT, or whose last table is too short to be read  *)
(* as one, gets to the end of boot or to a panic, whenever interrupts come.*)
BootEnds ==
  (pc = "parse" /\ (HasMadt \/ machine.tables[Len(machine.tables)].body = <<>>)) ~> (pc \in {"halt", "panic"})

(* While the PICs are in use a device that raises its line is served, after *)
(* whatever else was served before: no acknowledgement is missing.          *)
PicServes ==
  \A l \in Lines : (l \in irr /\ pc = "halt" /\ ~machine.hasApic) ~> (l \notin irr)
=============================================================================
