------------------------------- MODULE MCBoot -------------------------------
(* Boot on nine machines; four APIC ids for 256, four overrides for 256,  *)
(* two map entries for 64.                                                 *)
EXTENDS Boot, TLC

NoMap == <<>>
MemMap(es) == [id |-> "memmap", memmap |-> es, framebuffer |-> NoCell]
Frame      == [id |-> "framebuffer", memmap |-> NoMap, framebuffer |-> [start |-> 640, end |-> 480, type |-> 32]]
Rsdp       == [id |-> "rsdp", memmap |-> NoMap, framebuffer |-> NoCell]
Range1 == [base |-> 0, length |-> 4, type |-> "usable"]
Range2 == [base |-> 4, length |-> 3, type |-> "kernel"]
Range3 == [base |-> 9, length |-> 2, type |-> "nvs"]
Range4 == [base |-> 11, length |-> 5, type |-> "framebuffer"]
Range5 == [base |-> 4, length |-> 1, type |-> "bad"]
Range6 == [base |-> 5, length |-> 1, type |-> "reclaimable"]

Local(id, fl)   == [type |-> 0, length |-> 8, apicId |-> id, flags |-> fl]
IoApic(a, g)    == [type |-> 1, length |-> 12, address |-> a, gSib |-> g]
Override(s, g)  == [type |-> 2, length |-> 10, irqSource |-> s, gSi |-> g]
Nmi             == [type |-> 4, length |-> 6]
Zeros           == [type |-> 0, length |-> 0, apicId |-> 0, flags |-> 0]

Fadt     == [signature |-> "FACP", body |-> <<>>]
Madt(es) == [signature |-> "APIC", body |-> es]
Waet     == [signature |-> "WAET", body |-> <<>>]
Hpet     == [signature |-> "HPET", body |-> <<Zeros>>]

Anchor(v) == [sum |-> 0, anchor |-> v]
Filler    == [sum |-> 7, anchor |-> ""]

Emulator ==
  [tags |-> <<MemMap(<<Range1, Range2>>), Frame>>, rsdp |-> TRUE, hasApic |-> TRUE, lapicOn |-> TRUE,
   tables |-> <<Fadt, Madt(<<Local(0, 1), Local(1, 1), IoApic(4096, 0), Override(0, 2), Nmi>>), Waet>>,
   image |-> <<Filler, Anchor("_SM_")>>]

MCMachines == {
  Emulator,
  \* every APIC id, a disabled processor, a second I/O APIC, the LAPIC off
  [Emulator EXCEPT !.tags = <<Frame, Rsdp, MemMap(<<Range1, Range5>>)>>, !.lapicOn = FALSE,
     !.image = <<Anchor("")>>,
     !.tables = <<Madt(<<Local(3, 1), Local(0, 1), Local(1, 2), Local(2, 3),
                         IoApic(4096, 0), IoApic(8192, 24)>>), Fadt>>],
  \* as many overrides as the counter has values; too large a map
  [Emulator EXCEPT !.tags = <<Frame, MemMap(<<Range1, Range2, Range3, Range4>>)>>,
     !.tables = <<Fadt, Madt(<<Override(1, 1), Override(0, 2), Override(8, 5), IoApic(4096, 0)>>)>>],
  \* overrides of one input, a processor that is not usable, no framebuffer tag
  [Emulator EXCEPT !.tags = <<MemMap(<<Range6, Range4>>)>>,
     !.tables = <<Fadt, Madt(<<Local(0, 1), Local(2, 0), IoApic(4096, 0), Override(1, 0), Override(8, 5)>>)>>],
  \* no I/O APIC at 0
  [Emulator EXCEPT !.tables = <<Fadt, Madt(<<Local(0, 1), IoApic(8192, 24)>>)>>, !.image = <<Filler>>],
  \* no APIC and no MADT
  [Emulator EXCEPT !.hasApic = FALSE, !.tables = <<Fadt, Waet>>],
  [Emulator EXCEPT !.hasApic = FALSE, !.tables = <<Fadt, Hpet>>],
  [Emulator EXCEPT !.hasApic = FALSE, !.tables = <<Madt(<<Local(0, 1)>>)>>, !.image = <<Filler>>],
  \* no RSDP
  [Emulator EXCEPT !.rsdp = FALSE]}

\* The timer's line comes in at input 2, the others at their own.
MCWiring == (0 :> 2) @@ (1 :> 1) @@ (8 :> 8)
=============================================================================
