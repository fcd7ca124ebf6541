------------------------------ MODULE KernelMap ------------------------------
(***************************************************************************)
(* The kernel's page tables: AllocatePages (Kernel/src/mm/malloc.c) and    *)
(* MapVirtualAddress (Kernel/arch/x86_64/paging.c) on top of the frame and *)
(* the virtual page allocators, which PageFrames and VirtualPages model:   *)
(* here they give any frames and any pages that nobody has.                *)
(*                                                                         *)
(* Virtual page v is slot v % Slots of page table v \div Slots.  The first *)
(* StaticTables tables are arrays of the kernel image and cover the pages  *)
(* that VM_AllocatePages gives out; the table of any other page lives in a *)
(* frame of its own, is found by the hardware through its directory entry  *)
(* and by the kernel through kernelPageTablePointers.                      *)
(***************************************************************************)
EXTENDS PageSizes

CONSTANTS
  None,           \* no frame, no table, no call
  Slots,          \* PAGES_PER_TABLE, 512
  StaticTables,   \* kernelPageTables, 512
  OtherTables,    \* tables of the other kernel address ranges
  NFrames,        \* frames of RAM
  KernelPages,    \* pages of the kernel image, mapped at boot
  ChunkPages,     \* pages in the first chunk of marks, 128 MiB: the model's bound
  Windows,        \* ranges that boot code maps: records phys, virt, amount
  Amounts,        \* what callers of AllocatePages ask for
  Leftover        \* what a frame's words read as, taken as entries, before a write

Frames      == 0..(NFrames - 1)
Tables      == 0..(StaticTables + OtherTables - 1)
StaticPages == 0..(StaticTables * Slots - 1)
Pages       == 0..((StaticTables + OtherTables) * Slots - 1)
Static(i)   == NFrames + i        \* where the array kernelPageTables[i] lies
Places      == Frames \cup {Static(i) : i \in 0..(StaticTables - 1)}

VARIABLES
  mem,        \* place -> slot -> frame that the entry there names, or None
  dirEntry,   \* table -> place in its directory entry, None when not present
  tablePtr,   \* table -> virtual page in kernelPageTablePointers, or None
  freeFrames, \* frames that PM_AllocatePages can give
  freePages,  \* pages that VM_AllocatePages can give
  call,       \* the MapVirtualAddress in progress, or None
  outer,      \* the one that waits for a table: its call, and the table's page; or None
  asked,      \* page -> frame it was last mapped to (history)
  data,       \* pages that AllocatePages gave its callers (history)
  m_Pages,    \* the kernel process's count
  state       \* "run", or why the processor went no further

vars == <<mem, dirEntry, tablePtr, freeFrames, freePages, call, outer, asked, data, m_Pages, state>>

TableOf(v) == v \div Slots
SlotOf(v)  == v % Slots

(* The hardware's walk; None is a page fault. *)
Translate(v) ==
  IF dirEntry[TableOf(v)] = None THEN None ELSE mem[dirEntry[TableOf(v)]][SlotOf(v)]

(* kernelPageTablePointers[i], as the place it leads to.  A pointer to a   *)
(* table in a frame is itself a virtual address.                           *)
TablePlace(i) ==
  IF i < StaticTables THEN Static(i)
  ELSE IF tablePtr[i] = None THEN None
  ELSE Translate(tablePtr[i])

(* ConvertVirtToPhys; without a table it gives the address back. *)
ConvertVirtToPhys(v) ==
  IF TablePlace(TableOf(v)) = None THEN v ELSE mem[TablePlace(TableOf(v))][SlotOf(v)]

(* VM_GetPage and IsPagePresent. *)
IsPagePresent(v) ==
  TablePlace(TableOf(v)) # None /\ mem[TablePlace(TableOf(v))][SlotOf(v)] # None

Row(x, n) == x..(x + n - 1)

Calls  == [phys : Nat, virt : Nat, left : Nat \ {0}, credit : Nat]
Outers == [call : Calls, table : StaticPages \cup {None}]

(* The kernel image lies in RAM, from its start, and in the first chunk,   *)
(* and that in the static tables; what boot code maps lies in RAM, and in  *)
(* address ranges other than the one that VM_AllocatePages gives out.      *)
ASSUME MapAssumption ==
  /\ Slots \in Nat \ {0} /\ StaticTables \in Nat /\ OtherTables \in Nat
  /\ NFrames \in Nat /\ KernelPages \in 1..NFrames
  /\ ChunkPages \in Nat /\ KernelPages <= ChunkPages /\ ChunkPages <= StaticTables * Slots
  /\ None \notin Int /\ None \notin Calls /\ None \notin Outers
  /\ Leftover \subseteq Frames \cup {None}
  /\ \A w \in Windows :
       /\ w \in [phys : Nat, virt : Nat, amount : Nat \ {0}]
       /\ Row(w.phys, w.amount) \subseteq Frames
       /\ Row(w.virt, w.amount) \subseteq Pages \ StaticPages

(* Nobody asks for more than the largest block. *)
ASSUME AmountsAssumption == Amounts \subseteq 0..Pow2[MaxOrder]

(* Where VM_AllocatePages may find n pages.  In the first chunk they are   *)
(* pages that nobody has; what is asked for when no row of n is left there *)
(* is outside the model.                                                   *)
PageRows(n) == {v \in freePages : Row(v, n) \subseteq freePages}

(* What PM_AllocatePages(page_size_order(n)) may return, NULL left out:    *)
(* there are no blocks above the largest order.                            *)
FrameBlock(n) ==
  LET order == page_size_order(n) IN
  {f \in freeFrames : order <= MaxOrder /\ Row(f, Pow2[order]) \subseteq freeFrames}

(* Who calls AllocatePages: anybody, for any amount, or MapVirtualAddress, *)
(* for the one page of a new table.                                        *)
Asks(amount) ==
  /\ state = "run" /\ call = None
  /\ IF outer = None THEN amount \in Amounts ELSE outer.table = None /\ amount = 1

(* Faulty variant: the order is that of the amount before it is rounded. *)
BadAllocatePagesOrder(amount) ==
  LET n == page_size_align(amount) IN
  /\ Asks(amount)
  /\ \E f \in FrameBlock(amount), v \in PageRows(n) :
       /\ freeFrames' = freeFrames \ Row(f, Pow2[page_size_order(amount)])
       /\ freePages' = freePages \ Row(v, n)
       /\ call' = [phys |-> f, virt |-> v, left |-> n, credit |-> n]
       /\ IF outer = None THEN data' = data \cup Row(v, n) /\ UNCHANGED outer
          ELSE outer' = [outer EXCEPT !.table = v] /\ UNCHANGED data
  /\ UNCHANGED <<mem, dirEntry, tablePtr, asked, m_Pages, state>>

(* AllocatePages up to its call of MapVirtualAddress. *)
AllocatePages(amount) ==
  LET n == page_size_align(amount) IN
  /\ Asks(amount)
  /\ \E f \in FrameBlock(n), v \in PageRows(n) :
       /\ freeFrames' = freeFrames \ Row(f, Pow2[page_size_order(n)])
       /\ freePages' = freePages \ Row(v, n)
       /\ call' = [phys |-> f, virt |-> v, left |-> n, credit |-> n]
       /\ IF outer = None THEN data' = data \cup Row(v, n) /\ UNCHANGED outer
          ELSE outer' = [outer EXCEPT !.table = v] /\ UNCHANGED data
  /\ UNCHANGED <<mem, dirEntry, tablePtr, asked, m_Pages, state>>

(* No frames: a panic. *)
AllocateFails(amount) ==
  /\ Asks(amount)
  /\ FrameBlock(page_size_align(amount)) = {}
  /\ state' = "panic"
  /\ UNCHANGED <<mem, dirEntry, tablePtr, freeFrames, freePages, call, outer, asked, data, m_Pages>>

(* Boot code maps a range to fixed addresses. *)
MapWindow(w) ==
  /\ state = "run" /\ call = None /\ outer = None
  /\ call' = [phys |-> w.phys, virt |-> w.virt, left |-> w.amount, credit |-> 0]
  /\ UNCHANGED <<mem, dirEntry, tablePtr, freeFrames, freePages, outer, asked, data, m_Pages, state>>

(* One round of the loop of MapVirtualAddress is done; after the last one  *)
(* AllocatePages counts its pages.                                         *)
NextPage(c) ==
  IF c.left = 1
  THEN call' = None /\ m_Pages' = m_Pages + c.credit
  ELSE call' = [c EXCEPT !.phys = @ + 1, !.virt = @ + 1, !.left = @ - 1] /\ UNCHANGED m_Pages

(* The page's table is there: write its entry. *)
MapPage ==
  /\ state = "run" /\ call # None
  /\ LET place == TablePlace(TableOf(call.virt)) IN
       /\ place # None
       /\ mem' = [mem EXCEPT ![place][SlotOf(call.virt)] = call.phys]
  /\ asked' = [asked EXCEPT ![call.virt] = call.phys]
  /\ NextPage(call)
  /\ UNCHANGED <<dirEntry, tablePtr, freeFrames, freePages, outer, data, state>>

(* The table is missing: its directory entry is made present, with the     *)
(* address it has, 0, before AllocatePages is called for the table.        *)
MakePresent ==
  /\ state = "run" /\ call # None
  /\ LET i == TableOf(call.virt) IN
       /\ TablePlace(i) = None
       /\ dirEntry[i] = None
       /\ dirEntry' = [dirEntry EXCEPT ![i] = 0]
  /\ outer' = [call |-> call, table |-> None]
  /\ call' = None
  /\ UNCHANGED <<mem, tablePtr, freeFrames, freePages, asked, data, m_Pages, state>>

(* Faulty variant: the directory entry gets the virtual page's number. *)
BadTakeTable ==
  /\ state = "run" /\ call = None /\ outer # None
  /\ LET t == outer.table
         v == outer.call.virt
     IN /\ t # None
        /\ dirEntry' = [dirEntry EXCEPT ![TableOf(v)] = t % NFrames]
        /\ tablePtr' = [tablePtr EXCEPT ![TableOf(v)] = t]
        /\ mem' = [mem EXCEPT ![Translate(t)][SlotOf(v)] = outer.call.phys]
        /\ asked' = [asked EXCEPT ![v] = outer.call.phys]
  /\ NextPage(outer.call)
  /\ outer' = None
  /\ UNCHANGED <<freeFrames, freePages, data, state>>

(* AllocatePages has given the table: its frame goes to the directory      *)
(* entry, its page to kernelPageTablePointers, and the page that asked for *)
(* it into its slot.  The other slots are what the frame held.             *)
TakeTable ==
  /\ state = "run" /\ call = None /\ outer # None
  /\ LET t == outer.table
         v == outer.call.virt
     IN /\ t # None
        /\ dirEntry' = [dirEntry EXCEPT ![TableOf(v)] = ConvertVirtToPhys(t)]
        /\ tablePtr' = [tablePtr EXCEPT ![TableOf(v)] = t]
        /\ mem' = [mem EXCEPT ![Translate(t)][SlotOf(v)] = outer.call.phys]
        /\ asked' = [asked EXCEPT ![v] = outer.call.phys]
  /\ NextPage(outer.call)
  /\ outer' = None
  /\ UNCHANGED <<freeFrames, freePages, data, state>>

(* After LoadVirtualMemory: the static tables are in their directory and   *)
(* map the kernel image.                                                   *)
Init ==
  /\ \E e \in Leftover :
       mem = [x \in Places |-> [s \in 0..(Slots - 1) |->
                IF x \in Frames THEN e
                ELSE IF (x - NFrames) * Slots + s < KernelPages
                THEN (x - NFrames) * Slots + s ELSE None]]
  /\ dirEntry = [i \in Tables |-> IF i < StaticTables THEN Static(i) ELSE None]
  /\ tablePtr = [i \in Tables |-> None]
  /\ freeFrames = KernelPages..(NFrames - 1)
  /\ freePages = KernelPages..(ChunkPages - 1)
  /\ call = None
  /\ outer = None
  /\ asked = [v \in Pages |-> IF v < KernelPages THEN v ELSE None]
  /\ data = {}
  /\ m_Pages = 0
  /\ state = "run"

Next ==
  \/ \E n \in Amounts \cup {1} : AllocatePages(n) \/ AllocateFails(n)
  \/ \E w \in Windows : MapWindow(w)
  \/ MapPage
  \/ MakePresent
  \/ TakeTable

Spec == Init /\ [][Next]_vars

-----------------------------------------------------------------------------
TypeOK ==
  /\ mem \in [Places -> [0..(Slots - 1) -> Frames \cup {None}]]
  /\ dirEntry \in [Tables -> Places \cup {None}]
  /\ tablePtr \in [Tables -> StaticPages \cup {None}]
  /\ freeFrames \subseteq Frames
  /\ freePages \subseteq StaticPages
  /\ call \in Calls \cup {None}
  /\ outer \in Outers \cup {None}
  /\ asked \in [Pages -> Frames \cup {None}]
  /\ data \subseteq StaticPages
  /\ m_Pages \in Nat
  /\ state \in {"run", "panic"}

(* Every page that was mapped, and not mapped again, translates to the     *)
(* frame it was mapped to, whatever tables were made since, and while one  *)
(* is being made behind a directory entry that is present already.         *)
TranslatesAsAsked ==
  \A v \in Pages : asked[v] # None => Translate(v) = asked[v] /\ ConvertVirtToPhys(v) = asked[v]

(* No page that AllocatePages gave a caller leads to a frame that holds a  *)
(* page table, and no two such pages lead to one frame.                    *)
DataIsPrivate ==
  \A v \in data : asked[v] # None =>
    /\ \A i \in Tables : dirEntry[i] # asked[v]
    /\ \A w \in data \ {v} : asked[w] # asked[v]

(* The block AllocatePages takes for an amount has frames for all of it,   *)
(* that nobody else has, and less than twice as many; page_size_align and  *)
(* page_size_order agree on it up to the largest block, and so they do for *)
(* the sizes in bytes of PM_Allocate, above half a page (SmallSizesFit).   *)
BlocksFit ==
  /\ SizesFit
  /\ \A amount \in Amounts \ {0} : \A f \in FrameBlock(page_size_align(amount)) :
       Row(f, amount) \subseteq freeFrames

(* "@return false If the page does not exist": IsPagePresent holds only of *)
(* pages that were mapped.                                                 *)
PresentWasMapped == \A v \in Pages : IsPagePresent(v) => asked[v] # None
=============================================================================
