----------------------------- MODULE PageFrames -----------------------------
(***************************************************************************)
(* The physical page-frame allocator, Kernel/src/mm/page.c: how memory is  *)
(* loaded into the free lists at boot, and how blocks of 2^order frames    *)
(* are taken from them.                                                    *)
(*                                                                         *)
(* A frame is its number (physical address / 4096).  The descriptor        *)
(* pageframe_t of frame f is entry f of each descriptor field; pointer     *)
(* arithmetic on descriptors is arithmetic on frame numbers.  Descriptors  *)
(* lie in RAM that reads as zero before write_pages (QEMU's "make run"):   *)
(* null links and a free lock.  The slab fields belong to another module.  *)
(*                                                                         *)
(* A step is one critical section of the per-descriptor lock, or a stretch *)
(* of code between two of them; a critical section has no other step       *)
(* inside it, so the lock words themselves are left out.                   *)
(***************************************************************************)
EXTENDS LinkedList, Sequences

CONSTANTS
  MaxOrder,        \* PAGE_MAX_ORDER, 10
  Size,            \* Size[k] is 1 << k, the frames of a block of order k
  DescOrder,       \* 4: the descriptors of one block of MaxOrder fill 2^4 pages
  NFrames,         \* frames below this number exist
  MemMaps,         \* memory maps: the Available entries, in frames
  LowLimit,        \* 0x100000 as a frame number, 256
  BlocksPerTable,  \* blocks whose descriptors one page table maps, 32
  KernelEnd,       \* end of the memory map's kernel entry, as a frame number
  Garbage,         \* what PM_MarkPagesUsed's uninitialised "current" may hold
  CountMax,        \* 2^32 - 1, the largest value of pageframe_list_t.count
  CPUs, BootCPU    \* callers; BootCPU runs MemoryInitialize

ASSUME SizeAssumption ==
  /\ MaxOrder \in Nat /\ MaxOrder >= 2
  /\ Size \in [0..MaxOrder -> Nat \ {0}]
  /\ Size[0] = 1
  /\ \A k \in 1..MaxOrder : Size[k] = Size[k - 1] + Size[k - 1]

ASSUME BootAssumption ==
  /\ DescOrder \in 0..MaxOrder
  /\ NFrames \in Nat /\ LowLimit \in Nat /\ KernelEnd \in Nat
  /\ BlocksPerTable \in Nat \ {0}
  /\ CountMax \in Nat \ {0}
  /\ Garbage \subseteq Nat /\ Garbage # {}
  /\ BootCPU \in CPUs

(* The boot loader hands over a sorted map without overlaps. *)
ASSUME MemMapsAssumption ==
  \A m \in MemMaps :
    /\ Len(m) \in Nat
    /\ \A i \in 1..Len(m) :
         m[i].start \in Nat /\ m[i].end \in 0..NFrames /\ m[i].start <= m[i].end
    /\ \A i \in 1..(Len(m) - 1) : m[i].end <= m[i + 1].start

Frames    == 0..(NFrames - 1)
BlockSize == Size[MaxOrder]          \* PAGE_MAX_SIZE, 4 MiB, in frames

(* The head pf_freelist[k].handle as a list node. *)
Handle(k) == NFrames + k
Handles   == {Handle(k) : k \in 0..MaxOrder}
Nodes     == Frames \cup Handles

VARIABLES
  order, free, addr,   \* pageframe_t.order, .free and .addr
  next, prev,          \* the list nodes of descriptors and of the heads
  count,               \* pf_freelist[k].count
  loaded,              \* frames whose descriptor is mapped (PM_GetPage # NULL)
  pc,                  \* where each CPU is
  req, mord, page,     \* order, m_order and page of its PM_AllocatePages
  caller,              \* the line that called PM_AllocatePages
  memmap,              \* the memory map, fixed before the kernel starts
  zone, current,       \* MemoryInitialize's entry, PM_LoadZoneRange's current
  tables,              \* page tables that map descriptors
  given, asked,        \* who was handed the block at f, for which order
  desc                 \* frames that hold descriptors

descriptors == <<order, free, addr>>
lists       == <<next, prev, count>>
call        == <<req, mord, page, caller>>
boot        == <<memmap, zone, current, tables, loaded, desc>>
vars        == <<descriptors, lists, call, boot, pc, given, asked>>

(* "load"  at the loop of PM_LoadZoneRange     "mark"  in PM_MarkPagesUsed *)
(* "idle"  the kernel runs, outside page.c     "scan"  PM_AllocatePages    *)
(* "select" at SELECT_PAGE                     "take"  at its AcquireLock  *)
(* "split" at the PM_ExpandPage loop           "back"  returned to loader  *)
(* "spin"  a loop whose "continue" tests the same address for ever         *)
(* stopped for good: "fault" a page fault (the handler halts with          *)
(* interrupts off), "panic" in CallPanic                                   *)
Running == {"load", "mark", "idle", "scan", "select", "take", "split", "back", "spin"}
Stopped == {"fault", "panic"}

(* Lines 131, 155 and 198 of page.c, MapVirtualAddress called from lines   *)
(* 158 and 196 (it needs a page table), and everyone after boot.           *)
Loader  == {"space", "first", "desc", "firstTable", "descTable"}
Callers == Loader \cup {"client"}

(* MemoryInitialize goes through the Available entries, then through the   *)
(* kernel entry.                                                           *)
Booted == zone = Len(memmap) + 2

WrapInc(n) == IF n = CountMax THEN 0 ELSE n + 1
WrapDec(n) == IF n = 0 THEN CountMax ELSE n - 1

Goto(c, label) == pc' = [pc EXCEPT ![c] = label]

(* PM_AllocatePages(o) is called on CPU c. *)
Call(c, o, who) ==
  /\ req' = [req EXCEPT ![c] = o]
  /\ caller' = [caller EXCEPT ![c] = who]
  /\ Goto(c, "scan")
  /\ UNCHANGED <<mord, page>>

-----------------------------------------------------------------------------
(* PM_AllocatePages *)

(* The scan for the first list with a nonzero count, lines 252-276: the    *)
(* early returns hand NULL to the caller.                                  *)
Scan(c) ==
  /\ pc[c] = "scan"
  /\ \/ /\ req[c] > MaxOrder \/ \A m \in req[c]..MaxOrder : count[m] = 0
        /\ page' = [page EXCEPT ![c] = NULL]
        /\ Goto(c, IF caller[c] = "client" THEN "idle" ELSE "back")
        /\ UNCHANGED mord
     \/ /\ req[c] <= MaxOrder
        /\ \E m \in req[c]..MaxOrder :
             /\ count[m] # 0
             /\ \A k \in req[c]..(m - 1) : count[k] = 0
             /\ mord' = [mord EXCEPT ![c] = m]
        /\ Goto(c, "select")
        /\ UNCHANGED page
  /\ UNCHANGED <<descriptors, lists, boot, req, caller, given, asked>>

(* SELECT_PAGE: the first node of the list, read without a lock. *)
Select(c) ==
  /\ pc[c] = "select"
  /\ page' = [page EXCEPT ![c] = next[Handle(mord[c])]]
  /\ Goto(c, "take")
  /\ UNCHANGED <<descriptors, lists, boot, req, mord, caller, given, asked>>

(* The critical section of lines 280-290.  AcquireLock(&page->lock) with   *)
(* page = NULL is an access to an unmapped address.  A page that is not    *)
(* free sends the CPU back to SELECT_PAGE.                                 *)
Take(c) ==
  /\ pc[c] = "take"
  /\ LET p == page[c] IN
     \/ /\ p = NULL
        /\ Goto(c, "fault")
        /\ UNCHANGED lists
     \/ /\ p # NULL
        /\ ~free[p]
        /\ Goto(c, "select")
        /\ UNCHANGED lists
     \/ /\ p # NULL
        /\ free[p]
        /\ count' = [count EXCEPT ![mord[c]] = WrapDec(@)]
        /\ next' = RemoveNext(next, prev, p)
        /\ prev' = RemovePrev(next, prev, p)
        /\ Goto(c, "split")
  /\ UNCHANGED <<descriptors, call, boot, given, asked>>

(* Faulty variant: the lower half keeps the order of the whole block. *)
BadExpandKeepsOrder(c) ==
  /\ pc[c] = "split"
  /\ mord[c] > req[c]
  /\ order[page[c]] > 0
  /\ LET p == page[c]
         k == order[p] - 1
         q == p + Size[k]
     IN /\ order' = [order EXCEPT ![q] = k]
        /\ addr' = [addr EXCEPT ![q] = addr[p] + Size[k]]
        /\ free' = [free EXCEPT ![q] = TRUE]
        /\ next' = AppendNext(next, prev, Handle(k), q)
        /\ prev' = AppendPrev(next, prev, Handle(k), q)
        /\ count' = [count EXCEPT ![k] = WrapInc(@)]
        /\ mord' = [mord EXCEPT ![c] = @ - 1]
  /\ UNCHANGED <<pc, boot, req, page, caller, given, asked>>

(* PM_ExpandPage(page), one turn of the loop of lines 292-296.  The block  *)
(* is removed from a list once more (line 374), which rewrites the links   *)
(* of the neighbours it had when it was taken.  The upper half becomes a   *)
(* block of its own on the list of its order.  A page of order 0 would     *)
(* make it return NULL, and the next use of that page fault.               *)
PM_ExpandPage(c) ==
  /\ pc[c] = "split"
  /\ mord[c] > req[c]
  /\ LET p  == page[c]
         k  == order[p] - 1
         q  == p + Size[k]
         n1 == RemoveNext(next, prev, p)
         p1 == RemovePrev(next, prev, p)
     IN IF order[p] = 0
          THEN Goto(c, "fault") /\ UNCHANGED <<descriptors, lists, mord>>
          ELSE /\ order' = [order EXCEPT ![p] = k, ![q] = k]
               /\ addr' = [addr EXCEPT ![q] = addr[p] + Size[k]]
               /\ free' = [free EXCEPT ![q] = TRUE]
               /\ next' = AppendNext(n1, p1, Handle(k), q)
               /\ prev' = AppendPrev(n1, p1, Handle(k), q)
               /\ count' = [count EXCEPT ![k] = WrapInc(@)]
               /\ mord' = [mord EXCEPT ![c] = @ - 1]
               /\ UNCHANGED pc
  /\ UNCHANGED <<boot, req, page, caller, given, asked>>

(* Faulty variant: the loop stops one order too early. *)
BadFinishEarly(c) ==
  /\ pc[c] = "split"
  /\ mord[c] \in {req[c], req[c] + 1}
  /\ LET p == page[c] IN
     /\ free' = [free EXCEPT ![p] = FALSE]
     /\ given' = [given EXCEPT ![p] = caller[c]]
     /\ asked' = [asked EXCEPT ![p] = req[c]]
  /\ Goto(c, IF caller[c] = "client" THEN "idle" ELSE "back")
  /\ UNCHANGED <<order, addr, lists, call, boot>>

(* Lines 298-299: the page stops being free, outside the lock, and goes to *)
(* the caller.                                                             *)
Finish(c) ==
  /\ pc[c] = "split"
  /\ mord[c] = req[c]
  /\ LET p == page[c] IN
     /\ free' = [free EXCEPT ![p] = FALSE]
     /\ given' = [given EXCEPT ![p] = caller[c]]
     /\ asked' = [asked EXCEPT ![p] = req[c]]
  /\ Goto(c, IF caller[c] = "client" THEN "idle" ELSE "back")
  /\ UNCHANGED <<order, addr, lists, call, boot>>

-----------------------------------------------------------------------------
(* Callers after boot *)

(* AllocatePages, the slab allocator and the page-table code ask for a     *)
(* block of some order; MaxOrder + 1 stands for every order above          *)
(* PAGE_MAX_ORDER.                                                         *)
PM_AllocatePages(c) ==
  /\ Booted
  /\ pc[c] = "idle"
  /\ \E o \in 0..(MaxOrder + 1) : Call(c, o, "client")
  /\ UNCHANGED <<descriptors, lists, boot, given, asked>>

(* PM_FreePages (and PM_Free, which finds the descriptor with PM_GetPage): *)
(* the flag is set, then PM_CombinePage reads the free field of a          *)
(* "descriptor" at a physical address (line 407).  Only the top entry of   *)
(* kernelPages is present, so that access faults.                          *)
PM_FreePages(c) ==
  /\ pc[c] = "idle"
  /\ \E f \in Frames :
       /\ given[f] = "client"
       /\ free' = [free EXCEPT ![f] = TRUE]
       /\ given' = [given EXCEPT ![f] = "nobody"]
  /\ Goto(c, "fault")
  /\ UNCHANGED <<order, addr, lists, call, boot, asked>>

-----------------------------------------------------------------------------
(* Loading memory at boot *)

(* ALIGN_UP and ALIGN_DOWN to PAGE_MAX_SIZE. *)
ZoneStart(z) == ((memmap[z].start + BlockSize - 1) \div BlockSize) * BlockSize
ZoneEnd(z)   == (memmap[z].end \div BlockSize) * BlockSize

FirstFrame(z) == IF z <= Len(memmap) THEN ZoneStart(z) ELSE 0

Block(f, k) == f..(f + Size[k] - 1)

(* write_pages: every frame of the block is free, and the block goes to    *)
(* the list below its order (line 88).  Its descriptors are mapped.        *)
write_pages(b) ==
  LET h == Handle(MaxOrder - 1) IN
  /\ free' = [f \in Frames |-> f \in Block(b, MaxOrder) \/ free[f]]
  /\ addr' = [f \in Frames |-> IF f \in Block(b, MaxOrder) THEN f ELSE addr[f]]
  /\ order' = [order EXCEPT ![b] = MaxOrder]
  /\ next' = AppendNext(next, prev, h, b)
  /\ prev' = AppendPrev(next, prev, h, b)
  /\ count' = [count EXCEPT ![MaxOrder - 1] = WrapInc(@)]
  /\ loaded' = loaded \cup Block(b, MaxOrder)

(* The head of the loop of PM_LoadZoneRange, lines 102-131.  An entry      *)
(* without a whole block is ignored, and the loop leaves the last block    *)
(* out.  "continue" below 1 MiB tests the same address for ever.           *)
LoadBlock ==
  /\ pc[BootCPU] = "load"
  /\ zone <= Len(memmap)
  /\ \/ /\ ZoneStart(zone) >= ZoneEnd(zone) \/ current >= ZoneEnd(zone) - BlockSize
        /\ zone' = zone + 1
        /\ current' = FirstFrame(zone + 1)
        /\ UNCHANGED <<call, pc>>
     \/ /\ ZoneStart(zone) < ZoneEnd(zone) /\ current < ZoneEnd(zone) - BlockSize
        /\ IF current >= LowLimit
             THEN Call(BootCPU, DescOrder, "space")
             ELSE Goto(BootCPU, "spin") /\ UNCHANGED call
        /\ UNCHANGED <<zone, current>>
  /\ UNCHANGED <<descriptors, lists, tables, loaded, desc, memmap, given, asked>>

(* Line 131 returned: NULL leads to lines 141-155 (the block's own first   *)
(* frames are mapped and hold its descriptors; VM_AllocatePages and that   *)
(* mapping use page tables that exist from the start), a page to line 198. *)
(* In the second case the page just allocated is not used any further.     *)
Bootstrap ==
  /\ pc[BootCPU] = "back" /\ caller[BootCPU] = "space"
  /\ page[BootCPU] = NULL
  /\ write_pages(current)
  /\ Call(BootCPU, DescOrder, "first")
  /\ UNCHANGED <<zone, current, tables, desc, memmap, given, asked>>

AllocateAgain ==
  /\ pc[BootCPU] = "back" /\ caller[BootCPU] = "space"
  /\ page[BootCPU] # NULL
  /\ Call(BootCPU, DescOrder, "desc")
  /\ UNCHANGED <<descriptors, lists, boot, given, asked>>

(* MapVirtualAddress of the descriptors' window, from line 158 or 196: a   *)
(* missing page table is entered in the directory, then AllocatePages asks *)
(* for one page for it.                                                    *)
Table == (current \div BlockSize) \div BlocksPerTable

NextBlock == current' = current + BlockSize /\ Goto(BootCPU, "load")

(* PM_AllocatePages(4)->addr at line 155 or 198 faults for NULL, and       *)
(* AllocatePages panics when it gets no page for a page table.             *)
NoPage ==
  /\ pc[BootCPU] = "back" /\ caller[BootCPU] # "space"
  /\ page[BootCPU] = NULL
  /\ Goto(BootCPU, IF caller[BootCPU] \in {"first", "desc"} THEN "fault" ELSE "panic")
  /\ UNCHANGED <<descriptors, lists, call, boot, given, asked>>

(* Faulty variant: the descriptors lie behind the frames line 155 takes. *)
BadMapOwnFrames ==
  /\ pc[BootCPU] = "back" /\ caller[BootCPU] = "first"
  /\ page[BootCPU] # NULL
  /\ desc' = desc \cup Block(current + BlockSize \div 2, DescOrder)
  /\ tables' = tables \cup {Table}
  /\ Call(BootCPU, 0, "firstTable")
  /\ UNCHANGED <<descriptors, lists, zone, current, loaded, memmap, given, asked>>

(* Lines 155-163: the descriptors stay where they are, in the frames from  *)
(* current on.                                                             *)
MapOwnFrames ==
  /\ pc[BootCPU] = "back" /\ caller[BootCPU] = "first"
  /\ page[BootCPU] # NULL
  /\ desc' = desc \cup Block(current, DescOrder)
  /\ tables' = tables \cup {Table}
  /\ IF Table \in tables
       THEN NextBlock /\ UNCHANGED call
       ELSE Call(BootCPU, 0, "firstTable") /\ UNCHANGED current
  /\ UNCHANGED <<descriptors, lists, zone, loaded, memmap, given, asked>>

(* Lines 195-204: the descriptors go to the block of line 198. *)
MapNewFrames ==
  /\ pc[BootCPU] = "back" /\ caller[BootCPU] = "desc"
  /\ page[BootCPU] # NULL
  /\ desc' = desc \cup Block(addr[page[BootCPU]], DescOrder)
  /\ tables' = tables \cup {Table}
  /\ IF Table \in tables
       THEN write_pages(current) /\ NextBlock /\ UNCHANGED call
       ELSE /\ Call(BootCPU, 0, "descTable")
            /\ UNCHANGED <<descriptors, lists, current, loaded>>
  /\ UNCHANGED <<zone, memmap, given, asked>>

(* AllocatePages for the page table returned. *)
TableReady ==
  /\ pc[BootCPU] = "back" /\ page[BootCPU] # NULL
  /\ \/ /\ caller[BootCPU] = "firstTable"
        /\ UNCHANGED <<descriptors, lists, loaded>>
     \/ /\ caller[BootCPU] = "descTable"
        /\ write_pages(current)
  /\ NextBlock
  /\ UNCHANGED <<call, zone, tables, desc, memmap, given, asked>>

(* MemoryInitialize reaches the kernel entry: PM_MarkPagesUsed starts with *)
(* whatever "current" holds (line 327).                                    *)
EnterMark ==
  /\ pc[BootCPU] = "load"
  /\ zone = Len(memmap) + 1
  /\ current' \in Garbage
  /\ Goto(BootCPU, "mark")
  /\ UNCHANGED <<descriptors, lists, call, zone, tables, loaded, desc, memmap, given, asked>>

(* Faulty variant: a used page stays on its list. *)
BadMarkKeepsLink ==
  /\ pc[BootCPU] = "mark"
  /\ \/ /\ current > KernelEnd
        /\ zone' = zone + 1
        /\ Goto(BootCPU, "idle")
        /\ UNCHANGED <<free, current>>
     \/ /\ current <= KernelEnd /\ current \in loaded
        /\ free' = [free EXCEPT ![current] = FALSE]
        /\ current' = current + 1
        /\ UNCHANGED <<pc, zone>>
  /\ UNCHANGED <<order, addr, lists, call, tables, loaded, desc, memmap, given, asked>>

(* Faulty variant: the loop does not advance. *)
BadMarkStays ==
  /\ pc[BootCPU] = "mark"
  /\ \/ /\ current > KernelEnd
        /\ zone' = zone + 1
        /\ Goto(BootCPU, "idle")
        /\ UNCHANGED <<free, next, prev, current>>
     \/ /\ current <= KernelEnd /\ current \notin loaded
        /\ Goto(BootCPU, "spin")
        /\ UNCHANGED <<free, next, prev, current, zone>>
     \/ /\ current <= KernelEnd /\ current \in loaded
        /\ free' = [free EXCEPT ![current] = FALSE]
        /\ next' = RemoveNext(next, prev, current)
        /\ prev' = RemovePrev(next, prev, current)
        /\ UNCHANGED <<pc, zone, current>>
  /\ UNCHANGED <<order, addr, count, call, tables, loaded, desc, memmap, given, asked>>

(* One turn of the loop of PM_MarkPagesUsed.  A frame without a descriptor *)
(* sends "continue" round for ever.  The list's count is left alone.       *)
PM_MarkPagesUsed ==
  /\ pc[BootCPU] = "mark"
  /\ \/ /\ current > KernelEnd
        /\ zone' = zone + 1
        /\ Goto(BootCPU, "idle")
        /\ UNCHANGED <<free, next, prev, current>>
     \/ /\ current <= KernelEnd /\ current \notin loaded
        /\ Goto(BootCPU, "spin")
        /\ UNCHANGED <<free, next, prev, current, zone>>
     \/ /\ current <= KernelEnd /\ current \in loaded
        /\ free' = [free EXCEPT ![current] = FALSE]
        /\ next' = RemoveNext(next, prev, current)
        /\ prev' = RemovePrev(next, prev, current)
        /\ current' = current + 1
        /\ UNCHANGED <<pc, zone>>
  /\ UNCHANGED <<order, addr, count, call, tables, loaded, desc, memmap, given, asked>>

-----------------------------------------------------------------------------

Init ==
  /\ order = [f \in Frames |-> 0]
  /\ free = [f \in Frames |-> FALSE]
  /\ addr = [f \in Frames |-> 0]
  /\ next = [n \in Nodes |-> NULL]
  /\ prev = [n \in Nodes |-> NULL]
  /\ count = [k \in 0..MaxOrder |-> 0]
  /\ loaded = {}
  /\ pc = [c \in CPUs |-> IF c = BootCPU THEN "load" ELSE "idle"]
  /\ req = [c \in CPUs |-> 0]
  /\ mord = [c \in CPUs |-> 0]
  /\ page = [c \in CPUs |-> NULL]
  /\ caller = [c \in CPUs |-> "client"]
  /\ memmap \in MemMaps
  /\ zone = 1
  /\ current = FirstFrame(1)
  /\ tables = {}
  /\ given = [f \in Frames |-> "nobody"]
  /\ asked = [f \in Frames |-> 0]
  /\ desc = {}

InAllocator(c) == Scan(c) \/ Select(c) \/ Take(c) \/ PM_ExpandPage(c) \/ Finish(c)

LoadZones ==
  \/ LoadBlock \/ Bootstrap \/ AllocateAgain \/ NoPage
  \/ MapOwnFrames \/ MapNewFrames \/ TableReady
  \/ EnterMark \/ PM_MarkPagesUsed

Next ==
  \/ LoadZones
  \/ \E c \in CPUs : InAllocator(c) \/ PM_AllocatePages(c) \/ PM_FreePages(c)

(* A CPU keeps executing the function it is in.  Nobody has to call one. *)
Spec ==
  /\ Init /\ [][Next]_vars
  /\ WF_vars(LoadZones)
  /\ \A c \in CPUs : WF_vars(InAllocator(c))

-----------------------------------------------------------------------------

TypeOK ==
  /\ order \in [Frames -> 0..MaxOrder]
  /\ free \in [Frames -> BOOLEAN]
  /\ addr \in [Frames -> Nat]
  /\ next \in [Nodes -> Nodes \cup {NULL}]
  /\ prev \in [Nodes -> Nodes \cup {NULL}]
  /\ count \in [0..MaxOrder -> 0..CountMax]
  /\ loaded \subseteq Frames
  /\ desc \subseteq Nat
  /\ pc \in [CPUs -> Running \cup Stopped]
  /\ req \in [CPUs -> 0..(MaxOrder + 1)]
  /\ mord \in [CPUs -> 0..MaxOrder]
  /\ page \in [CPUs -> Frames \cup {NULL}]
  /\ caller \in [CPUs -> Callers]
  /\ memmap \in MemMaps
  /\ zone \in 1..(Len(memmap) + 2)
  /\ current \in Nat
  /\ tables \subseteq Nat
  /\ given \in [Frames -> Callers \cup {"nobody"}]
  /\ asked \in [Frames -> 0..MaxOrder]

(* The blocks at f and g have no frame in common. *)
Apart(f, g) == f + Size[order[f]] <= g \/ g + Size[order[g]] <= f

(* The blocks that belong to someone: handed out, or taken off the lists   *)
(* by a CPU that is splitting them.                                        *)
Given == {f \in Frames : given[f] # "nobody"}
InHand(c) == pc[c] = "split"

(* PM_AllocatePages never hands out a frame twice: the blocks that were    *)
(* handed out and the block being split are pairwise disjoint, whatever    *)
(* the sequence of splits left behind in the links (lines 288 and 374) and *)
(* in the counts.                                                          *)
NoOverlap ==
  /\ \A f, g \in Given : f # g => Apart(f, g)
  /\ \A c \in CPUs : InHand(c) => \A g \in Given : page[c] # g /\ Apart(page[c], g)
  /\ \A c, d \in CPUs :
       InHand(c) /\ InHand(d) /\ c # d => page[c] # page[d] /\ Apart(page[c], page[d])

(* The caller gets at least the 2^order frames it asked for, and at most   *)
(* twice as many: a block of MaxOrder sits on the list below, so the split *)
(* loop stops one order early for it.  The block is aligned, consists of   *)
(* loaded frames, and page->addr is its first frame, although addresses    *)
(* and descriptors are computed side by side at lines 379 and 382.         *)
BlockFits ==
  \A f \in Given :
    /\ order[f] \in {asked[f], asked[f] + 1}
    /\ f % Size[order[f]] = 0
    /\ Block(f, order[f]) \subseteq loaded
    /\ addr[f] = f

(* The frames that hold the descriptors themselves are in blocks given to  *)
(* the loader, so no caller is handed the allocator's own tables.  For the *)
(* first block this needs line 155 to return just the block that           *)
(* write_pages put on the list.                                            *)
DescriptorsKept ==
  \A f \in desc : \E g \in Given : given[g] \in Loader /\ f \in Block(g, order[g])

(* The frames that a list really holds: their predecessor points at them. *)
Linked == {f \in Frames : prev[f] # NULL /\ next[prev[f]] = f}

(* Whatever hangs on a free list is free and belongs to nobody, and each   *)
(* list is doubly linked without a cycle, although a block that is split   *)
(* rewrites the links of its former neighbours on every turn of the loop.  *)
(* So the retry at line 284 is never taken while one CPU allocates.        *)
ListsSound ==
  \A x \in Handles \cup Linked :
    LET y == next[x] IN
    y # NULL => /\ y \in Frames
                /\ prev[y] = x
                /\ free[y] /\ y \notin Given
                /\ \A c \in CPUs : InHand(c) => page[c] # y

(* Every call of PM_AllocatePages comes to an end: it returns, or the CPU  *)
(* stops at the null pointer of an empty list.                             *)
CallEnds ==
  \A c \in CPUs : pc[c] = "scan" ~> pc[c] \in {"idle", "back"} \cup Stopped

(* No entry of the memory map has a block to load below LowLimit: on a PC  *)
(* the memory from 640 KiB to 1 MiB is never available.                    *)
LoadsAboveLow ==
  \A z \in 1..Len(memmap) :
    ZoneStart(z) < ZoneEnd(z) - BlockSize => ZoneStart(z) >= LowLimit

(* MemoryInitialize comes to its end.  Loading gets through the map or     *)
(* runs out of frames, also where page tables and descriptors use them up  *)
(* in the middle of a block, unless an entry starts below LowLimit (line   *)
(* 120).  Marking the kernel comes through from wherever its uninitialised *)
(* "current" starts, as long as it meets descriptors only (line 334).      *)
BootEnds ==
  /\ LoadsAboveLow => <>(pc[BootCPU] \in {"mark"} \cup Stopped)
  /\ pc[BootCPU] = "mark" /\ current..KernelEnd \subseteq loaded ~> Booted

(* page.c:245, "If there is no suitable page, return [NULL] instead": a    *)
(* list whose count is not zero has a page to select.                      *)
SuitableOrNull == \A c \in CPUs : pc[c] = "take" => page[c] # NULL
=============================================================================
