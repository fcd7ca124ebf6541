-------------------------- MODULE PageFramesProofs --------------------------
(***************************************************************************)
(* While one CPU runs the allocator, for any number of orders, any memory  *)
(* map and any value of the uninitialised variable of PM_MarkPagesUsed: no *)
(* frame is handed out twice, a block is what was asked for, and the       *)
(* descriptors' own frames stay with the loader.                           *)
(***************************************************************************)
EXTENDS PageFrames, Spinlock, TLAPS

(* A frame is the head of a block once it was put on a list: its prev      *)
(* field is written then and never becomes NULL again.                     *)
HeadsOf(pv) == {f \in Frames : pv[f] # NULL}
Heads == HeadsOf(prev)

(* Links lead to heads of blocks and, backwards, to list heads; a frame    *)
(* that heads no block has no successor.                                   *)
LinksOK(nx, pv) ==
  /\ nx \in [Nodes -> Nodes \cup {NULL}]
  /\ pv \in [Nodes -> Nodes \cup {NULL}]
  /\ \A n \in Nodes : nx[n] # NULL => nx[n] \in HeadsOf(pv)
  /\ \A n \in Nodes : pv[n] # NULL => pv[n] \in HeadsOf(pv) \cup Handles
  /\ \A f \in Frames : nx[f] # NULL => f \in HeadsOf(pv)

(* The blocks at the heads consist of loaded frames and do not overlap. *)
BlocksOK ==
  /\ \A f \in Heads : \A x \in f..(f + Size[order[f]] - 1) : x \in loaded
  /\ \A f, g \in Heads : f # g => Apart(f, g)

(* What was handed out is a head and not free; what is being split is a    *)
(* head that nobody was handed.                                            *)
OwnersOK ==
  /\ \A f \in Given : f \in Heads /\ ~free[f]
  /\ \A c \in CPUs : pc[c] = "take" => page[c] \in Heads \cup {NULL}
  /\ \A c \in CPUs : pc[c] = "split" => page[c] \in Heads \ Given

(* The block that PM_LoadZoneRange is about to write lies above every      *)
(* loaded frame and inside the current entry.  Between lines 152 and 158   *)
(* the block at current is loaded already.                                 *)
BusyCall == {"scan", "select", "take", "split", "back"}

Top ==
  IF pc[BootCPU] \in BusyCall /\ caller[BootCPU] \in {"first", "firstTable"}
    THEN current + BlockSize ELSE current

ZoneOK ==
  /\ pc[BootCPU] \in BusyCall \cup {"load"} /\ zone <= Len(memmap) =>
       \A x \in loaded : x < Top /\ x < memmap[zone].end
  /\ pc[BootCPU] \in BusyCall /\ caller[BootCPU] \in Loader =>
       zone <= Len(memmap) /\ current + BlockSize <= memmap[zone].end
  /\ pc[BootCPU] = "back" => caller[BootCPU] \in Loader
  /\ pc[BootCPU] = "mark" => zone = Len(memmap) + 1

IInv == TypeOK /\ LinksOK(next, prev) /\ BlocksOK /\ OwnersOK /\ ZoneOK

-----------------------------------------------------------------------------
(* The list operations *)

(* A list head is a node and no frame, and NULL is no node. *)
LEMMA NodeFacts ==
  /\ \A k \in 0..MaxOrder : Handle(k) \in Nodes /\ Handle(k) \notin Frames
  /\ NULL \notin Nodes /\ NULL \notin Frames
  /\ Frames \subseteq Nodes
  /\ \A n \in Handles : n \in Nodes /\ n \notin Frames /\ n # NULL
  /\ \A k \in 0..MaxOrder : Handle(k) \in Handles
<1>1. /\ NFrames \in Nat /\ MaxOrder \in Nat
      BY SizeAssumption, BootAssumption, Zenon
<1>2. \A k \in 0..MaxOrder : Handle(k) \in Handles
      BY Zenon DEF Handles
<1>3. \A n \in Handles : n \in Nodes /\ n \notin Frames /\ n # NULL
      BY <1>1 DEF Handle, Handles, Nodes, Frames, NULL
<1>4. NULL \notin Frames /\ Frames \subseteq Nodes
      BY <1>1 DEF Nodes, Frames, NULL
<1> QED BY <1>2, <1>3, <1>4, Zenon DEF Nodes

(* LinkedListRemove of any descriptor, also of one that is on no list or   *)
(* was removed before, keeps the links among the heads.                    *)
LEMMA RemoveKeepsLinks ==
  ASSUME NEW nx, NEW pv, LinksOK(nx, pv), NEW f \in Frames
  PROVE  /\ LinksOK(RemoveNext(nx, pv, f), RemovePrev(nx, pv, f))
         /\ HeadsOf(RemovePrev(nx, pv, f)) = HeadsOf(pv)
<1> DEFINE nx1 == RemoveNext(nx, pv, f)
           pv1 == RemovePrev(nx, pv, f)
<1>1. f \in Nodes /\ nx[f] \in Nodes \cup {NULL} /\ pv[f] \in Nodes \cup {NULL}
      BY NodeFacts, Zenon DEF LinksOK
<1>2. nx1 \in [Nodes -> Nodes \cup {NULL}] /\ pv1 \in [Nodes -> Nodes \cup {NULL}]
      BY <1>1, Zenon DEF LinksOK, RemoveNext, RemovePrev
<1>3. HeadsOf(pv1) = HeadsOf(pv)
      BY <1>1, NodeFacts, Zenon DEF LinksOK, RemovePrev, HeadsOf
<1>4. \A n \in Nodes : nx1[n] # NULL => nx1[n] \in HeadsOf(pv)
      BY <1>1, Zenon DEF LinksOK, RemoveNext
<1>5. \A n \in Nodes : pv1[n] # NULL => pv1[n] \in HeadsOf(pv) \cup Handles
      BY <1>1, Zenon DEF LinksOK, RemovePrev
<1>6. \A g \in Frames : nx1[g] # NULL => g \in HeadsOf(pv)
      BY <1>1, NodeFacts, Zenon DEF LinksOK, RemoveNext
<1> QED BY <1>2, <1>3, <1>4, <1>5, <1>6, Zenon DEF LinksOK

(* LinkedListAppend of a descriptor that was on no list before makes it a  *)
(* head and changes no other.                                              *)
LEMMA AppendKeepsLinks ==
  ASSUME NEW nx, NEW pv, LinksOK(nx, pv),
         NEW k \in 0..MaxOrder, NEW q \in Frames, q \notin HeadsOf(pv)
  PROVE  /\ LinksOK(AppendNext(nx, pv, Handle(k), q), AppendPrev(nx, pv, Handle(k), q))
         /\ HeadsOf(AppendPrev(nx, pv, Handle(k), q)) = HeadsOf(pv) \cup {q}
<1> DEFINE h == Handle(k)
           nx1 == AppendNext(nx, pv, h, q)
           pv1 == AppendPrev(nx, pv, h, q)
<1>1. h \in Nodes /\ h \notin Frames /\ q \in Nodes /\ h # NULL /\ q # NULL /\ h # q
      BY NodeFacts, Zenon
<1>2. nx[h] = NULL \/ nx[h] \in HeadsOf(pv)
      BY <1>1, Zenon DEF LinksOK
<1> HIDE DEF h
<1>3. nx1 \in [Nodes -> Nodes \cup {NULL}] /\ pv1 \in [Nodes -> Nodes \cup {NULL}]
      BY <1>1, <1>2, Zenon DEF LinksOK, AppendNext, AppendPrev
<1>4. HeadsOf(pv1) = HeadsOf(pv) \cup {q}
      BY <1>1, <1>2, NodeFacts DEF LinksOK, AppendPrev, HeadsOf
<1>5. \A n \in Nodes : nx1[n] # NULL => nx1[n] \in HeadsOf(pv) \cup {q}
      BY <1>1, <1>2, Zenon DEF LinksOK, AppendNext
<1>6. \A n \in Nodes : pv1[n] # NULL => pv1[n] \in HeadsOf(pv) \cup {q} \cup Handles
  <2>1. h \in Handles
        BY NodeFacts, Zenon DEF h
  <2> QED BY <1>1, <1>2, <2>1, Zenon DEF LinksOK, AppendPrev
<1>7. \A g \in Frames : nx1[g] # NULL => g \in HeadsOf(pv) \cup {q}
      BY <1>1, <1>2, NodeFacts, Zenon DEF LinksOK, AppendNext, HeadsOf
<1> QED BY <1>3, <1>4, <1>5, <1>6, <1>7, Zenon DEF LinksOK, h

-----------------------------------------------------------------------------
(* Sizes and alignment *)

LEMMA SizeFacts ==
  /\ MaxOrder \in Nat /\ MaxOrder >= 2 /\ NFrames \in Nat /\ CountMax \in Nat /\ CountMax > 0
  /\ \A k \in 0..MaxOrder : Size[k] \in Nat /\ Size[k] >= 1
  /\ BlockSize \in Nat /\ BlockSize >= 1
<1>1. /\ MaxOrder \in Nat /\ MaxOrder >= 2 /\ NFrames \in Nat
      /\ CountMax \in Nat /\ CountMax > 0
      BY SizeAssumption, BootAssumption
<1>2. \A k \in 0..MaxOrder : Size[k] \in Nat \ {0}
      BY SizeAssumption, Zenon
<1>3. \A k \in 0..MaxOrder : Size[k] \in Nat /\ Size[k] >= 1
      BY <1>2
<1> QED BY <1>1, <1>3 DEF BlockSize

(* The 32-bit counters stay 32-bit counters. *)
LEMMA WrapFacts ==
  ASSUME NEW n \in 0..CountMax
  PROVE  WrapInc(n) \in 0..CountMax /\ WrapDec(n) \in 0..CountMax
BY SizeFacts DEF WrapInc, WrapDec

(* Integer division, for the macros ALIGN_UP and ALIGN_DOWN. *)
LEMMA DivFacts ==
  ASSUME NEW a \in Nat, NEW b \in Nat, b >= 1
  PROVE  /\ a \div b \in Nat
         /\ (a \div b) * b \in Nat
         /\ (a \div b) * b <= a
         /\ a < (a \div b) * b + b
<1>1. a = b * (a \div b) + (a % b) /\ 0 <= a % b /\ a % b < b /\ a % b \in Int /\ a \div b \in Int
      BY SMT
<1>2. a \div b \in Nat
      BY SMT
<1> QED BY <1>1, <1>2, SMT

(* What the proof uses of the memory map. *)
LEMMA MapFacts ==
  ASSUME memmap \in MemMaps
  PROVE  /\ Len(memmap) \in Nat
         /\ \A i \in 1..(Len(memmap) - 1) : memmap[i].end <= memmap[i + 1].start
BY MemMapsAssumption, Zenon

(* Aligning an entry of the memory map shrinks it. *)
LEMMA ZoneFacts ==
  ASSUME memmap \in MemMaps, NEW z \in 1..Len(memmap)
  PROVE  /\ memmap[z].start \in Nat /\ memmap[z].end \in Nat /\ memmap[z].end <= NFrames
         /\ memmap[z].start <= memmap[z].end
         /\ ZoneStart(z) \in Nat /\ memmap[z].start <= ZoneStart(z)
         /\ ZoneEnd(z) \in Nat /\ ZoneEnd(z) <= memmap[z].end
<1>1. /\ memmap[z].start \in Nat /\ memmap[z].end \in Nat /\ memmap[z].end <= NFrames
      /\ memmap[z].start <= memmap[z].end
      BY MemMapsAssumption, SizeFacts
<1>2. ZoneEnd(z) \in Nat /\ ZoneEnd(z) <= memmap[z].end
      BY <1>1, SizeFacts, DivFacts, Zenon DEF ZoneEnd
<1>3. memmap[z].start + BlockSize - 1 \in Nat
      BY <1>1, SizeFacts
<1>4. ZoneStart(z) \in Nat /\ memmap[z].start <= ZoneStart(z)
  <2> DEFINE t == memmap[z].start + BlockSize - 1
             d == (t \div BlockSize) * BlockSize
  <2>1. d \in Nat /\ t < d + BlockSize
        BY <1>3, SizeFacts, DivFacts, Zenon
  <2> QED BY <2>1, <1>1, SizeFacts DEF ZoneStart
<1> QED BY <1>1, <1>2, <1>4, Zenon

-----------------------------------------------------------------------------
(* PM_AllocatePages, one lemma per step.  With a single CPU c is BootCPU.  *)

OneCPU == CPUs = {BootCPU}

LEMMA ScanKeeps == OneCPU /\ IInv /\ Scan(BootCPU) => IInv'
<1> SUFFICES ASSUME OneCPU, IInv, Scan(BootCPU) PROVE IInv'
    BY Zenon
<1> USE DEF IInv
<1>1. TypeOK'
  <2>0. \A m \in req[BootCPU]..MaxOrder : m \in 0..MaxOrder
        BY SizeFacts DEF OneCPU, TypeOK
  <2>1. mord' \in [CPUs -> 0..MaxOrder]
        BY <2>0, Zenon DEF TypeOK, Scan
  <2>2. page' \in [CPUs -> Frames \cup {NULL}]
        BY Zenon DEF OneCPU, TypeOK, Scan
  <2>3. pc' \in [CPUs -> Running \cup Stopped]
        BY Zenon DEF OneCPU, TypeOK, Scan, Goto, Running, Stopped
  <2> QED BY <2>1, <2>2, <2>3, Zenon DEF TypeOK, Scan, descriptors, lists, boot
<1>2. LinksOK(next, prev)' /\ BlocksOK'
      BY Zenon DEF Scan, LinksOK, HeadsOf, BlocksOK, Heads, Apart, descriptors, lists, boot
<1>3. OwnersOK'
      BY Zenon DEF OneCPU, TypeOK, Scan, Goto, OwnersOK, Given, Heads, HeadsOf, descriptors, lists, boot
<1>4. ZoneOK'
      BY Zenon DEF OneCPU, TypeOK, Scan, Goto, ZoneOK, Top, BusyCall, Loader, Callers, descriptors, lists, boot
<1> QED BY <1>1, <1>2, <1>3, <1>4, Zenon

LEMMA SelectKeeps == OneCPU /\ IInv /\ Select(BootCPU) => IInv'
<1> SUFFICES ASSUME OneCPU, IInv, Select(BootCPU) PROVE IInv'
    BY Zenon
<1> USE DEF IInv
<1>0. next[Handle(mord[BootCPU])] \in Heads \cup {NULL}
      BY NodeFacts, Zenon DEF OneCPU, TypeOK, LinksOK, Heads
<1>1. TypeOK'
      BY <1>0, Zenon DEF OneCPU, TypeOK, Select, Goto, Running, Stopped, Heads, HeadsOf, descriptors, lists, boot
<1>2. LinksOK(next, prev)' /\ BlocksOK'
      BY Zenon DEF Select, LinksOK, HeadsOf, BlocksOK, Heads, Apart, descriptors, lists, boot
<1>3. OwnersOK'
      BY <1>0, Zenon DEF OneCPU, TypeOK, Select, Goto, OwnersOK, Given, Heads, HeadsOf, descriptors, lists, boot
<1>4. ZoneOK'
      BY Zenon DEF OneCPU, TypeOK, Select, Goto, ZoneOK, Top, BusyCall, Loader, Callers, descriptors, lists, boot
<1> QED BY <1>1, <1>2, <1>3, <1>4, Zenon

LEMMA TakeKeeps == OneCPU /\ IInv /\ Take(BootCPU) => IInv'
<1> SUFFICES ASSUME OneCPU, IInv, Take(BootCPU) PROVE IInv'
    BY Zenon
<1> USE DEF IInv
<1> DEFINE p == page[BootCPU]
<1>0. /\ BootCPU \in CPUs /\ p \in Heads \cup {NULL}
      /\ p # NULL => p \in Frames
      /\ \A f \in Frames : LinksOK(RemoveNext(next, prev, f), RemovePrev(next, prev, f))
      /\ \A f \in Frames : HeadsOf(RemovePrev(next, prev, f)) = Heads
      BY RemoveKeepsLinks DEF OneCPU, OwnersOK, Take, Heads, HeadsOf
<1>1. LinksOK(next, prev)' /\ Heads' = Heads
      BY <1>0 DEF Take, LinksOK, Heads, HeadsOf, lists
<1>2. TypeOK'
  <2>1. next' \in [Nodes -> Nodes \cup {NULL}] /\ prev' \in [Nodes -> Nodes \cup {NULL}]
        BY <1>1, Zenon DEF LinksOK
  <2>2. count' \in [0..MaxOrder -> 0..CountMax]
    <3>1. WrapDec(count[mord[BootCPU]]) \in 0..CountMax
          BY <1>0, WrapFacts, Zenon DEF TypeOK
    <3> QED BY <3>1, Zenon DEF Take, TypeOK, lists
  <2> QED BY <2>1, <2>2, Zenon DEF OneCPU, TypeOK, Take, Goto, Running, Stopped, descriptors, boot, call
<1>3. BlocksOK'
      BY <1>1, Zenon DEF Take, BlocksOK, Apart, descriptors, boot
<1>4. OwnersOK'
      BY <1>0, <1>1, Zenon DEF OneCPU, TypeOK, Take, Goto, OwnersOK, Given, descriptors, call
<1>5. ZoneOK'
      BY Zenon DEF OneCPU, TypeOK, Take, Goto, ZoneOK, Top, BusyCall, Loader, Callers, boot, call
<1> QED BY <1>1, <1>2, <1>3, <1>4, <1>5, Zenon

(* A split: the upper half starts inside the block, where no other block   *)
(* starts.                                                                 *)
Whole == page[BootCPU]
Half  == order[Whole] - 1
Upper == Whole + Size[Half]

LEMMA SplitFacts ==
  ASSUME OneCPU, IInv, PM_ExpandPage(BootCPU), order[Whole] # 0
  PROVE  /\ BootCPU \in CPUs /\ Whole \in Heads /\ Whole \notin Given /\ Whole \in Frames /\ Whole \in Nat
         /\ order[Whole] \in 0..MaxOrder /\ mord[BootCPU] \in 0..MaxOrder
         /\ req[BootCPU] \in 0..(MaxOrder + 1) /\ mord[BootCPU] > req[BootCPU]
         /\ Half \in 0..MaxOrder /\ Half + 1 = order[Whole]
         /\ Size[Half] \in Nat /\ Size[Half] >= 1 /\ Size[order[Whole]] = Size[Half] + Size[Half]
         /\ Upper \in loaded /\ Upper \in Frames /\ Upper \notin Heads /\ Upper # Whole
         /\ order' = [order EXCEPT ![Whole] = Half, ![Upper] = Half]
         /\ addr' = [addr EXCEPT ![Upper] = addr[Whole] + Size[Half]]
         /\ free' = [free EXCEPT ![Upper] = TRUE]
         /\ next' = AppendNext(RemoveNext(next, prev, Whole), RemovePrev(next, prev, Whole), Handle(Half), Upper)
         /\ prev' = AppendPrev(RemoveNext(next, prev, Whole), RemovePrev(next, prev, Whole), Handle(Half), Upper)
         /\ count' = [count EXCEPT ![Half] = WrapInc(@)]
         /\ mord' = [mord EXCEPT ![BootCPU] = @ - 1]
         /\ UNCHANGED <<pc, boot, req, page, caller, given, asked>>
         /\ LinksOK(next, prev)' /\ Heads' = Heads \cup {Upper}
<1>0. /\ BootCPU \in CPUs /\ Whole \in Heads /\ Whole \notin Given /\ Whole \in Frames
      /\ order[Whole] \in 0..MaxOrder /\ mord[BootCPU] \in 0..MaxOrder /\ req[BootCPU] \in 0..(MaxOrder + 1)
      BY Zenon DEF OneCPU, IInv, OwnersOK, PM_ExpandPage, TypeOK, Heads, HeadsOf, Whole
<1>1. /\ order' = [order EXCEPT ![Whole] = Half, ![Upper] = Half]
      /\ addr' = [addr EXCEPT ![Upper] = addr[Whole] + Size[Half]]
      /\ free' = [free EXCEPT ![Upper] = TRUE]
      /\ next' = AppendNext(RemoveNext(next, prev, Whole), RemovePrev(next, prev, Whole), Handle(Half), Upper)
      /\ prev' = AppendPrev(RemoveNext(next, prev, Whole), RemovePrev(next, prev, Whole), Handle(Half), Upper)
      /\ count' = [count EXCEPT ![Half] = WrapInc(@)]
      /\ mord' = [mord EXCEPT ![BootCPU] = @ - 1]
      /\ UNCHANGED <<pc, boot, req, page, caller, given, asked>>
      /\ mord[BootCPU] > req[BootCPU]
      BY Zenon DEF PM_ExpandPage, Whole, Half, Upper
<1>2. /\ Half \in 0..MaxOrder /\ Half + 1 = order[Whole] /\ Size[Half] \in Nat /\ Size[Half] >= 1
      /\ Size[order[Whole]] = Size[Half] + Size[Half] /\ Whole \in Nat
  <2>1. Half \in 0..MaxOrder /\ order[Whole] \in 1..MaxOrder /\ Whole \in Nat /\ Half + 1 = order[Whole]
        BY <1>0, SizeFacts DEF Frames, Half
  <2>2. Size[order[Whole]] = Size[Half] + Size[Half]
        BY <2>1, SizeAssumption, Zenon DEF Half
  <2> QED BY <2>1, <2>2, SizeFacts, Zenon
<1>3. Upper \in loaded /\ Upper \in Frames /\ Upper # Whole
  <2>1. Upper \in Whole..(Whole + Size[order[Whole]] - 1) /\ Upper # Whole
        BY <1>2 DEF Upper
  <2> QED BY <2>1, <1>0, Zenon DEF IInv, BlocksOK, TypeOK
<1>4. Upper \notin Heads
  <2> SUFFICES ASSUME Upper \in Heads PROVE FALSE
      BY Zenon
  <2>1. order[Upper] \in 0..MaxOrder /\ Size[order[Upper]] \in Nat /\ Size[order[Upper]] >= 1
        BY <1>3, SizeFacts, Zenon DEF IInv, TypeOK
  <2>2. Apart(Whole, Upper)
        BY <1>0, <1>3, Zenon DEF IInv, BlocksOK
  <2> QED BY <2>1, <2>2, <1>2 DEF Apart, Upper
<1> DEFINE n1 == RemoveNext(next, prev, Whole)
           p1 == RemovePrev(next, prev, Whole)
<1>5. LinksOK(n1, p1) /\ HeadsOf(p1) = Heads
      BY <1>0, RemoveKeepsLinks, Zenon DEF IInv, Heads
<1>6. LinksOK(next, prev)' /\ Heads' = Heads \cup {Upper}
      BY <1>1, <1>2, <1>3, <1>4, <1>5, AppendKeepsLinks DEF LinksOK, Heads, HeadsOf
<1> QED BY <1>0, <1>1, <1>2, <1>3, <1>4, <1>6, Zenon

(* Both halves together are the block. *)
LEMMA ExpandKeeps == OneCPU /\ IInv /\ PM_ExpandPage(BootCPU) => IInv'
<1> SUFFICES ASSUME OneCPU, IInv, PM_ExpandPage(BootCPU) PROVE IInv'
    BY Zenon
<1> DEFINE p == Whole
           k == Half
           q == Upper
<1>1. CASE order[p] = 0
  <2>0. BootCPU \in CPUs /\ p \in Heads /\ p \notin Given
        BY Zenon DEF OneCPU, IInv, OwnersOK, PM_ExpandPage, Whole
  <2>1. /\ UNCHANGED <<descriptors, lists, boot, req, mord, page, caller, given, asked>>
        /\ pc' = [pc EXCEPT ![BootCPU] = "fault"]
        BY <1>1, Zenon DEF PM_ExpandPage, Goto, Whole
  <2>2. TypeOK'
        BY <2>1, <2>0, Zenon DEF IInv, TypeOK, Running, Stopped, descriptors, lists, boot
  <2>3. LinksOK(next, prev)' /\ BlocksOK'
        BY <2>1, Zenon DEF IInv, LinksOK, HeadsOf, BlocksOK, Heads, Apart, descriptors, lists, boot
  <2>4. OwnersOK' /\ ZoneOK'
        BY <2>1, <2>0, Zenon DEF OneCPU, IInv, TypeOK, OwnersOK, ZoneOK, Given, Heads, HeadsOf, BusyCall, descriptors, lists, boot
  <2> QED BY <2>2, <2>3, <2>4, Zenon DEF IInv
<1>2. CASE order[p] # 0
  <2>1. /\ order' = [order EXCEPT ![p] = k, ![q] = k]
        /\ addr' = [addr EXCEPT ![q] = addr[p] + Size[k]]
        /\ free' = [free EXCEPT ![q] = TRUE]
        /\ count' = [count EXCEPT ![k] = WrapInc(@)]
        /\ mord' = [mord EXCEPT ![BootCPU] = @ - 1]
        /\ UNCHANGED <<pc, boot, req, page, caller, given, asked>>
        /\ mord[BootCPU] > req[BootCPU]
        BY <1>2, SplitFacts, Zenon
  <2>0. /\ BootCPU \in CPUs /\ p \in Heads /\ p \notin Given /\ p \in Frames
        /\ order[p] \in 0..MaxOrder /\ mord[BootCPU] \in 0..MaxOrder /\ req[BootCPU] \in 0..(MaxOrder + 1)
        BY <1>2, SplitFacts, Zenon
  <2>2. /\ k \in 0..MaxOrder /\ Size[k] \in Nat /\ Size[k] >= 1
        /\ Size[order[p]] = Size[k] + Size[k] /\ p \in Nat
        BY <1>2, SplitFacts, Zenon
  <2>3. q \in loaded /\ q \in Frames /\ p # q
        BY <1>2, SplitFacts, Zenon
  <2>4. q \notin Heads
        BY <1>2, SplitFacts, Zenon
  <2>6. LinksOK(next, prev)' /\ Heads' = Heads \cup {q}
        BY <1>2, SplitFacts, Zenon
  <2> HIDE DEF p, k, q
  <2>7. TypeOK'
    <3>1. next' \in [Nodes -> Nodes \cup {NULL}] /\ prev' \in [Nodes -> Nodes \cup {NULL}]
          BY <2>6, Zenon DEF LinksOK
    <3>2. order' \in [Frames -> 0..MaxOrder] /\ free' \in [Frames -> BOOLEAN]
          BY <2>1, <2>2, Zenon DEF IInv, TypeOK
    <3>3. addr' \in [Frames -> Nat]
      <4>0. addr[p] \in Nat
            BY <2>0, Zenon DEF IInv, TypeOK
      <4>1. addr[p] + Size[k] \in Nat
            BY <4>0, <2>2
      <4> QED BY <4>1, <2>1, Zenon DEF IInv, TypeOK
    <3>4. count' \in [0..MaxOrder -> 0..CountMax]
      <4>1. WrapInc(count[k]) \in 0..CountMax
            BY <2>2, WrapFacts, Zenon DEF IInv, TypeOK
      <4> QED BY <4>1, <2>1, Zenon DEF IInv, TypeOK
    <3>5. mord' \in [CPUs -> 0..MaxOrder]
      <4>1. mord[BootCPU] - 1 \in 0..MaxOrder
            BY <2>0, <2>1, SizeFacts
      <4> QED BY <4>1, <2>1, Zenon DEF IInv, TypeOK
    <3> QED BY <3>1, <3>2, <3>3, <3>4, <3>5, <2>1, Zenon DEF IInv, TypeOK, boot
  <2>8. BlocksOK'
    <3>1. /\ order'[p] = k /\ order'[q] = k /\ p # q /\ q = p + Size[k]
          /\ \A f \in Heads : f # p => order'[f] = order[f] /\ f # q
      <4>1. p # q /\ q = p + Size[k]
            BY <2>3, Zenon DEF p, q, k, Upper
      <4> QED BY <4>1, <2>1, <2>3, <2>4, <2>0, Zenon DEF IInv, TypeOK, Heads, HeadsOf
    <3>2. \A f \in Heads : f \in Nat /\ order[f] \in 0..MaxOrder /\ Size[order[f]] \in Nat /\ Size[order[f]] >= 1
      <4>1. \A f \in Heads : f \in Frames /\ order[f] \in 0..MaxOrder
            BY Zenon DEF Heads, HeadsOf, IInv, TypeOK
      <4>2. \A f \in Frames : f \in Nat
            BY SizeFacts DEF Frames
      <4> QED BY <4>1, <4>2, SizeFacts, Zenon
    <3>3. \A x \in p..(p + Size[order[p]] - 1) : x \in loaded
          BY <2>0, Zenon DEF IInv, BlocksOK
    <3>4. \A f \in Heads' : \A x \in f..(f + Size[order'[f]] - 1) : x \in loaded'
      <4> SUFFICES ASSUME NEW f \in Heads', NEW x \in f..(f + Size[order'[f]] - 1)
                   PROVE  x \in loaded
          BY <2>1, Zenon DEF boot
      <4>1. CASE f \in {p, q}
            BY <4>1, <3>1, <3>3, <2>2
      <4>2. CASE f \in Heads /\ f # p
            BY <4>2, <3>1, Zenon DEF IInv, BlocksOK
      <4> QED BY <4>1, <4>2, <2>6, Zenon
    <3>5. \A f, g \in Heads' : f # g => Apart(f, g)'
      <4> DEFINE Apart1(f, g) == f + Size[order'[f]] <= g \/ g + Size[order'[g]] <= f
      <4>1. \A f \in Heads : f # p => f + Size[order[f]] <= p \/ p + Size[order[p]] <= f
            BY <2>0, Zenon DEF IInv, BlocksOK, Apart
      <4>2. \A f, g \in Heads : f # g /\ f # p /\ g # p => Apart1(f, g)
            BY <3>1, Zenon DEF IInv, BlocksOK, Apart
      <4>3. \A f \in Heads : f # p => Apart1(f, p) /\ Apart1(p, f) /\ Apart1(f, q) /\ Apart1(q, f)
        <5> TAKE f \in Heads
        <5> HAVE f # p
        <5>1. f + Size[order[f]] <= p \/ p + Size[k] + Size[k] <= f
              BY <4>1, <2>2
        <5>2. f \in Nat /\ Size[order[f]] \in Nat /\ order'[f] = order[f]
              BY <3>1, <3>2, Zenon
        <5> QED BY <5>1, <5>2, <3>1, <2>2
      <4>4. Apart1(p, q) /\ Apart1(q, p)
            BY <3>1, <2>2
      <4>5. \A f, g \in Heads \cup {q} : f # g => Apart1(f, g)
            BY <4>2, <4>3, <4>4, Zenon
      <4> QED BY <4>5, <2>6, Zenon DEF Apart
    <3> QED BY <3>4, <3>5, Zenon DEF BlocksOK
  <2>9. OwnersOK'
    <3>1. Given' = Given /\ q \notin Given
          BY <2>1, <2>4, Zenon DEF Given, IInv, OwnersOK
    <3> QED BY <3>1, <2>1, <2>3, <2>6, <2>0, Zenon DEF OneCPU, p, Whole, IInv, OwnersOK, PM_ExpandPage, TypeOK, Heads, HeadsOf, Given
  <2>10. ZoneOK'
         BY <2>1, Zenon DEF IInv, ZoneOK, Top, boot
  <2> QED BY <2>6, <2>7, <2>8, <2>9, <2>10, Zenon DEF IInv
<1> QED BY <1>1, <1>2, Zenon

LEMMA FinishKeeps == OneCPU /\ IInv /\ Finish(BootCPU) => IInv'
<1> SUFFICES ASSUME OneCPU, IInv, Finish(BootCPU) PROVE IInv'
    BY Zenon
<1> USE DEF IInv
<1>0. /\ BootCPU \in CPUs
      /\ page[BootCPU] \in Heads /\ page[BootCPU] \in Frames
      /\ req[BootCPU] \in 0..MaxOrder
      BY Zenon DEF OneCPU, OwnersOK, Finish, Heads, HeadsOf, TypeOK
<1>1. TypeOK'
      BY <1>0, Zenon DEF TypeOK, Finish, Goto, Running, Stopped, lists, call, boot
<1>2. LinksOK(next, prev)' /\ BlocksOK'
      BY Zenon DEF Finish, LinksOK, HeadsOf, BlocksOK, Heads, Apart, lists, boot
<1>3. OwnersOK'
      BY <1>0, Zenon DEF OneCPU, TypeOK, Finish, Goto, OwnersOK, Given, Heads, HeadsOf, lists, call
<1>4. ZoneOK'
      BY <1>0, Zenon DEF OneCPU, TypeOK, Finish, Goto, ZoneOK, Top, BusyCall, Loader, Callers, call, boot
<1> QED BY <1>1, <1>2, <1>3, <1>4, Zenon

-----------------------------------------------------------------------------
(* The callers after boot *)

LEMMA AllocateKeeps == OneCPU /\ IInv /\ PM_AllocatePages(BootCPU) => IInv'
<1> SUFFICES ASSUME OneCPU, IInv, PM_AllocatePages(BootCPU) PROVE IInv'
    BY Zenon
<1> USE DEF IInv, Call, Goto
<1>0. BootCPU \in CPUs /\ zone = Len(memmap) + 2 /\ Len(memmap) \in Nat
      BY MapFacts DEF OneCPU, PM_AllocatePages, Booted
<1>1. TypeOK'
  <2>1. req' \in [CPUs -> 0..(MaxOrder + 1)]
        BY <1>0 DEF TypeOK, PM_AllocatePages
  <2>2. caller' \in [CPUs -> Callers] /\ pc' \in [CPUs -> Running \cup Stopped]
        BY <1>0, Zenon DEF TypeOK, PM_AllocatePages, Running, Callers
  <2> QED BY <2>1, <2>2, Zenon DEF TypeOK, PM_AllocatePages, descriptors, lists, boot
<1>2. LinksOK(next, prev)' /\ BlocksOK'
      BY Zenon DEF PM_AllocatePages, LinksOK, HeadsOf, BlocksOK, Heads, Apart, descriptors, lists, boot
<1>3. OwnersOK'
      BY <1>0, Zenon DEF OneCPU, TypeOK, PM_AllocatePages, OwnersOK, Given, Heads, HeadsOf, descriptors, lists
<1>4. ZoneOK'
  <2>1. zone' = Len(memmap) + 2 /\ memmap' = memmap /\ pc'[BootCPU] = "scan" /\ caller'[BootCPU] = "client"
        BY <1>0, Zenon DEF TypeOK, PM_AllocatePages, boot
  <2> QED BY <2>1, <1>0 DEF ZoneOK, Loader
<1> QED BY <1>1, <1>2, <1>3, <1>4, Zenon

LEMMA FreeKeeps == OneCPU /\ IInv /\ PM_FreePages(BootCPU) => IInv'
<1> SUFFICES ASSUME OneCPU, IInv, PM_FreePages(BootCPU) PROVE IInv'
    BY Zenon
<1> USE DEF IInv, Goto
<1>0. BootCPU \in CPUs
      BY Zenon DEF OneCPU
<1>1. TypeOK'
      BY <1>0, Zenon DEF TypeOK, PM_FreePages, Running, Stopped, lists, call, boot
<1>2. LinksOK(next, prev)' /\ BlocksOK'
      BY Zenon DEF PM_FreePages, LinksOK, HeadsOf, BlocksOK, Heads, Apart, lists, boot
<1>3. OwnersOK'
      BY <1>0 DEF OneCPU, TypeOK, PM_FreePages, OwnersOK, Given, Heads, HeadsOf, lists, call
<1>4. ZoneOK'
      BY <1>0, Zenon DEF TypeOK, PM_FreePages, ZoneOK, BusyCall
<1> QED BY <1>1, <1>2, <1>3, <1>4, Zenon


-----------------------------------------------------------------------------
(* Loading memory *)

(* write_pages of a block above every loaded frame. *)
LEMMA WriteKeeps ==
  ASSUME IInv, NEW b \in Nat, write_pages(b), UNCHANGED given,
         b + BlockSize <= NFrames, \A x \in loaded : x < b
  PROVE  /\ order' \in [Frames -> 0..MaxOrder]
         /\ free' \in [Frames -> BOOLEAN]
         /\ addr' \in [Frames -> Nat]
         /\ count' \in [0..MaxOrder -> 0..CountMax]
         /\ loaded' \subseteq Frames
         /\ \A x \in loaded' : x < b + BlockSize
         /\ LinksOK(next, prev)' /\ BlocksOK'
         /\ \A f \in Given' : f \in Heads' /\ ~free'[f]
         /\ Heads' = Heads \cup {b} /\ b \notin Heads /\ b \in Frames /\ order'[b] = MaxOrder
         /\ \A f \in Heads : f \notin Block(b, MaxOrder) /\ f # b /\ order'[f] = order[f]
<1>0. /\ b \in Frames /\ Block(b, MaxOrder) = b..(b + BlockSize - 1)
      /\ Block(b, MaxOrder) \subseteq Frames
      BY SizeFacts DEF Block, BlockSize, Frames
<1>1. \A f \in Heads : /\ f \in Nat /\ f \in Frames /\ order[f] \in 0..MaxOrder
                       /\ Size[order[f]] \in Nat /\ Size[order[f]] >= 1
                       /\ f \in loaded /\ f < b
                       /\ f + Size[order[f]] - 1 \in loaded
                       /\ f + Size[order[f]] <= b
  <2> TAKE f \in Heads
  <2>0. f \in Frames /\ order[f] \in 0..MaxOrder
        BY Zenon DEF Heads, HeadsOf, IInv, TypeOK
  <2>1. f \in Nat /\ f \in Frames /\ order[f] \in 0..MaxOrder /\ Size[order[f]] \in Nat /\ Size[order[f]] >= 1
        BY <2>0, SizeFacts DEF Frames
  <2>2. f \in loaded /\ f + Size[order[f]] - 1 \in loaded
    <3>1. f \in f..(f + Size[order[f]] - 1) /\ f + Size[order[f]] - 1 \in f..(f + Size[order[f]] - 1)
          BY <2>1
    <3> QED BY <3>1, Zenon DEF IInv, BlocksOK
  <2> DEFINE n == Size[order[f]]
  <2>3. f < b /\ f + n - 1 < b
        BY <2>2, Zenon
  <2> HIDE DEF n
  <2>4. n \in Nat => f + n <= b
        BY <2>1, <2>3
  <2> QED BY <2>1, <2>2, <2>3, <2>4, Zenon DEF n
<1>2. b \notin Heads
      BY <1>1
<1>3. LinksOK(next, prev)' /\ Heads' = Heads \cup {b}
  <2>1. MaxOrder - 1 \in 0..MaxOrder
        BY SizeFacts
  <2>2. /\ next' = AppendNext(next, prev, Handle(MaxOrder - 1), b)
        /\ prev' = AppendPrev(next, prev, Handle(MaxOrder - 1), b)
        BY Zenon DEF write_pages
  <2>3. LinksOK(next', prev') /\ HeadsOf(prev') = HeadsOf(prev) \cup {b}
        BY <2>1, <2>2, <1>0, <1>2, AppendKeepsLinks DEF IInv, Heads
  <2> QED BY <2>3, Zenon DEF LinksOK, Heads, HeadsOf
<1>4. /\ order' \in [Frames -> 0..MaxOrder] /\ order'[b] = MaxOrder
      /\ \A f \in Heads : order'[f] = order[f]
  <2>1. MaxOrder \in 0..MaxOrder
        BY SizeFacts
  <2> QED BY <2>1, <1>0, <1>1, <1>2, Zenon DEF IInv, TypeOK, write_pages
<1>5. free' \in [Frames -> BOOLEAN]
      BY Zenon DEF IInv, TypeOK, write_pages
<1>6. addr' \in [Frames -> Nat]
  <2>1. \A f \in Frames : f \in Nat
        BY SizeFacts DEF Frames
  <2> QED BY <2>1, Zenon DEF IInv, TypeOK, write_pages
<1>7. count' \in [0..MaxOrder -> 0..CountMax]
  <2>1. WrapInc(count[MaxOrder - 1]) \in 0..CountMax
    <3>1. MaxOrder - 1 \in 0..MaxOrder
          BY SizeFacts
    <3> QED BY <3>1, WrapFacts, Zenon DEF IInv, TypeOK
  <2> QED BY <2>1, Zenon DEF IInv, TypeOK, write_pages
<1>8. loaded' \subseteq Frames /\ loaded' = loaded \cup (b..(b + BlockSize - 1))
      BY <1>0, Zenon DEF IInv, TypeOK, write_pages
<1>9. \A x \in loaded' : x < b + BlockSize
  <2>1. \A x \in loaded : x \in Int
        BY SizeFacts DEF IInv, TypeOK, Frames
  <2>2. \A x \in loaded : x < b + BlockSize
        BY <2>1, SizeFacts
  <2> QED BY <1>8, <2>2, SizeFacts
<1>10. BlocksOK'
  <2>1. \A f \in Heads' : \A x \in f..(f + Size[order'[f]] - 1) : x \in loaded'
        BY <1>3, <1>4, <1>8, Zenon DEF IInv, BlocksOK, BlockSize
  <2>2. \A f, g \in Heads' : f # g => Apart(f, g)'
        BY <1>1, <1>3, <1>4 DEF IInv, BlocksOK, Apart
  <2> QED BY <2>1, <2>2, Zenon DEF BlocksOK
<1>11. \A f \in Given' : f \in Heads' /\ ~free'[f]
  <2>1. \A f \in Given : f \in Heads /\ ~free[f] /\ f \notin Block(b, MaxOrder)
        BY <1>0, <1>1, SizeFacts DEF IInv, OwnersOK
  <2> QED BY <2>1, <1>1, <1>3, Zenon DEF write_pages, Given
<1>12. \A f \in Heads : f \notin Block(b, MaxOrder)
       BY <1>0, <1>1, SizeFacts
<1> QED BY <1>0, <1>2, <1>3, <1>4, <1>5, <1>6, <1>7, <1>8, <1>9, <1>10, <1>11, <1>12, Zenon

(* What ZoneOK says to a step that is about to write a block. *)
LEMMA BlockAhead ==
  ASSUME OneCPU, IInv, pc[BootCPU] = "back", caller[BootCPU] \in Loader
  PROVE  /\ BootCPU \in CPUs /\ memmap \in MemMaps /\ current \in Nat /\ zone \in 1..Len(memmap)
         /\ current + BlockSize <= memmap[zone].end /\ current + BlockSize <= NFrames
         /\ caller[BootCPU] \in {"space", "desc", "descTable"} => \A x \in loaded : x < current
         /\ caller[BootCPU] \in {"first", "firstTable"} => \A x \in loaded : x < current + BlockSize
         /\ \A x \in loaded : x \in Int /\ x < memmap[zone].end
<1>1. /\ BootCPU \in CPUs /\ memmap \in MemMaps /\ current \in Nat /\ zone \in 1..Len(memmap)
      /\ current + BlockSize <= memmap[zone].end
      BY MapFacts DEF OneCPU, IInv, TypeOK, ZoneOK, BusyCall
<1>2. current + BlockSize <= NFrames
      BY <1>1, ZoneFacts, SizeFacts
<1>3. \A x \in loaded : x < Top /\ x < memmap[zone].end
      BY <1>1, Zenon DEF IInv, ZoneOK, BusyCall
<1>4. \A x \in loaded : x \in Int
      BY SizeFacts DEF IInv, TypeOK, Frames
<1> QED BY <1>1, <1>2, <1>3, <1>4, Zenon DEF Top, BusyCall

LEMMA LoadKeeps == OneCPU /\ IInv /\ LoadBlock => IInv'
<1> SUFFICES ASSUME OneCPU, IInv, LoadBlock PROVE IInv'
    BY Zenon
<1>0. /\ BootCPU \in CPUs /\ memmap \in MemMaps /\ zone \in 1..Len(memmap) /\ Len(memmap) \in Nat /\ current \in Nat
      /\ pc[BootCPU] = "load"
      /\ UNCHANGED <<descriptors, lists, tables, loaded, desc, memmap, given, asked>>
      BY MapFacts DEF OneCPU, IInv, TypeOK, LoadBlock
<1>1. \A x \in loaded : x \in Int /\ x < current /\ x < memmap[zone].end
      BY <1>0, SizeFacts DEF IInv, ZoneOK, Top, BusyCall, TypeOK, Frames
<1>2. LinksOK(next, prev)' /\ BlocksOK'
      BY <1>0, Zenon DEF IInv, LinksOK, HeadsOf, BlocksOK, Heads, Apart, descriptors, lists
<1>3. CASE /\ zone' = zone + 1 /\ current' = FirstFrame(zone + 1)
           /\ UNCHANGED <<call, pc>>
  <2>1. FirstFrame(zone + 1) \in Nat
    <3>1. CASE zone + 1 <= Len(memmap)
      <4>1. zone + 1 \in 1..Len(memmap)
            BY <1>0, <3>1
      <4> QED BY <1>0, <4>1, <3>1, ZoneFacts, Zenon DEF FirstFrame
    <3>2. CASE ~(zone + 1 <= Len(memmap))
          BY <3>2, Zenon DEF FirstFrame
    <3> QED BY <3>1, <3>2, Zenon
  <2>2. TypeOK'
    <3>1. zone + 1 \in 1..(Len(memmap) + 2)
          BY <1>0
    <3> QED BY <1>0, <1>3, <2>1, <3>1, Zenon DEF IInv, TypeOK, descriptors, lists, call
  <2>3. OwnersOK'
        BY <1>0, <1>3, Zenon DEF OneCPU, IInv, OwnersOK, Given, Heads, HeadsOf, descriptors, lists, call
  <2>4. ASSUME zone + 1 <= Len(memmap), NEW x \in loaded
        PROVE  x < FirstFrame(zone + 1) /\ x < memmap[zone + 1].end
    <3>1. memmap[zone].end <= memmap[zone + 1].start
          BY <1>0, <2>4, MapFacts
    <3>2. /\ memmap[zone + 1].start \in Nat /\ memmap[zone + 1].end \in Nat
          /\ memmap[zone + 1].start <= memmap[zone + 1].end
          /\ ZoneStart(zone + 1) \in Nat /\ memmap[zone + 1].start <= ZoneStart(zone + 1)
          /\ memmap[zone].end \in Nat
          BY <1>0, <2>4, ZoneFacts
    <3> QED BY <1>1, <2>4, <3>1, <3>2 DEF FirstFrame
  <2>5. ZoneOK'
        BY <1>0, <1>3, <2>4, Zenon DEF ZoneOK, Top, BusyCall, call
  <2> QED BY <1>2, <2>2, <2>3, <2>5, Zenon DEF IInv
<1>4. CASE /\ ZoneStart(zone) < ZoneEnd(zone) /\ current < ZoneEnd(zone) - BlockSize
           /\ Call(BootCPU, DescOrder, "space")
           /\ UNCHANGED <<zone, current>>
  <2> USE DEF Call, Goto
  <2>1. TypeOK'
    <3>1. DescOrder \in 0..(MaxOrder + 1)
          BY BootAssumption, SizeFacts
    <3> QED BY <1>0, <1>4, <3>1, Zenon DEF IInv, TypeOK, Running, Callers, Loader, descriptors, lists
  <2>2. OwnersOK'
        BY <1>0, <1>4, Zenon DEF OneCPU, IInv, TypeOK, OwnersOK, Given, Heads, HeadsOf, descriptors, lists
  <2>3. current + BlockSize <= memmap[zone].end
    <3> DEFINE e == memmap[zone].end
               z == ZoneEnd(zone)
    <3>1. e \in Nat /\ z \in Nat /\ z <= e
          BY <1>0, ZoneFacts, Zenon
    <3>2. current < z - BlockSize
          BY <1>4, Zenon
    <3> HIDE DEF e, z
    <3>3. current + BlockSize <= e
          BY <1>0, <3>1, <3>2, SizeFacts
    <3> QED BY <3>3, Zenon DEF e
  <2>4. pc'[BootCPU] = "scan" /\ caller'[BootCPU] = "space"
        BY <1>0, <1>4, Zenon DEF IInv, TypeOK
  <2>5. ZoneOK'
        BY <1>0, <1>1, <1>4, <2>3, <2>4 DEF ZoneOK, Top, BusyCall, Loader
  <2> QED BY <1>2, <2>1, <2>2, <2>5, Zenon DEF IInv
<1>5. CASE Goto(BootCPU, "spin") /\ UNCHANGED <<zone, current, call>>
  <2> USE DEF Goto
  <2>1. TypeOK'
        BY <1>0, <1>5, Zenon DEF IInv, TypeOK, Stopped, Running, descriptors, lists, call
  <2>2. OwnersOK' /\ ZoneOK'
        BY <1>0, <1>5, Zenon DEF OneCPU, IInv, TypeOK, OwnersOK, ZoneOK, BusyCall, Given, Heads, HeadsOf, descriptors, lists, call
  <2> QED BY <1>2, <2>1, <2>2, Zenon DEF IInv
<1> QED BY <1>3, <1>4, <1>5, Zenon DEF LoadBlock

LEMMA BootstrapKeeps == OneCPU /\ IInv /\ Bootstrap => IInv'
<1> SUFFICES ASSUME OneCPU, IInv, Bootstrap PROVE IInv'
    BY Zenon
<1> USE DEF Call, Goto
<1>0. /\ pc[BootCPU] = "back" /\ caller[BootCPU] = "space" /\ caller[BootCPU] \in Loader
      /\ write_pages(current) /\ Call(BootCPU, DescOrder, "first")
      /\ UNCHANGED <<zone, current, tables, desc, memmap, given, asked>>
      BY Zenon DEF Bootstrap, Loader
<1>1. /\ BootCPU \in CPUs /\ memmap \in MemMaps /\ current \in Nat /\ zone \in 1..Len(memmap)
      /\ current + BlockSize <= memmap[zone].end /\ current + BlockSize <= NFrames
      /\ \A x \in loaded : x < current
      BY <1>0, BlockAhead, Zenon
<1>2. /\ order' \in [Frames -> 0..MaxOrder] /\ free' \in [Frames -> BOOLEAN]
      /\ addr' \in [Frames -> Nat] /\ count' \in [0..MaxOrder -> 0..CountMax]
      /\ loaded' \subseteq Frames
      /\ \A x \in loaded' : x < current + BlockSize
      /\ LinksOK(next, prev)' /\ BlocksOK'
      /\ \A f \in Given' : f \in Heads' /\ ~free'[f]
      BY <1>0, <1>1, WriteKeeps, Zenon
<1>3. pc'[BootCPU] = "scan" /\ caller'[BootCPU] = "first"
      BY <1>0, <1>1, Zenon DEF IInv, TypeOK
<1>4. TypeOK'
  <2>1. DescOrder \in 0..(MaxOrder + 1)
        BY BootAssumption, SizeFacts
  <2>2. next' \in [Nodes -> Nodes \cup {NULL}] /\ prev' \in [Nodes -> Nodes \cup {NULL}]
        BY <1>2, Zenon DEF LinksOK
  <2> QED BY <1>0, <1>1, <1>2, <2>1, <2>2, Zenon DEF IInv, TypeOK, Running, Callers, Loader
<1>5. OwnersOK'
      BY <1>2, <1>3, Zenon DEF OneCPU, OwnersOK
<1>6. ZoneOK'
  <2> DEFINE e == memmap[zone].end
  <2>1. e \in Nat /\ current + BlockSize <= e
        BY <1>1, ZoneFacts, Zenon
  <2>2. \A x \in loaded' : x \in Int
        BY <1>2, SizeFacts DEF Frames
  <2> HIDE DEF e
  <2>3. \A x \in loaded' : x < e
        BY <1>1, <1>2, <2>1, <2>2, SizeFacts
  <2> QED BY <1>0, <1>1, <1>2, <1>3, <2>3 DEF ZoneOK, Top, BusyCall, Loader, e
<1> QED BY <1>2, <1>4, <1>5, <1>6, Zenon DEF IInv

LEMMA AgainKeeps == OneCPU /\ IInv /\ AllocateAgain => IInv'
<1> SUFFICES ASSUME OneCPU, IInv, AllocateAgain PROVE IInv'
    BY Zenon
<1> USE DEF IInv, Call, Goto, AllocateAgain
<1>0. BootCPU \in CPUs /\ DescOrder \in 0..(MaxOrder + 1)
      BY BootAssumption, SizeFacts DEF OneCPU
<1>1. TypeOK'
      BY <1>0, Zenon DEF TypeOK, Running, Callers, Loader, descriptors, lists, boot
<1>2. LinksOK(next, prev)' /\ BlocksOK'
      BY Zenon DEF LinksOK, HeadsOf, BlocksOK, Heads, Apart, descriptors, lists, boot
<1>3. OwnersOK'
      BY <1>0, Zenon DEF OneCPU, TypeOK, OwnersOK, Given, Heads, HeadsOf, descriptors, lists
<1>4. ZoneOK'
      BY <1>0, Zenon DEF TypeOK, ZoneOK, Top, BusyCall, Loader, boot
<1> QED BY <1>1, <1>2, <1>3, <1>4, Zenon

LEMMA NoPageKeeps == OneCPU /\ IInv /\ NoPage => IInv'
<1> SUFFICES ASSUME OneCPU, IInv, NoPage PROVE IInv'
    BY Zenon
<1> USE DEF IInv, Goto, NoPage
<1>0. BootCPU \in CPUs
      BY Zenon DEF OneCPU
<1>1. TypeOK'
      BY <1>0, Zenon DEF TypeOK, Stopped, descriptors, lists, call, boot
<1>2. LinksOK(next, prev)' /\ BlocksOK'
      BY Zenon DEF LinksOK, HeadsOf, BlocksOK, Heads, Apart, descriptors, lists, boot
<1>3. OwnersOK' /\ ZoneOK'
      BY <1>0, Zenon DEF OneCPU, TypeOK, OwnersOK, ZoneOK, BusyCall, Given, Heads, HeadsOf, descriptors, lists, call
<1> QED BY <1>1, <1>2, <1>3, Zenon

(* The frames of a block and the number of a page table are numbers. *)
LEMMA MapTypes ==
  ASSUME IInv, NEW f \in Nat
  PROVE  Block(f, DescOrder) \subseteq Nat /\ Table \in Nat
<1>1. /\ DescOrder \in 0..MaxOrder /\ BlocksPerTable \in Nat /\ BlocksPerTable >= 1
      /\ current \in Nat
      BY BootAssumption DEF IInv, TypeOK
<1>2. Size[DescOrder] \in Nat
      BY <1>1, SizeFacts, Zenon
<1>3. Block(f, DescOrder) \subseteq Nat
      BY <1>2 DEF Block
<1>4. current \div BlockSize \in Nat
      BY <1>1, SizeFacts, DivFacts, Zenon
<1>5. Table \in Nat
      BY <1>1, <1>4, DivFacts, Zenon DEF Table
<1> QED BY <1>3, <1>5, Zenon

LEMMA MapOwnKeeps == OneCPU /\ IInv /\ MapOwnFrames => IInv'
<1> SUFFICES ASSUME OneCPU, IInv, MapOwnFrames PROVE IInv'
    BY Zenon
<1> USE DEF Call, Goto
<1>0. /\ pc[BootCPU] = "back" /\ caller[BootCPU] = "first" /\ caller[BootCPU] \in Loader
      /\ desc' = desc \cup Block(current, DescOrder) /\ tables' = tables \cup {Table}
      /\ UNCHANGED <<descriptors, lists, zone, loaded, memmap, given, asked>>
      BY Zenon DEF MapOwnFrames, Loader
<1>1. /\ BootCPU \in CPUs /\ memmap \in MemMaps /\ current \in Nat /\ zone \in 1..Len(memmap)
      /\ current + BlockSize <= memmap[zone].end
      /\ \A x \in loaded : x < current + BlockSize /\ x < memmap[zone].end
      BY <1>0, BlockAhead, Zenon
<1>2. desc' \subseteq Nat /\ tables' \subseteq Nat
      BY <1>0, <1>1, MapTypes, Zenon DEF IInv, TypeOK
<1>3. LinksOK(next, prev)' /\ BlocksOK'
      BY <1>0, Zenon DEF IInv, LinksOK, HeadsOf, BlocksOK, Heads, Apart, descriptors, lists
<1>4. CASE NextBlock /\ UNCHANGED call
  <2>1. TypeOK'
    <3>1. current + BlockSize \in Nat
          BY <1>1, SizeFacts
    <3> QED BY <1>0, <1>1, <1>2, <1>4, <3>1, Zenon DEF NextBlock, IInv, TypeOK, Running, descriptors, lists, call
  <2>2. pc'[BootCPU] = "load" /\ current' = current + BlockSize
        BY <1>1, <1>4, Zenon DEF NextBlock, IInv, TypeOK
  <2>3. OwnersOK'
        BY <1>0, <2>2, Zenon DEF OneCPU, IInv, OwnersOK, Given, Heads, HeadsOf, descriptors, lists
  <2>4. ZoneOK'
        BY <1>0, <1>1, <2>2, Zenon DEF ZoneOK, Top, BusyCall
  <2> QED BY <1>3, <2>1, <2>3, <2>4, Zenon DEF IInv
<1>5. CASE Call(BootCPU, 0, "firstTable") /\ UNCHANGED current
  <2>1. TypeOK'
    <3>1. 0 \in 0..(MaxOrder + 1)
          BY SizeFacts
    <3> QED BY <1>0, <1>1, <1>2, <1>5, <3>1, Zenon DEF IInv, TypeOK, Running, Callers, Loader, descriptors, lists
  <2>2. pc'[BootCPU] = "scan" /\ caller'[BootCPU] = "firstTable"
        BY <1>1, <1>5, Zenon DEF IInv, TypeOK
  <2>3. OwnersOK'
        BY <1>0, <2>2, Zenon DEF OneCPU, IInv, OwnersOK, Given, Heads, HeadsOf, descriptors, lists
  <2>4. ZoneOK'
        BY <1>0, <1>1, <1>5, <2>2 DEF ZoneOK, Top, BusyCall, Loader
  <2> QED BY <1>3, <2>1, <2>3, <2>4, Zenon DEF IInv
<1> QED BY <1>4, <1>5, Zenon DEF MapOwnFrames

(* Lines 200-204: the descriptors of the block are mapped, the block is    *)
(* written and the loop goes on.                                           *)
LEMMA WriteNextKeeps ==
  ASSUME OneCPU, IInv, pc[BootCPU] = "back", caller[BootCPU] \in {"desc", "descTable"},
         write_pages(current), NextBlock, UNCHANGED <<call, zone, memmap, given, asked>>,
         desc' \subseteq Nat, tables' \subseteq Nat
  PROVE  IInv'
<1> USE DEF Goto
<1>1. /\ BootCPU \in CPUs /\ memmap \in MemMaps /\ current \in Nat /\ zone \in 1..Len(memmap)
      /\ current + BlockSize <= memmap[zone].end /\ current + BlockSize <= NFrames
      /\ \A x \in loaded : x < current
      BY BlockAhead, Zenon DEF Loader
<1>2. /\ order' \in [Frames -> 0..MaxOrder] /\ free' \in [Frames -> BOOLEAN]
      /\ addr' \in [Frames -> Nat] /\ count' \in [0..MaxOrder -> 0..CountMax]
      /\ loaded' \subseteq Frames
      /\ \A x \in loaded' : x < current + BlockSize
      /\ LinksOK(next, prev)' /\ BlocksOK'
      /\ \A f \in Given' : f \in Heads' /\ ~free'[f]
      BY <1>1, WriteKeeps, Zenon
<1>3. pc'[BootCPU] = "load" /\ current' = current + BlockSize
      BY <1>1, Zenon DEF NextBlock, IInv, TypeOK
<1>4. TypeOK'
  <2>1. current + BlockSize \in Nat
        BY <1>1, SizeFacts
  <2>2. next' \in [Nodes -> Nodes \cup {NULL}] /\ prev' \in [Nodes -> Nodes \cup {NULL}]
        BY <1>2, Zenon DEF LinksOK
  <2> QED BY <1>1, <1>2, <1>3, <2>1, <2>2, Zenon DEF NextBlock, IInv, TypeOK, Running, call
<1>5. OwnersOK'
      BY <1>2, <1>3, Zenon DEF OneCPU, OwnersOK
<1>6. ZoneOK'
  <2> DEFINE e == memmap[zone].end
  <2>1. e \in Nat /\ current + BlockSize <= e
        BY <1>1, ZoneFacts, Zenon
  <2>2. \A x \in loaded' : x \in Int
        BY <1>2, SizeFacts DEF Frames
  <2> HIDE DEF e
  <2>3. \A x \in loaded' : x < e
        BY <1>1, <1>2, <2>1, <2>2, SizeFacts
  <2> QED BY <1>1, <1>2, <1>3, <2>3, Zenon DEF ZoneOK, Top, BusyCall, e
<1> QED BY <1>2, <1>4, <1>5, <1>6, Zenon DEF IInv

LEMMA MapNewKeeps == OneCPU /\ IInv /\ MapNewFrames => IInv'
<1> SUFFICES ASSUME OneCPU, IInv, MapNewFrames PROVE IInv'
    BY Zenon
<1> USE DEF Call, Goto
<1>0. /\ pc[BootCPU] = "back" /\ caller[BootCPU] = "desc" /\ caller[BootCPU] \in Loader
      /\ page[BootCPU] # NULL
      /\ desc' = desc \cup Block(addr[page[BootCPU]], DescOrder) /\ tables' = tables \cup {Table}
      /\ UNCHANGED <<zone, memmap, given, asked>>
      BY Zenon DEF MapNewFrames, Loader
<1>1. /\ BootCPU \in CPUs /\ memmap \in MemMaps /\ current \in Nat /\ zone \in 1..Len(memmap)
      /\ current + BlockSize <= memmap[zone].end
      /\ \A x \in loaded : x < current /\ x < memmap[zone].end
      BY <1>0, BlockAhead, Zenon
<1>2. desc' \subseteq Nat /\ tables' \subseteq Nat
  <2>1. addr[page[BootCPU]] \in Nat
        BY <1>0, <1>1, Zenon DEF IInv, TypeOK
  <2> QED BY <1>0, <2>1, MapTypes, Zenon DEF IInv, TypeOK
<1>3. CASE write_pages(current) /\ NextBlock /\ UNCHANGED call
      BY <1>0, <1>2, <1>3, WriteNextKeeps, Zenon
<1>4. CASE /\ Call(BootCPU, 0, "descTable")
           /\ UNCHANGED <<descriptors, lists, current, loaded>>
  <2>1. TypeOK'
    <3>1. 0 \in 0..(MaxOrder + 1)
          BY SizeFacts
    <3> QED BY <1>0, <1>1, <1>2, <1>4, <3>1, Zenon DEF IInv, TypeOK, Running, Callers, Loader, descriptors, lists
  <2>2. pc'[BootCPU] = "scan" /\ caller'[BootCPU] = "descTable"
        BY <1>1, <1>4, Zenon DEF IInv, TypeOK
  <2>3. LinksOK(next, prev)' /\ BlocksOK'
        BY <1>4, Zenon DEF IInv, LinksOK, HeadsOf, BlocksOK, Heads, Apart, descriptors, lists
  <2>4. OwnersOK'
        BY <1>0, <1>4, <2>2, Zenon DEF OneCPU, IInv, OwnersOK, Given, Heads, HeadsOf, descriptors, lists
  <2>5. ZoneOK'
        BY <1>0, <1>1, <1>4, <2>2 DEF ZoneOK, Top, BusyCall, Loader
  <2> QED BY <2>1, <2>3, <2>4, <2>5, Zenon DEF IInv
<1> QED BY <1>3, <1>4, Zenon DEF MapNewFrames

LEMMA TableKeeps == OneCPU /\ IInv /\ TableReady => IInv'
<1> SUFFICES ASSUME OneCPU, IInv, TableReady PROVE IInv'
    BY Zenon
<1> USE DEF Goto
<1>0. /\ pc[BootCPU] = "back" /\ caller[BootCPU] \in {"firstTable", "descTable"}
      /\ caller[BootCPU] \in Loader /\ NextBlock
      /\ UNCHANGED <<call, zone, tables, desc, memmap, given, asked>>
      BY Zenon DEF TableReady, Loader
<1>1. /\ BootCPU \in CPUs /\ memmap \in MemMaps /\ current \in Nat /\ zone \in 1..Len(memmap)
      /\ \A x \in loaded : x < memmap[zone].end
      /\ caller[BootCPU] = "firstTable" => \A x \in loaded : x < current + BlockSize
      BY <1>0, BlockAhead, Zenon
<1>2. CASE write_pages(current) /\ caller[BootCPU] = "descTable"
  <2>1. desc' \subseteq Nat /\ tables' \subseteq Nat
        BY <1>0, Zenon DEF IInv, TypeOK
  <2> QED BY <1>0, <1>2, <2>1, WriteNextKeeps, Zenon
<1>3. CASE UNCHANGED <<descriptors, lists, loaded>> /\ caller[BootCPU] = "firstTable"
  <2>1. pc' = [pc EXCEPT ![BootCPU] = "load"] /\ current' = current + BlockSize
        BY <1>0, Zenon DEF NextBlock
  <2>2. TypeOK'
    <3>1. current + BlockSize \in Nat
          BY <1>1, SizeFacts
    <3> QED BY <1>0, <1>1, <1>3, <2>1, <3>1, Zenon DEF IInv, TypeOK, Running, descriptors, lists, call
  <2>3. LinksOK(next, prev)' /\ BlocksOK'
        BY <1>3, Zenon DEF IInv, LinksOK, HeadsOf, BlocksOK, Heads, Apart, descriptors, lists
  <2>4. pc'[BootCPU] = "load"
        BY <1>1, <2>1, Zenon DEF IInv, TypeOK
  <2>5. OwnersOK'
        BY <1>0, <1>3, <2>4, Zenon DEF OneCPU, IInv, OwnersOK, Given, Heads, HeadsOf, descriptors, lists
  <2>6. ZoneOK'
        BY <1>0, <1>1, <1>3, <2>1, <2>4, Zenon DEF ZoneOK, Top, BusyCall
  <2> QED BY <2>2, <2>3, <2>5, <2>6, Zenon DEF IInv
<1> QED BY <1>2, <1>3, Zenon DEF TableReady

-----------------------------------------------------------------------------
(* PM_MarkPagesUsed *)

LEMMA EnterMarkKeeps == OneCPU /\ IInv /\ EnterMark => IInv'
<1> SUFFICES ASSUME OneCPU, IInv, EnterMark PROVE IInv'
    BY Zenon
<1> USE DEF IInv, Goto, EnterMark
<1>0. BootCPU \in CPUs /\ current' \in Nat
      BY BootAssumption, Zenon DEF OneCPU
<1>1. TypeOK'
      BY <1>0, Zenon DEF TypeOK, Running, descriptors, lists, call
<1>2. LinksOK(next, prev)' /\ BlocksOK'
      BY Zenon DEF LinksOK, HeadsOf, BlocksOK, Heads, Apart, descriptors, lists
<1>3. OwnersOK' /\ ZoneOK'
      BY <1>0, Zenon DEF OneCPU, TypeOK, OwnersOK, ZoneOK, BusyCall, Given, Heads, HeadsOf, descriptors, lists, call
<1> QED BY <1>1, <1>2, <1>3, Zenon

LEMMA MarkKeeps == OneCPU /\ IInv /\ PM_MarkPagesUsed => IInv'
<1> SUFFICES ASSUME OneCPU, IInv, PM_MarkPagesUsed PROVE IInv'
    BY Zenon
<1> USE DEF Goto
<1>0. /\ BootCPU \in CPUs /\ current \in Nat /\ pc[BootCPU] = "mark"
      /\ zone = Len(memmap) + 1 /\ Len(memmap) \in Nat
      /\ UNCHANGED <<order, addr, count, call, tables, loaded, desc, memmap, given, asked>>
      BY MapFacts, Zenon DEF OneCPU, IInv, TypeOK, ZoneOK, PM_MarkPagesUsed
<1>1. LinksOK(next, prev)' /\ Heads' = Heads
  <2>1. current \in loaded => current \in Frames
        BY Zenon DEF IInv, TypeOK
  <2>2. \/ next' = next /\ prev' = prev
        \/ /\ current \in loaded
           /\ next' = RemoveNext(next, prev, current)
           /\ prev' = RemovePrev(next, prev, current)
        BY Zenon DEF PM_MarkPagesUsed
  <2>3. LinksOK(next', prev') /\ HeadsOf(prev') = HeadsOf(prev)
        BY <2>1, <2>2, RemoveKeepsLinks, Zenon DEF IInv
  <2> QED BY <2>3, Zenon DEF LinksOK, Heads, HeadsOf
<1>2. /\ free' \in [Frames -> BOOLEAN]
      /\ \A f \in Frames : ~free[f] => ~free'[f]
      BY Zenon DEF PM_MarkPagesUsed, IInv, TypeOK
<1>3. /\ zone' \in 1..(Len(memmap) + 2) /\ current' \in Nat
      /\ pc' \in [CPUs -> Running \cup Stopped]
      /\ pc'[BootCPU] \in {"mark", "idle", "spin"}
      /\ pc'[BootCPU] = "mark" => zone' = Len(memmap) + 1
  <2>1. current + 1 \in Nat /\ zone + 1 \in 1..(Len(memmap) + 2) /\ zone \in 1..(Len(memmap) + 2)
        BY <1>0
  <2>2. zone' \in 1..(Len(memmap) + 2) /\ current' \in Nat
        BY <1>0, <2>1, Zenon DEF PM_MarkPagesUsed
  <2>3. pc' \in [CPUs -> Running \cup Stopped] /\ pc'[BootCPU] \in {"mark", "idle", "spin"}
        BY <1>0, Zenon DEF PM_MarkPagesUsed, IInv, TypeOK, Running, Stopped
  <2>4. pc'[BootCPU] = "mark" => zone' = zone
        BY <1>0, Zenon DEF PM_MarkPagesUsed, IInv, TypeOK
  <2> QED BY <1>0, <2>2, <2>3, <2>4, Zenon
<1>4. TypeOK'
  <2>1. next' \in [Nodes -> Nodes \cup {NULL}] /\ prev' \in [Nodes -> Nodes \cup {NULL}]
        BY <1>1, Zenon DEF LinksOK
  <2> QED BY <1>0, <1>2, <1>3, <2>1, Zenon DEF IInv, TypeOK, call
<1>5. BlocksOK'
      BY <1>0, <1>1, Zenon DEF IInv, BlocksOK, Apart
<1>6. OwnersOK'
      BY <1>0, <1>1, <1>2, <1>3, Zenon DEF OneCPU, IInv, OwnersOK, Given
<1>7. ZoneOK'
      BY <1>0, <1>3, Zenon DEF ZoneOK, BusyCall
<1> QED BY <1>1, <1>4, <1>5, <1>6, <1>7, Zenon DEF IInv

-----------------------------------------------------------------------------
(* The theorems *)

LEMMA InitInv == OneCPU /\ Init => IInv
<1> SUFFICES ASSUME OneCPU, Init PROVE IInv
    BY Zenon
<1> USE DEF Init
<1>1. FirstFrame(1) \in Nat
  <2>1. memmap \in MemMaps /\ Len(memmap) \in Nat
        BY MapFacts, Zenon
  <2>2. CASE 1 <= Len(memmap)
    <3>1. 1 \in 1..Len(memmap)
          BY <2>1, <2>2
    <3> QED BY <2>1, <2>2, <3>1, ZoneFacts, Zenon DEF FirstFrame
  <2>3. CASE ~(1 <= Len(memmap))
        BY <2>3, Zenon DEF FirstFrame
  <2> QED BY <2>2, <2>3, Zenon
<1>2. TypeOK
  <2>1. Len(memmap) \in Nat /\ 0 \in 0..MaxOrder /\ 0 \in 0..(MaxOrder + 1) /\ 0 \in 0..CountMax
        BY MapFacts, SizeFacts
  <2> QED BY <1>1, <2>1 DEF TypeOK, Running, Callers
<1>3. Heads = {} /\ Given = {}
      BY NodeFacts, Zenon DEF Heads, HeadsOf, Given
<1>4. LinksOK(next, prev) /\ BlocksOK
      BY <1>2, <1>3, NodeFacts, Zenon DEF LinksOK, Heads, BlocksOK, TypeOK
<1>5. OwnersOK /\ ZoneOK
      BY <1>3, Zenon DEF OneCPU, OwnersOK, ZoneOK, BusyCall
<1> QED BY <1>2, <1>4, <1>5, Zenon DEF IInv

LEMMA StutterKeeps == IInv /\ UNCHANGED vars => IInv'
<1> SUFFICES ASSUME IInv, UNCHANGED vars PROVE IInv'
    BY Zenon
<1> USE DEF IInv, vars, descriptors, lists, call, boot
<1>1. TypeOK'
      BY Zenon DEF TypeOK
<1>2. LinksOK(next, prev)' /\ BlocksOK'
      BY Zenon DEF LinksOK, HeadsOf, BlocksOK, Heads, Apart
<1>3. OwnersOK' /\ ZoneOK'
      BY Zenon DEF OwnersOK, ZoneOK, Top, Given, Heads, HeadsOf
<1> QED BY <1>1, <1>2, <1>3, Zenon

LEMMA NextKeeps == OneCPU /\ IInv /\ [Next]_vars => IInv'
<1> SUFFICES ASSUME OneCPU, IInv, Next PROVE IInv'
    BY StutterKeeps, Zenon
<1>1. CASE LoadZones
      BY <1>1, LoadKeeps, BootstrapKeeps, AgainKeeps, NoPageKeeps, MapOwnKeeps,
         MapNewKeeps, TableKeeps, EnterMarkKeeps, MarkKeeps, Zenon DEF LoadZones
<1>2. CASE InAllocator(BootCPU)
      BY <1>2, ScanKeeps, SelectKeeps, TakeKeeps, ExpandKeeps, FinishKeeps, Zenon DEF InAllocator
<1>3. CASE PM_AllocatePages(BootCPU) \/ PM_FreePages(BootCPU)
      BY <1>3, AllocateKeeps, FreeKeeps, Zenon
<1> QED BY <1>1, <1>2, <1>3, Zenon DEF Next, OneCPU

(* The inductive invariant contains the property: what is handed out, and  *)
(* what is being split, are distinct heads of blocks.                      *)
LEMMA InvImpliesNoOverlap == OneCPU /\ IInv => NoOverlap
<1> SUFFICES ASSUME OneCPU, IInv PROVE NoOverlap
    BY Zenon
<1>1. \A f, g \in Given : f # g => Apart(f, g)
      BY Zenon DEF IInv, OwnersOK, BlocksOK
<1>2. \A c \in CPUs : InHand(c) => \A g \in Given : page[c] # g /\ Apart(page[c], g)
      BY Zenon DEF IInv, OwnersOK, BlocksOK, InHand
<1>3. \A c, d \in CPUs : c = d
      BY Zenon DEF OneCPU
<1> QED BY <1>1, <1>2, <1>3, Zenon DEF NoOverlap

(* While only the boot CPU runs the allocator (no other CPU is started by  *)
(* this kernel), PM_AllocatePages never hands out a frame that belongs to  *)
(* a block somebody holds: for every memory map, every number of orders    *)
(* and every initial value of the variable PM_MarkPagesUsed leaves unset.  *)
THEOREM OneCPUNoOverlap ==
  ASSUME OneCPU
  PROVE  Spec => [](TypeOK /\ NoOverlap)
<1>1. Init => IInv
      BY InitInv, Zenon
<1>2. IInv /\ [Next]_vars => IInv'
      BY NextKeeps, Zenon
<1>3. IInv => TypeOK /\ NoOverlap
      BY InvImpliesNoOverlap, Zenon DEF IInv
<1> QED BY <1>1, <1>2, <1>3, PTL DEF Spec

-----------------------------------------------------------------------------
(* What is in a block, and whose it is *)

(* A block starts at a multiple of its size. *)
Multiple(f, s) == \E m \in Nat : f = m * s

HeadsFit == \A f \in Heads : addr[f] = f /\ Multiple(f, Size[order[f]])

(* Each descriptor is put on one list in its life, and all that            *)
(* LinkedListRemove ever joins, old neighbours included, belongs to the    *)
(* same list: lev says which one.                                          *)
LinksLevel(lev, nx, pv) ==
  /\ lev \in [Nodes -> 0..MaxOrder]
  /\ \A k \in 0..MaxOrder : lev[Handle(k)] = k
  /\ \A n \in Nodes : nx[n] # NULL => lev[nx[n]] = lev[n]
  /\ \A n \in Nodes : pv[n] # NULL => lev[pv[n]] = lev[n]

(* A block that may still be selected has the order of its list, or one    *)
(* more: whole blocks are on the list below theirs.                        *)
Idle(f) == free[f] /\ pc[BootCPU] # "fault" /\ ~(pc[BootCPU] = "split" /\ page[BootCPU] = f)

Levelled(lev) ==
  /\ LinksLevel(lev, next, prev)
  /\ \A f \in Heads : Idle(f) => order[f] \in {lev[f], lev[f] + 1}
  /\ pc[BootCPU] = "take" /\ page[BootCPU] # NULL => lev[page[BootCPU]] = mord[BootCPU]

OrdersFit ==
  /\ pc[BootCPU] = "split" => order[page[BootCPU]] \in {mord[BootCPU], mord[BootCPU] + 1}
  /\ \A f \in Given : order[f] \in {asked[f], asked[f] + 1}

(* What PM_LoadZoneRange knows when a call is over: the block is its own.  *)
(* While the block at current is the only one on the lists (line 155), the *)
(* call selects that block.                                                *)
OnlyCurrent ==
  /\ current \in Heads /\ free[current]
  /\ next[Handle(MaxOrder - 1)] = current

CallFits ==
  LET c == BootCPU IN
  /\ pc[c] \in BusyCall \cup {"load"} /\ zone <= Len(memmap) => Multiple(current, BlockSize)
  /\ pc[c] \in BusyCall /\ caller[c] \in {"space", "first", "desc"} => req[c] = DescOrder
  /\ pc[c] = "back" /\ page[c] # NULL =>
       page[c] \in Given /\ given[page[c]] = caller[c] /\ asked[page[c]] = req[c]
  /\ pc[c] = "back" /\ page[c] = NULL /\ caller[c] = "space" =>
       \A m \in DescOrder..MaxOrder : count[m] = 0
  /\ pc[c] = "scan" /\ caller[c] = "first" =>
       OnlyCurrent /\ \A m \in DescOrder..MaxOrder : m # MaxOrder - 1 => count[m] = 0
  /\ pc[c] = "select" /\ caller[c] = "first" => OnlyCurrent /\ mord[c] = MaxOrder - 1
  /\ pc[c] = "take" /\ caller[c] = "first" => page[c] = current /\ free[current]
  /\ pc[c] = "split" /\ caller[c] = "first" => page[c] = current
  /\ pc[c] = "back" /\ caller[c] = "first" => page[c] \in {NULL, current}

(* Frame f is in a block of the loader. *)
Kept(f) == \E g \in Given : given[g] \in Loader /\ f \in Block(g, order[g])

FitInv == HeadsFit /\ (\E lev : Levelled(lev)) /\ OrdersFit /\ CallFits /\ DescriptorsKept

(* Removing a descriptor, a second time too, joins nodes of one list. *)
LEMMA RemoveKeepsLevel ==
  ASSUME NEW nx, NEW pv, LinksOK(nx, pv), NEW lev, LinksLevel(lev, nx, pv), NEW f \in Frames
  PROVE  LinksLevel(lev, RemoveNext(nx, pv, f), RemovePrev(nx, pv, f))
<1>1. f \in Nodes /\ nx[f] \in Nodes \cup {NULL} /\ pv[f] \in Nodes \cup {NULL}
      BY NodeFacts, Zenon DEF LinksOK
<1>2. \A n \in Nodes : RemoveNext(nx, pv, f)[n] # NULL => lev[RemoveNext(nx, pv, f)[n]] = lev[n]
      BY <1>1, Zenon DEF LinksOK, LinksLevel, RemoveNext
<1>3. \A n \in Nodes : RemovePrev(nx, pv, f)[n] # NULL => lev[RemovePrev(nx, pv, f)[n]] = lev[n]
      BY <1>1, Zenon DEF LinksOK, LinksLevel, RemovePrev
<1> QED BY <1>2, <1>3, Zenon DEF LinksLevel

(* A descriptor that was on no list gets the level of the list it joins. *)
LEMMA AppendKeepsLevel ==
  ASSUME NEW nx, NEW pv, LinksOK(nx, pv), NEW lev, LinksLevel(lev, nx, pv),
         NEW k \in 0..MaxOrder, NEW q \in Frames, q \notin HeadsOf(pv)
  PROVE  LinksLevel([lev EXCEPT ![q] = k], AppendNext(nx, pv, Handle(k), q), AppendPrev(nx, pv, Handle(k), q))
<1> DEFINE h == Handle(k)
           lev1 == [lev EXCEPT ![q] = k]
           nx1 == AppendNext(nx, pv, h, q)
           pv1 == AppendPrev(nx, pv, h, q)
<1>1. h \in Nodes /\ h \notin Frames /\ q \in Nodes /\ h # NULL /\ q # NULL /\ h # q
      BY NodeFacts, Zenon
<1>2. nx[q] = NULL /\ pv[q] = NULL
      BY <1>1, Zenon DEF LinksOK, HeadsOf
<1>3. \A n \in Nodes : nx[n] # q /\ pv[n] # q
      BY <1>1, NodeFacts, Zenon DEF LinksOK
<1>4. /\ lev1 \in [Nodes -> 0..MaxOrder] /\ lev1[q] = k /\ lev1[h] = k /\ lev[h] = k
      /\ \A n \in Nodes : n # q => lev1[n] = lev[n]
      /\ \A j \in 0..MaxOrder : lev1[Handle(j)] = j
      BY <1>1, NodeFacts, Zenon DEF LinksLevel
<1> HIDE DEF h, lev1
<1>5. \A n \in Nodes : nx1[n] # NULL => lev1[nx1[n]] = lev1[n]
      BY <1>1, <1>2, <1>3, <1>4 DEF LinksOK, LinksLevel, AppendNext
<1>6. \A n \in Nodes : pv1[n] # NULL => lev1[pv1[n]] = lev1[n]
      BY <1>1, <1>2, <1>3, <1>4 DEF LinksOK, LinksLevel, AppendPrev
<1> QED BY <1>4, <1>5, <1>6, Zenon DEF LinksLevel, h, lev1

(* What a block given to the loader holds stays in it: the order of a      *)
(* block that was handed out never changes.                                *)
LEMMA KeptStays ==
  ASSUME UNCHANGED given, \A g \in Given : order'[g] = order[g], NEW f, Kept(f)
  PROVE  Kept(f)'
BY Zenon DEF Kept, Given, Block

(* The steps that touch no descriptor and no list, and neither select nor  *)
(* take a block.                                                           *)
LEMMA QuietKeepsFit ==
  ASSUME FitInv, UNCHANGED <<order, addr, free, next, prev, given, asked>>,
         pc'[BootCPU] \notin {"split", "take"}, pc[BootCPU] \notin {"split", "fault"}
  PROVE  /\ HeadsFit' /\ (\E lev : Levelled(lev))' /\ OrdersFit'
         /\ desc' = desc => DescriptorsKept'
<1>1. Heads' = Heads /\ Given' = Given
      BY Zenon DEF Heads, HeadsOf, Given
<1>2. HeadsFit' /\ OrdersFit'
      BY <1>1, Zenon DEF FitInv, HeadsFit, OrdersFit
<1>3. PICK lev : Levelled(lev)
      BY Zenon DEF FitInv
<1>4. Levelled(lev)'
      BY <1>1, <1>3, Zenon DEF Levelled, LinksLevel, Idle
<1>5. desc' = desc => DescriptorsKept'
      BY <1>1, Zenon DEF FitInv, DescriptorsKept, Block
<1> QED BY <1>2, <1>4, <1>5, Zenon

LEMMA OrderFacts == DescOrder \in 0..MaxOrder /\ MaxOrder - 1 \in 0..MaxOrder /\ MaxOrder \in Nat
BY BootAssumption, SizeFacts

LEMMA ScanFits ==
  ASSUME OneCPU, IInv, FitInv, Scan(BootCPU)
  PROVE  FitInv'
<1> DEFINE c == BootCPU
<1>0. /\ c \in CPUs /\ pc[c] = "scan" /\ req[c] \in 0..(MaxOrder + 1)
      /\ UNCHANGED <<order, addr, free, next, prev, count, current, zone, memmap, desc, given, asked, req, caller>>
      BY Zenon DEF Scan, OneCPU, IInv, TypeOK, descriptors, lists, boot
<1>1. \/ /\ page'[c] = NULL /\ pc'[c] \in {"idle", "back"}
         /\ req[c] > MaxOrder \/ \A m \in req[c]..MaxOrder : count[m] = 0
      \/ /\ pc'[c] = "select"
         /\ \E m \in req[c]..MaxOrder : count[m] # 0 /\ mord'[c] = m
      BY <1>0, Zenon DEF Scan, Goto, IInv, TypeOK
<1>2. HeadsFit' /\ (\E lev : Levelled(lev))' /\ OrdersFit' /\ DescriptorsKept'
      BY <1>0, <1>1, QuietKeepsFit, Zenon
<1> HIDE DEF c
<1>3. CallFits'
  <2>0. BootCPU = c
        BY Zenon DEF c
  <2> USE <2>0
  <2>1. OnlyCurrent' <=> OnlyCurrent
        BY <1>0, Zenon DEF OnlyCurrent, Heads, HeadsOf
  <2>2. CASE /\ page'[c] = NULL /\ pc'[c] \in {"idle", "back"}
             /\ req[c] > MaxOrder \/ \A m \in req[c]..MaxOrder : count[m] = 0
    <3>1. caller[c] = "space" => \A m \in DescOrder..MaxOrder : count[m] = 0
          BY <1>0, <2>2, OrderFacts DEF FitInv, CallFits, BusyCall
    <3> QED BY <1>0, <2>2, <3>1, Zenon DEF FitInv, CallFits, BusyCall, Multiple
  <2>3. CASE /\ pc'[c] = "select"
             /\ \E m \in req[c]..MaxOrder : count[m] # 0 /\ mord'[c] = m
    <3>1. caller[c] = "first" => OnlyCurrent /\ mord'[c] = MaxOrder - 1
          BY <1>0, <2>3, Zenon DEF FitInv, CallFits, BusyCall
    <3> QED BY <1>0, <2>1, <2>3, <3>1, Zenon DEF FitInv, CallFits, BusyCall, Multiple
  <2> QED BY <1>1, <2>2, <2>3, Zenon
<1> QED BY <1>2, <1>3, Zenon DEF FitInv

LEMMA SelectFits ==
  ASSUME OneCPU, IInv, FitInv, Select(BootCPU)
  PROVE  FitInv'
<1> DEFINE c == BootCPU
<1>0. /\ c \in CPUs /\ pc[c] = "select" /\ pc'[c] = "take" /\ mord[c] \in 0..MaxOrder
      /\ page'[c] = next[Handle(mord[c])]
      /\ UNCHANGED <<order, addr, free, next, prev, count, current, zone, memmap, desc, given, asked, req, mord, caller>>
      BY Zenon DEF Select, Goto, OneCPU, IInv, TypeOK, descriptors, lists, boot
<1>1. Heads' = Heads /\ Given' = Given
      BY <1>0, Zenon DEF Heads, HeadsOf, Given
<1>2. HeadsFit' /\ OrdersFit' /\ DescriptorsKept'
      BY <1>0, <1>1, Zenon DEF FitInv, HeadsFit, OrdersFit, DescriptorsKept, Block
<1>3. PICK lev : Levelled(lev)
      BY Zenon DEF FitInv
<1>4. Levelled(lev)'
  <2>1. page'[c] # NULL => lev[page'[c]] = mord'[c]
        BY <1>0, <1>3, NodeFacts, Zenon DEF Levelled, LinksLevel
  <2> QED BY <1>0, <1>1, <1>3, <2>1, Zenon DEF Levelled, LinksLevel, Idle
<1>5. CallFits'
      BY <1>0, <1>1, Zenon DEF FitInv, CallFits, BusyCall, Multiple, OnlyCurrent
<1> QED BY <1>2, <1>4, <1>5, Zenon DEF FitInv

(* Taking a block off its list: it has the order that the scan found. *)
LEMMA TakeFits ==
  ASSUME OneCPU, IInv, FitInv, Take(BootCPU)
  PROVE  FitInv'
<1> DEFINE c == BootCPU
           p == page[BootCPU]
<1>0. /\ c \in CPUs /\ pc[c] = "take" /\ p \in Heads \cup {NULL} /\ (p # NULL => p \in Frames)
      /\ UNCHANGED <<order, addr, free, page, mord, current, zone, memmap, desc, given, asked, req, caller>>
      /\ pc'[c] \in {"fault", "select", "split"}
      BY Zenon DEF Take, Goto, OneCPU, IInv, TypeOK, OwnersOK, descriptors, boot, call, Heads, HeadsOf
<1>1. \/ UNCHANGED <<next, prev>> /\ pc'[c] = "fault"
      \/ UNCHANGED <<next, prev>> /\ pc'[c] = "select" /\ ~free[p] /\ p # NULL
      \/ /\ p # NULL /\ free[p] /\ pc'[c] = "split"
         /\ next' = RemoveNext(next, prev, p) /\ prev' = RemovePrev(next, prev, p)
      BY <1>0, Zenon DEF Take, Goto, IInv, TypeOK, lists
<1>2. Heads' = Heads /\ Given' = Given
  <2>1. \A f \in Frames : HeadsOf(RemovePrev(next, prev, f)) = Heads
        BY RemoveKeepsLinks, Zenon DEF IInv, Heads
  <2> QED BY <1>0, <1>1, <2>1, Zenon DEF Heads, HeadsOf, Given
<1>3. PICK lev : Levelled(lev)
      BY Zenon DEF FitInv
<1>4. LinksLevel(lev, next', prev')
      BY <1>0, <1>1, <1>3, RemoveKeepsLevel, Zenon DEF Levelled, IInv
<1>5. Levelled(lev)'
      BY <1>0, <1>1, <1>2, <1>3, <1>4, Zenon DEF Levelled, LinksLevel, Idle
<1>6. OrdersFit'
  <2>1. pc'[c] = "split" => order[p] \in {mord[c], mord[c] + 1}
        BY <1>0, <1>1, <1>3, Zenon DEF Levelled, Idle
  <2> QED BY <1>0, <1>2, <2>1, Zenon DEF FitInv, OrdersFit
<1>7. HeadsFit' /\ DescriptorsKept'
      BY <1>0, <1>2, Zenon DEF FitInv, HeadsFit, DescriptorsKept, Block
<1>8. CallFits'
      BY <1>0, <1>1, Zenon DEF FitInv, CallFits, BusyCall, Multiple
<1> QED BY <1>5, <1>6, <1>7, <1>8, Zenon DEF FitInv

(* Both halves of an aligned block are aligned. *)
LEMMA Halves ==
  ASSUME NEW f \in Nat, NEW n \in Nat, Multiple(f, n + n)
  PROVE  Multiple(f, n) /\ Multiple(f + n, n)
<1>1. PICK m \in Nat : f = m * (n + n)
      BY Zenon DEF Multiple
<1>2. f = (m + m) * n /\ f + n = (m + m + 1) * n
      BY <1>1
<1>3. m + m \in Nat /\ m + m + 1 \in Nat
      OBVIOUS
<1> QED BY <1>2, <1>3, Zenon DEF Multiple

LEMMA ExpandFits ==
  ASSUME OneCPU, IInv, FitInv, PM_ExpandPage(BootCPU)
  PROVE  FitInv'
<1> DEFINE c == BootCPU
           p == Whole
           k == Half
           q == Upper
<1>0. c \in CPUs /\ pc[c] = "split" /\ p = page[c]
      BY Zenon DEF OneCPU, PM_ExpandPage, Whole
<1>1. CASE order[p] = 0
  <2>1. /\ UNCHANGED <<order, addr, free, next, prev, given, asked, desc>> /\ pc'[c] = "fault"
        BY <1>0, <1>1, Zenon DEF PM_ExpandPage, Goto, Whole, IInv, TypeOK, descriptors, lists, boot
  <2>2. Heads' = Heads /\ Given' = Given
        BY <2>1, Zenon DEF Heads, HeadsOf, Given
  <2>3. HeadsFit' /\ OrdersFit' /\ DescriptorsKept' /\ CallFits'
        BY <2>1, <2>2, Zenon DEF FitInv, HeadsFit, OrdersFit, DescriptorsKept, Block, CallFits, BusyCall
  <2>4. PICK lev : Levelled(lev)
        BY Zenon DEF FitInv
  <2>5. Levelled(lev)'
        BY <2>1, <2>4, Zenon DEF Levelled, LinksLevel, Idle
  <2> QED BY <2>3, <2>5, Zenon DEF FitInv
<1>2. CASE order[p] # 0
  <2>1. /\ p \in Heads /\ p \notin Given /\ p \in Frames /\ p \in Nat
        /\ order[p] \in 0..MaxOrder /\ mord[c] \in 0..MaxOrder /\ k \in 0..MaxOrder /\ k + 1 = order[p]
        /\ Size[k] \in Nat /\ Size[order[p]] = Size[k] + Size[k]
        /\ q \in Frames /\ q \notin Heads /\ q # p /\ Heads' = Heads \cup {q}
        BY <1>2, SplitFacts, Zenon
  <2>2. /\ order' = [order EXCEPT ![p] = k, ![q] = k]
        /\ addr' = [addr EXCEPT ![q] = addr[p] + Size[k]]
        /\ free' = [free EXCEPT ![q] = TRUE]
        /\ next' = AppendNext(RemoveNext(next, prev, p), RemovePrev(next, prev, p), Handle(k), q)
        /\ prev' = AppendPrev(RemoveNext(next, prev, p), RemovePrev(next, prev, p), Handle(k), q)
        /\ mord' = [mord EXCEPT ![c] = @ - 1]
        /\ UNCHANGED <<pc, current, zone, memmap, desc, req, page, caller, given, asked>>
        BY <1>2, SplitFacts, Zenon DEF boot
  <2>3. Given' = Given /\ (\A f \in Given : f \in Heads) /\ (\A f \in Heads : f \in Frames)
        BY <2>2, Zenon DEF Given, IInv, OwnersOK, Heads, HeadsOf
  <2>4. q = p + Size[k]
        BY Zenon DEF Upper
  <2> HIDE DEF p, k, q
  <2>5. /\ order'[p] = k /\ order'[q] = k /\ addr'[p] = addr[p] /\ addr'[q] = addr[p] + Size[k] /\ free'[q]
        /\ \A f \in Heads : f # q /\ addr'[f] = addr[f] /\ free'[f] = free[f] /\ (f # p => order'[f] = order[f])
        BY <2>1, <2>2, <2>3, Zenon DEF IInv, TypeOK
  <2>6. HeadsFit'
    <3>1. addr[p] = p /\ Multiple(p, Size[k] + Size[k])
          BY <2>1, Zenon DEF FitInv, HeadsFit
    <3>2. Multiple(p, Size[k]) /\ Multiple(q, Size[k])
          BY <2>1, <2>4, <3>1, Halves, Zenon
    <3>3. \A f \in Heads \cup {q} : addr'[f] = f /\ Multiple(f, Size[order'[f]])
          BY <2>4, <2>5, <3>1, <3>2 DEF FitInv, HeadsFit
    <3> QED BY <2>1, <3>3, Zenon DEF HeadsFit, Multiple
  <2>7. (\E lev : Levelled(lev))'
    <3>1. PICK lev : Levelled(lev)
          BY Zenon DEF FitInv
    <3> DEFINE lev1 == [lev EXCEPT ![q] = k]
    <3>2. /\ LinksOK(RemoveNext(next, prev, p), RemovePrev(next, prev, p))
          /\ HeadsOf(RemovePrev(next, prev, p)) = Heads
          BY <2>1, RemoveKeepsLinks, Zenon DEF IInv, Heads
    <3>3. LinksLevel(lev, RemoveNext(next, prev, p), RemovePrev(next, prev, p))
          BY <2>1, <3>1, RemoveKeepsLevel, Zenon DEF Levelled, IInv
    <3>4. LinksLevel(lev1, next', prev')
          BY <2>1, <2>2, <3>2, <3>3, AppendKeepsLevel, Zenon
    <3>5. lev1[q] = k /\ \A f \in Heads : lev1[f] = lev[f]
      <4>1. lev \in [Nodes -> 0..MaxOrder] /\ q \in Nodes /\ \A f \in Heads : f \in Nodes
            BY <2>1, <2>3, <3>1, NodeFacts, Zenon DEF Levelled, LinksLevel
      <4> QED BY <4>1, <2>5, Zenon
    <3> HIDE DEF lev1
    <3>6. \A f \in Heads' : Idle(f)' => order'[f] \in {lev1[f], lev1[f] + 1}
      <4>1. \A f \in Heads : Idle(f)' => f # p /\ Idle(f)
            BY <1>0, <2>2, <2>5, Zenon DEF Idle, p
      <4> QED BY <2>1, <2>5, <3>1, <3>5, <4>1 DEF Levelled
    <3>7. PICK lev2 : lev2 = lev1
          BY Zenon
    <3>8. Levelled(lev2)'
          BY <1>0, <2>2, <3>4, <3>6, <3>7, Zenon DEF Levelled, LinksLevel
    <3> QED BY <3>8, Zenon
  <2>8. OrdersFit'
    <3>1. order[p] \in {mord[c], mord[c] + 1}
          BY <1>0, Zenon DEF FitInv, OrdersFit
    <3>2. mord'[c] = mord[c] - 1 /\ page'[c] = p
          BY <1>0, <2>2, Zenon DEF IInv, TypeOK
    <3>3. order'[p] \in {mord'[c], mord'[c] + 1}
          BY <2>1, <2>5, <3>1, <3>2
    <3>4. \A f \in Given : order'[f] = order[f]
          BY <2>1, <2>3, <2>5, Zenon
    <3> QED BY <2>2, <2>3, <3>2, <3>3, <3>4, Zenon DEF FitInv, OrdersFit
  <2>9. CallFits'
        BY <1>0, <2>2, Zenon DEF FitInv, CallFits, BusyCall, Multiple
  <2>10. DescriptorsKept'
    <3>1. \A f \in Given : order'[f] = order[f]
          BY <2>1, <2>3, <2>5, Zenon
    <3>2. \A f \in desc : Kept(f)
          BY Zenon DEF FitInv, DescriptorsKept, Kept
    <3>3. \A f \in desc : Kept(f)'
          BY <2>2, <3>1, <3>2, KeptStays, Zenon
    <3> QED BY <2>2, <3>3, Zenon DEF DescriptorsKept, Kept
  <2> QED BY <2>6, <2>7, <2>8, <2>9, <2>10, Zenon DEF FitInv
<1> QED BY <1>1, <1>2, Zenon

(* The block becomes the caller's: what it asked for, or twice as much. *)
LEMMA FinishFits ==
  ASSUME OneCPU, IInv, FitInv, Finish(BootCPU)
  PROVE  FitInv'
<1> DEFINE c == BootCPU
           p == page[BootCPU]
<1>0. /\ c \in CPUs /\ pc[c] = "split" /\ p \in Heads /\ p \in Frames /\ p \notin Given /\ mord[c] = req[c]
      /\ UNCHANGED <<order, addr, next, prev, count, page, mord, current, zone, memmap, desc, req, caller>>
      /\ caller[c] \in Callers
      BY Zenon DEF Finish, OneCPU, IInv, TypeOK, OwnersOK, lists, boot, call, Heads, HeadsOf
<1>1. /\ pc'[c] \in {"idle", "back"} /\ ~free'[p] /\ given'[p] = caller[c] /\ asked'[p] = req[c]
      /\ \A f \in Frames : f # p => free'[f] = free[f] /\ given'[f] = given[f] /\ asked'[f] = asked[f]
      BY <1>0, Zenon DEF Finish, Goto, IInv, TypeOK
<1>2. Heads' = Heads /\ Given' = Given \cup {p}
  <2>1. caller[c] # "nobody"
        BY <1>0, Zenon DEF Callers, Loader
  <2> QED BY <1>0, <1>1, <2>1, Zenon DEF Heads, HeadsOf, Given
<1>3. \A f \in Given : f \in Frames /\ f # p
      BY <1>0, Zenon DEF Given
<1> HIDE DEF c, p
<1>4. BootCPU = c /\ page[c] = p
      BY Zenon DEF c, p
<1> USE <1>4
<1>5. HeadsFit'
      BY <1>0, <1>2, Zenon DEF FitInv, HeadsFit
<1>6. PICK lev : Levelled(lev)
      BY Zenon DEF FitInv
<1>7. Levelled(lev)'
  <2>1. \A f \in Heads : Idle(f)' => Idle(f)
        BY <1>0, <1>1, Zenon DEF Idle, Heads, HeadsOf
  <2>2. LinksLevel(lev, next, prev)'
        BY <1>0, <1>6, Zenon DEF Levelled, LinksLevel
  <2> QED BY <1>0, <1>1, <1>2, <1>6, <2>1, <2>2, Zenon DEF Levelled
<1>8. OrdersFit'
  <2>1. order[p] \in {mord[c], mord[c] + 1}
        BY <1>0, Zenon DEF FitInv, OrdersFit
  <2> QED BY <1>0, <1>1, <1>2, <1>3, <2>1, Zenon DEF FitInv, OrdersFit
<1>9. CallFits'
  <2>1. p # NULL
        BY <1>0, NodeFacts, Zenon
  <2> QED BY <1>0, <1>1, <1>2, <2>1, Zenon DEF FitInv, CallFits, BusyCall, Multiple
<1>10. DescriptorsKept'
  <2>1. \A f \in desc : Kept(f)
        BY Zenon DEF FitInv, DescriptorsKept, Kept
  <2>2. \A f \in desc : Kept(f)'
        BY <1>0, <1>1, <1>2, <1>3, <2>1, Zenon DEF Kept, Block
  <2> QED BY <1>0, <2>2, Zenon DEF DescriptorsKept, Kept
<1> QED BY <1>5, <1>7, <1>8, <1>9, <1>10, Zenon DEF FitInv

LEMMA AllocateFits ==
  ASSUME OneCPU, IInv, FitInv, PM_AllocatePages(BootCPU)
  PROVE  FitInv'
<1>1. /\ BootCPU \in CPUs /\ pc[BootCPU] = "idle" /\ pc'[BootCPU] = "scan" /\ caller'[BootCPU] = "client"
      /\ zone = Len(memmap) + 2 /\ Len(memmap) \in Nat
      /\ UNCHANGED <<order, addr, free, next, prev, desc, given, asked, zone, memmap>>
      BY MapFacts, Zenon DEF PM_AllocatePages, Call, Goto, OneCPU, IInv, TypeOK, Booted, descriptors, lists, boot
<1>2. HeadsFit' /\ (\E lev : Levelled(lev))' /\ OrdersFit' /\ DescriptorsKept'
      BY <1>1, QuietKeepsFit, Zenon
<1>3. CallFits'
      BY <1>1 DEF CallFits
<1> QED BY <1>2, <1>3, Zenon DEF FitInv

(* PM_FreePages takes a block from a client and stops. *)
LEMMA FreeFits ==
  ASSUME OneCPU, IInv, FitInv, PM_FreePages(BootCPU)
  PROVE  FitInv'
<1>1. PICK f \in Frames : /\ given[f] = "client"
                          /\ given' = [given EXCEPT ![f] = "nobody"]
      BY Zenon DEF PM_FreePages
<1>2. /\ BootCPU \in CPUs /\ pc'[BootCPU] = "fault"
      /\ UNCHANGED <<order, addr, next, prev, desc, asked>>
      BY Zenon DEF PM_FreePages, Goto, OneCPU, IInv, TypeOK, lists, boot
<1>3. /\ Heads' = Heads /\ Given' \subseteq Given
      /\ \A g \in Given : given[g] \in Loader => g \in Given' /\ given'[g] = given[g]
      BY <1>1, <1>2, Zenon DEF Heads, HeadsOf, Given, IInv, TypeOK, Loader
<1>4. HeadsFit' /\ OrdersFit'
      BY <1>2, <1>3, Zenon DEF FitInv, HeadsFit, OrdersFit
<1>5. PICK lev : Levelled(lev)
      BY Zenon DEF FitInv
<1>6. Levelled(lev)'
      BY <1>2, <1>5, Zenon DEF Levelled, LinksLevel, Idle
<1>7. CallFits'
      BY <1>2, Zenon DEF CallFits, BusyCall
<1>8. DescriptorsKept'
      BY <1>2, <1>3, Zenon DEF FitInv, DescriptorsKept, Block
<1> QED BY <1>4, <1>6, <1>7, <1>8, Zenon DEF FitInv

(* PM_MarkPagesUsed only makes frames unavailable, and what it removes is  *)
(* joined within a list.                                                   *)
LEMMA MarkFits ==
  ASSUME OneCPU, IInv, FitInv, PM_MarkPagesUsed
  PROVE  FitInv'
<1>1. /\ BootCPU \in CPUs /\ pc[BootCPU] = "mark" /\ pc'[BootCPU] \in {"mark", "idle", "spin"}
      /\ \A f \in Frames : free'[f] => free[f]
      /\ UNCHANGED <<order, addr, desc, given, asked>>
  <2>1. BootCPU \in CPUs /\ UNCHANGED <<order, addr, desc, given, asked>> /\ pc[BootCPU] = "mark"
        BY Zenon DEF PM_MarkPagesUsed, OneCPU
  <2> QED BY <2>1, Zenon DEF PM_MarkPagesUsed, Goto, IInv, TypeOK
<1>2. \/ UNCHANGED <<next, prev>>
      \/ /\ current \in Frames
         /\ next' = RemoveNext(next, prev, current) /\ prev' = RemovePrev(next, prev, current)
      BY Zenon DEF PM_MarkPagesUsed, IInv, TypeOK
<1>3. Heads' = Heads /\ Given' = Given
  <2>1. \A f \in Frames : HeadsOf(RemovePrev(next, prev, f)) = Heads
        BY RemoveKeepsLinks, Zenon DEF IInv, Heads
  <2> QED BY <1>1, <1>2, <2>1, Zenon DEF Heads, HeadsOf, Given
<1>4. HeadsFit' /\ OrdersFit' /\ DescriptorsKept'
      BY <1>1, <1>3, Zenon DEF FitInv, HeadsFit, OrdersFit, DescriptorsKept, Block
<1>5. PICK lev : Levelled(lev)
      BY Zenon DEF FitInv
<1>6. LinksLevel(lev, next', prev')
      BY <1>2, <1>5, RemoveKeepsLevel, Zenon DEF Levelled, IInv
<1>7. Levelled(lev)'
      BY <1>1, <1>3, <1>5, <1>6, Zenon DEF Levelled, LinksLevel, Idle, Heads, HeadsOf
<1>8. CallFits'
      BY <1>1, Zenon DEF CallFits, BusyCall
<1> QED BY <1>4, <1>7, <1>8, Zenon DEF FitInv

(* ALIGN_UP gives a multiple of the block size. *)
LEMMA StartAligned ==
  ASSUME memmap \in MemMaps, NEW z \in 1..Len(memmap)
  PROVE  Multiple(ZoneStart(z), BlockSize)
<1>1. memmap[z].start + BlockSize - 1 \in Nat
      BY ZoneFacts, SizeFacts
<1>2. (memmap[z].start + BlockSize - 1) \div BlockSize \in Nat
      BY <1>1, SizeFacts, DivFacts, Zenon
<1> QED BY <1>2, Zenon DEF Multiple, ZoneStart

LEMMA LoadFits ==
  ASSUME OneCPU, IInv, FitInv, LoadBlock
  PROVE  FitInv'
<1> DEFINE c == BootCPU
<1>0. /\ c \in CPUs /\ pc[c] = "load" /\ memmap \in MemMaps /\ zone \in 1..Len(memmap) /\ Len(memmap) \in Nat
      /\ UNCHANGED <<order, addr, free, next, prev, desc, given, asked, memmap>>
      BY MapFacts DEF LoadBlock, OneCPU, IInv, TypeOK, descriptors, lists
<1>1. \/ zone' = zone + 1 /\ current' = FirstFrame(zone + 1) /\ pc'[c] = "load"
      \/ pc'[c] = "scan" /\ req'[c] = DescOrder /\ caller'[c] = "space" /\ UNCHANGED <<zone, current>>
      \/ pc'[c] = "spin"
      BY <1>0 DEF LoadBlock, Call, Goto, IInv, TypeOK
<1>2. HeadsFit' /\ (\E lev : Levelled(lev))' /\ OrdersFit' /\ DescriptorsKept'
      BY <1>0, <1>1, QuietKeepsFit, Zenon
<1>3. CallFits'
  <2>1. Multiple(current, BlockSize)
        BY <1>0 DEF FitInv, CallFits
  <2>2. zone + 1 <= Len(memmap) => Multiple(FirstFrame(zone + 1), BlockSize)
        BY <1>0, StartAligned DEF FirstFrame
  <2> QED BY <1>0, <1>1, <2>1, <2>2, Zenon DEF CallFits, BusyCall, Multiple
<1> QED BY <1>2, <1>3, Zenon DEF FitInv

(* write_pages of a whole block: the list below its order gets it. *)
LEMMA WriteFits ==
  ASSUME OneCPU, IInv, FitInv, NEW b \in Nat, write_pages(b), UNCHANGED <<given, asked>>,
         b + BlockSize <= NFrames, \A x \in loaded : x < b, Multiple(b, BlockSize),
         pc[BootCPU] = "back", pc'[BootCPU] \in {"scan", "load"}
  PROVE  /\ HeadsFit' /\ (\E lev : Levelled(lev))' /\ OrdersFit'
         /\ \A f : Kept(f) => Kept(f)'
         /\ b \in Heads' /\ free'[b] /\ next'[Handle(MaxOrder - 1)] = b
         /\ count' = [count EXCEPT ![MaxOrder - 1] = WrapInc(@)]
<1>1. /\ Heads' = Heads \cup {b} /\ b \notin Heads /\ b \in Frames /\ order'[b] = MaxOrder
      /\ \A f \in Heads : f \notin Block(b, MaxOrder) /\ f # b /\ order'[f] = order[f]
      BY WriteKeeps, Zenon
<1>2. b \in Block(b, MaxOrder) /\ MaxOrder - 1 \in 0..MaxOrder
      BY SizeFacts DEF Block
<1>3. /\ free'[b] /\ addr'[b] = b
      /\ \A f \in Heads : f \in Frames /\ free'[f] = free[f] /\ addr'[f] = addr[f]
      BY <1>1, <1>2, Zenon DEF write_pages, Heads, HeadsOf, IInv, TypeOK
<1>4. /\ next' = AppendNext(next, prev, Handle(MaxOrder - 1), b)
      /\ prev' = AppendPrev(next, prev, Handle(MaxOrder - 1), b)
      /\ count' = [count EXCEPT ![MaxOrder - 1] = WrapInc(@)]
      BY Zenon DEF write_pages
<1>5. next'[Handle(MaxOrder - 1)] = b
      BY <1>1, <1>2, <1>4, NodeFacts, Zenon DEF AppendNext, IInv, TypeOK
<1>6. HeadsFit'
  <2>1. \A f \in Heads \cup {b} : addr'[f] = f /\ Multiple(f, Size[order'[f]])
        BY <1>1, <1>3, Zenon DEF FitInv, HeadsFit, BlockSize
  <2> QED BY <1>1, <2>1, Zenon DEF HeadsFit, Multiple
<1>7. (\E lev : Levelled(lev))'
  <2>1. PICK lev : Levelled(lev)
        BY Zenon DEF FitInv
  <2>2. PICK lev1 : lev1 = [lev EXCEPT ![b] = MaxOrder - 1]
        BY Zenon
  <2>3. LinksLevel(lev1, next', prev')
        BY <1>1, <1>2, <1>4, <2>1, <2>2, AppendKeepsLevel, Zenon DEF Levelled, IInv, Heads
  <2>4. lev1[b] = MaxOrder - 1 /\ \A f \in Heads : lev1[f] = lev[f]
        BY <1>1, <1>3, <2>1, <2>2, NodeFacts DEF Levelled, LinksLevel
  <2>5. \A f \in Heads : Idle(f)' => Idle(f)
        BY <1>3, Zenon DEF Idle
  <2>6. \A f \in Heads' : Idle(f)' => order'[f] \in {lev1[f], lev1[f] + 1}
    <3>1. MaxOrder = MaxOrder - 1 + 1
          BY OrderFacts
    <3>2. order'[b] \in {lev1[b], lev1[b] + 1}
          BY <1>1, <2>4, <3>1, Zenon
    <3>3. \A f \in Heads : Idle(f)' => order'[f] \in {lev1[f], lev1[f] + 1}
          BY <1>1, <2>1, <2>4, <2>5, Zenon DEF Levelled
    <3> QED BY <1>1, <3>2, <3>3, Zenon
  <2>7. Levelled(lev1)'
        BY <2>3, <2>6, Zenon DEF Levelled, LinksLevel
  <2> QED BY <2>7, Zenon
<1>8. Given' = Given /\ \A f \in Given : order'[f] = order[f]
      BY <1>1, Zenon DEF Given, IInv, OwnersOK
<1>9. OrdersFit'
      BY <1>8, Zenon DEF FitInv, OrdersFit
<1>10. \A f : Kept(f) => Kept(f)'
       BY <1>8, KeptStays, Zenon
<1> QED BY <1>1, <1>3, <1>4, <1>5, <1>6, <1>7, <1>9, <1>10, Zenon

LEMMA BootstrapFits ==
  ASSUME OneCPU, IInv, FitInv, Bootstrap
  PROVE  FitInv'
<1> DEFINE c == BootCPU
<1>0. /\ pc[c] = "back" /\ caller[c] = "space" /\ page[c] = NULL /\ caller[c] \in Loader
      /\ write_pages(current) /\ Call(c, DescOrder, "first")
      /\ UNCHANGED <<zone, current, desc, memmap, given, asked>>
      BY Zenon DEF Bootstrap, Loader
<1>1. /\ c \in CPUs /\ current \in Nat /\ zone \in 1..Len(memmap) /\ current + BlockSize <= NFrames
      /\ \A x \in loaded : x < current
      BY <1>0, BlockAhead, Zenon
<1>2. pc'[c] = "scan" /\ caller'[c] = "first" /\ req'[c] = DescOrder
      BY <1>0, <1>1, Zenon DEF Call, Goto, IInv, TypeOK
<1>3. Multiple(current, BlockSize)
  <2>1. "back" \in BusyCall /\ c = BootCPU /\ (zone <= Len(memmap))
        BY <1>1 DEF BusyCall
  <2> QED BY <1>0, <2>1, Zenon DEF FitInv, CallFits
<1>4. /\ HeadsFit' /\ (\E lev : Levelled(lev))' /\ OrdersFit'
      /\ \A f : Kept(f) => Kept(f)'
      /\ current \in Heads' /\ free'[current] /\ next'[Handle(MaxOrder - 1)] = current
      /\ count' = [count EXCEPT ![MaxOrder - 1] = WrapInc(@)]
      BY <1>0, <1>1, <1>2, <1>3, WriteFits, Zenon
<1>5. DescriptorsKept'
      BY <1>0, <1>4, Zenon DEF FitInv, DescriptorsKept, Kept
<1>6. \A m \in DescOrder..MaxOrder : m # MaxOrder - 1 => count'[m] = 0
  <2>1. \A m \in DescOrder..MaxOrder : count[m] = 0
        BY <1>0, Zenon DEF FitInv, CallFits
  <2>2. \A m \in DescOrder..MaxOrder : m \in 0..MaxOrder
        BY OrderFacts
  <2> QED BY <1>4, <2>1, <2>2, Zenon DEF IInv, TypeOK
<1>7. OnlyCurrent'
      BY <1>0, <1>4, Zenon DEF OnlyCurrent
<1>8. CallFits'
      BY <1>0, <1>2, <1>3, <1>6, <1>7, Zenon DEF CallFits, BusyCall, Multiple
<1> QED BY <1>4, <1>5, <1>8, Zenon DEF FitInv

(* AllocateAgain and NoPage only go on to the next call, or stop. *)
LEMMA GoOnFits ==
  ASSUME OneCPU, IInv, FitInv, AllocateAgain \/ NoPage
  PROVE  FitInv'
<1> DEFINE c == BootCPU
<1>0. /\ c \in CPUs /\ pc[c] = "back"
      /\ UNCHANGED <<order, addr, free, next, prev, current, zone, memmap, desc, given, asked>>
      BY Zenon DEF AllocateAgain, NoPage, OneCPU, descriptors, lists, boot
<1>1. \/ pc'[c] = "scan" /\ req'[c] = DescOrder /\ caller'[c] = "desc"
      \/ pc'[c] \in Stopped
      BY <1>0, Zenon DEF AllocateAgain, NoPage, Call, Goto, IInv, TypeOK, Stopped
<1>2. HeadsFit' /\ (\E lev : Levelled(lev))' /\ OrdersFit' /\ DescriptorsKept'
      BY <1>0, <1>1, QuietKeepsFit, Zenon DEF Stopped
<1>3. CallFits'
      BY <1>0, <1>1, Zenon DEF FitInv, CallFits, BusyCall, Multiple, Stopped
<1> QED BY <1>2, <1>3, Zenon DEF FitInv

(* The first frames of the block that PM_AllocatePages(4) returned are the *)
(* loader's.                                                               *)
LEMMA OwnBlock ==
  ASSUME OneCPU, IInv, FitInv, pc[BootCPU] = "back", page[BootCPU] # NULL,
         caller[BootCPU] \in {"first", "desc"}
  PROVE  /\ page[BootCPU] \in Frames /\ addr[page[BootCPU]] = page[BootCPU]
         /\ \A f \in Block(page[BootCPU], DescOrder) : Kept(f)
<1> DEFINE p == page[BootCPU]
<1>1. /\ p \in Given /\ given[p] \in Loader /\ asked[p] = DescOrder
      BY Zenon DEF FitInv, CallFits, BusyCall, Loader
<1>2. p \in Heads /\ p \in Frames /\ p \in Nat /\ order[p] \in 0..MaxOrder
  <2>1. p \in Heads /\ p \in Frames
        BY <1>1, Zenon DEF IInv, OwnersOK, Heads, HeadsOf
  <2>2. p \in Nat
        BY <2>1, SizeFacts DEF Frames
  <2>3. order[p] \in 0..MaxOrder
        BY <2>1, Zenon DEF IInv, TypeOK
  <2> QED BY <2>1, <2>2, <2>3, Zenon
<1>3. addr[p] = p
      BY <1>2, Zenon DEF FitInv, HeadsFit
<1>4. order[p] \in {DescOrder, DescOrder + 1}
      BY <1>1, Zenon DEF FitInv, OrdersFit
<1>5. Size[DescOrder] \in Nat /\ Size[order[p]] \in Nat /\ Size[DescOrder] <= Size[order[p]]
  <2>1. DescOrder \in 0..MaxOrder
        BY OrderFacts, Zenon
  <2>2. CASE order[p] = DescOrder
        BY <2>1, <2>2, SizeFacts
  <2>3. CASE order[p] = DescOrder + 1
    <3>1. order[p] \in 1..MaxOrder /\ order[p] - 1 = DescOrder
          BY <1>2, <2>1, <2>3, SizeFacts
    <3>2. Size[order[p]] = Size[DescOrder] + Size[DescOrder]
          BY <3>1, SizeAssumption, Zenon
    <3> QED BY <2>1, <3>2, SizeFacts
  <2> QED BY <1>4, <2>2, <2>3, Zenon
<1>6. \A f \in Block(p, DescOrder) : f \in Block(p, order[p])
      BY <1>2, <1>5 DEF Block
<1> QED BY <1>1, <1>2, <1>3, <1>6, Zenon DEF Kept

(* Multiples of the block size follow each other. *)
LEMMA NextAligned ==
  ASSUME NEW f \in Nat, Multiple(f, BlockSize)
  PROVE  Multiple(f + BlockSize, BlockSize)
<1>1. PICK m \in Nat : f = m * BlockSize
      BY Zenon DEF Multiple
<1>2. f + BlockSize = (m + 1) * BlockSize /\ m + 1 \in Nat
      BY <1>1, SizeFacts
<1> QED BY <1>2, Zenon DEF Multiple

LEMMA MapOwnFits ==
  ASSUME OneCPU, IInv, FitInv, MapOwnFrames
  PROVE  FitInv'
<1> DEFINE c == BootCPU
<1>0. /\ c \in CPUs /\ pc[c] = "back" /\ caller[c] = "first" /\ page[c] # NULL /\ current \in Nat
      /\ desc' = desc \cup Block(current, DescOrder)
      /\ UNCHANGED <<order, addr, free, next, prev, zone, memmap, given, asked>>
      BY Zenon DEF MapOwnFrames, OneCPU, IInv, TypeOK, descriptors, lists
<1>1. \/ pc'[c] = "load" /\ current' = current + BlockSize
      \/ pc'[c] = "scan" /\ caller'[c] = "firstTable" /\ current' = current
      BY <1>0, Zenon DEF MapOwnFrames, NextBlock, Call, Goto, IInv, TypeOK
<1>2. HeadsFit' /\ (\E lev : Levelled(lev))' /\ OrdersFit'
      BY <1>0, <1>1, QuietKeepsFit, Zenon
<1>3. \A f \in desc' : Kept(f)
  <2>1. page[c] = current
        BY <1>0, Zenon DEF FitInv, CallFits
  <2>2. \A f \in Block(current, DescOrder) : Kept(f)
        BY <1>0, <2>1, OwnBlock, Zenon
  <2> QED BY <1>0, <2>2, Zenon DEF FitInv, DescriptorsKept, Kept
<1>4. DescriptorsKept'
  <2>1. \A f \in desc' : Kept(f)'
        BY <1>0, <1>3, KeptStays, Zenon
  <2> QED BY <2>1, Zenon DEF DescriptorsKept, Kept
<1>5. CallFits'
  <2>1. zone <= Len(memmap) => Multiple(current, BlockSize) /\ Multiple(current + BlockSize, BlockSize)
        BY <1>0, NextAligned, Zenon DEF FitInv, CallFits, BusyCall
  <2> QED BY <1>0, <1>1, <2>1, Zenon DEF CallFits, BusyCall, Multiple
<1> QED BY <1>2, <1>4, <1>5, Zenon DEF FitInv

(* The block at current is written and the loop goes on. *)
LEMMA WriteNextFits ==
  ASSUME OneCPU, IInv, FitInv, pc[BootCPU] = "back", caller[BootCPU] \in {"desc", "descTable"},
         write_pages(current), NextBlock, UNCHANGED <<zone, memmap, given, asked>>,
         \A f \in desc' : Kept(f)
  PROVE  FitInv'
<1> DEFINE c == BootCPU
<1>1. /\ c \in CPUs /\ current \in Nat /\ zone \in 1..Len(memmap) /\ current + BlockSize <= NFrames
      /\ \A x \in loaded : x < current
      BY BlockAhead, Zenon DEF Loader
<1>2. pc'[c] = "load" /\ current' = current + BlockSize
      BY <1>1, Zenon DEF NextBlock, Goto, IInv, TypeOK
<1>3. Multiple(current, BlockSize) /\ Multiple(current + BlockSize, BlockSize)
      BY <1>1, NextAligned DEF FitInv, CallFits, BusyCall
<1>4. /\ HeadsFit' /\ (\E lev : Levelled(lev))' /\ OrdersFit'
      /\ \A f : Kept(f) => Kept(f)'
      BY <1>1, <1>2, <1>3, WriteFits, Zenon
<1>5. DescriptorsKept'
      BY <1>4, Zenon DEF DescriptorsKept, Kept
<1>6. CallFits'
      BY <1>2, <1>3, Zenon DEF CallFits, BusyCall, Multiple
<1> QED BY <1>4, <1>5, <1>6, Zenon DEF FitInv

LEMMA MapNewFits ==
  ASSUME OneCPU, IInv, FitInv, MapNewFrames
  PROVE  FitInv'
<1> DEFINE c == BootCPU
<1>0. /\ c \in CPUs /\ pc[c] = "back" /\ caller[c] = "desc" /\ page[c] # NULL
      /\ desc' = desc \cup Block(addr[page[c]], DescOrder)
      /\ UNCHANGED <<zone, memmap, given, asked>>
      BY Zenon DEF MapNewFrames, OneCPU
<1>1. \A f \in desc' : Kept(f)
  <2>1. addr[page[c]] = page[c] /\ \A f \in Block(page[c], DescOrder) : Kept(f)
        BY <1>0, OwnBlock, Zenon
  <2> QED BY <1>0, <2>1, Zenon DEF FitInv, DescriptorsKept, Kept
<1>2. CASE write_pages(current) /\ NextBlock
      BY <1>0, <1>1, <1>2, WriteNextFits, Zenon
<1>3. CASE /\ Call(c, 0, "descTable")
           /\ UNCHANGED <<descriptors, lists, current, loaded>>
  <2>1. /\ pc'[c] = "scan" /\ caller'[c] = "descTable"
        /\ UNCHANGED <<order, addr, free, next, prev, current>>
        BY <1>0, <1>3, Zenon DEF Call, Goto, IInv, TypeOK, descriptors, lists
  <2>2. HeadsFit' /\ (\E lev : Levelled(lev))' /\ OrdersFit'
        BY <1>0, <2>1, QuietKeepsFit, Zenon
  <2>3. \A f \in desc' : Kept(f)'
        BY <1>0, <1>1, <2>1, KeptStays, Zenon
  <2>4. DescriptorsKept'
        BY <2>3, Zenon DEF DescriptorsKept, Kept
  <2>5. CallFits'
        BY <1>0, <2>1, Zenon DEF FitInv, CallFits, BusyCall, Multiple
  <2> QED BY <2>2, <2>4, <2>5, Zenon DEF FitInv
<1> QED BY <1>2, <1>3, Zenon DEF MapNewFrames

LEMMA TableFits ==
  ASSUME OneCPU, IInv, FitInv, TableReady
  PROVE  FitInv'
<1> DEFINE c == BootCPU
<1>0. /\ c \in CPUs /\ pc[c] = "back" /\ current \in Nat /\ NextBlock
      /\ UNCHANGED <<zone, desc, memmap, given, asked>>
      BY Zenon DEF TableReady, OneCPU, IInv, TypeOK
<1>1. CASE write_pages(current) /\ caller[c] = "descTable"
  <2>1. \A f \in desc' : Kept(f)
        BY <1>0, Zenon DEF FitInv, DescriptorsKept, Kept
  <2> QED BY <1>0, <1>1, <2>1, WriteNextFits, Zenon
<1>2. CASE UNCHANGED <<descriptors, lists, loaded>>
  <2>1. /\ pc'[c] = "load" /\ current' = current + BlockSize
        /\ UNCHANGED <<order, addr, free, next, prev>>
        BY <1>0, <1>2, Zenon DEF NextBlock, Goto, IInv, TypeOK, descriptors, lists
  <2>2. HeadsFit' /\ (\E lev : Levelled(lev))' /\ OrdersFit' /\ DescriptorsKept'
        BY <1>0, <2>1, QuietKeepsFit, Zenon
  <2>3. zone <= Len(memmap) => Multiple(current + BlockSize, BlockSize)
        BY <1>0, NextAligned, Zenon DEF FitInv, CallFits, BusyCall
  <2>4. CallFits'
        BY <1>0, <2>1, <2>3, Zenon DEF CallFits, BusyCall, Multiple
  <2> QED BY <2>2, <2>4, Zenon DEF FitInv
<1> QED BY <1>1, <1>2, Zenon DEF TableReady

LEMMA EnterMarkFits ==
  ASSUME OneCPU, IInv, FitInv, EnterMark
  PROVE  FitInv'
<1>1. /\ BootCPU \in CPUs /\ pc[BootCPU] = "load" /\ pc'[BootCPU] = "mark"
      /\ UNCHANGED <<order, addr, free, next, prev, desc, given, asked>>
      BY Zenon DEF EnterMark, Goto, OneCPU, IInv, TypeOK, descriptors, lists
<1>2. HeadsFit' /\ (\E lev : Levelled(lev))' /\ OrdersFit' /\ DescriptorsKept'
      BY <1>1, QuietKeepsFit, Zenon
<1>3. CallFits'
      BY <1>1, Zenon DEF CallFits, BusyCall
<1> QED BY <1>2, <1>3, Zenon DEF FitInv

LEMMA StutterFits ==
  ASSUME FitInv, UNCHANGED vars
  PROVE  FitInv'
<1> USE DEF vars, descriptors, lists, call, boot
<1>1. Heads' = Heads /\ Given' = Given
      BY Zenon DEF Heads, HeadsOf, Given
<1>2. HeadsFit' /\ OrdersFit' /\ DescriptorsKept'
      BY <1>1, Zenon DEF FitInv, HeadsFit, OrdersFit, DescriptorsKept, Block
<1>3. PICK lev : Levelled(lev)
      BY Zenon DEF FitInv
<1>4. Levelled(lev)'
      BY <1>1, <1>3, Zenon DEF Levelled, LinksLevel, Idle
<1>5. CallFits'
      BY <1>1, Zenon DEF FitInv, CallFits, Multiple, OnlyCurrent
<1> QED BY <1>2, <1>4, <1>5, Zenon DEF FitInv

LEMMA InitFits ==
  ASSUME OneCPU, Init
  PROVE  FitInv
<1>1. Heads = {} /\ Given = {} /\ desc = {}
      BY NodeFacts, Zenon DEF Init, Heads, HeadsOf, Given
<1>2. BootCPU \in CPUs /\ pc[BootCPU] = "load" /\ zone = 1 /\ current = FirstFrame(1)
      /\ memmap \in MemMaps /\ Len(memmap) \in Nat
      BY MapFacts, Zenon DEF Init, OneCPU
<1>3. PICK lev : lev = [n \in Nodes |-> IF n \in Frames THEN 0 ELSE n - NFrames]
      BY Zenon
<1>4. Levelled(lev)
  <2>1. /\ \A k \in 0..MaxOrder : lev[Handle(k)] = k
        /\ lev \in [Nodes -> 0..MaxOrder]
    <3>1. \A k \in 0..MaxOrder : Handle(k) \in Nodes /\ Handle(k) \notin Frames /\ Handle(k) - NFrames = k
          BY SizeFacts, NodeFacts DEF Handle
    <3>2. \A n \in Nodes : n \in Frames \/ \E k \in 0..MaxOrder : n = Handle(k)
          BY Zenon DEF Nodes, Handles
    <3>3. 0 \in 0..MaxOrder
          BY SizeFacts
    <3> HIDE DEF Handle
    <3>4. \A k \in 0..MaxOrder : lev[Handle(k)] = k
          BY <1>3, <3>1, Zenon
    <3>5. \A n \in Nodes : lev[n] \in 0..MaxOrder
          BY <1>3, <3>2, <3>3, <3>4
    <3> QED BY <1>3, <3>4, <3>5, Zenon
  <2>2. \A n \in Nodes : next[n] = NULL /\ prev[n] = NULL
        BY Zenon DEF Init
  <2> QED BY <1>1, <1>2, <2>1, <2>2, Zenon DEF Levelled, LinksLevel
<1>5. CallFits
  <2>1. zone <= Len(memmap) => Multiple(current, BlockSize)
        BY <1>2, StartAligned DEF FirstFrame
  <2> QED BY <1>2, <2>1, Zenon DEF CallFits, BusyCall
<1> QED BY <1>1, <1>2, <1>4, <1>5, Zenon DEF FitInv, HeadsFit, OrdersFit, DescriptorsKept

LEMMA NextFits == OneCPU /\ IInv /\ FitInv /\ [Next]_vars => FitInv'
<1> SUFFICES ASSUME OneCPU, IInv, FitInv, Next PROVE FitInv'
    BY StutterFits, Zenon
<1>1. CASE LoadZones
      BY <1>1, LoadFits, BootstrapFits, GoOnFits, MapOwnFits, MapNewFits, TableFits,
         EnterMarkFits, MarkFits, Zenon DEF LoadZones
<1>2. CASE InAllocator(BootCPU)
      BY <1>2, ScanFits, SelectFits, TakeFits, ExpandFits, FinishFits, Zenon DEF InAllocator
<1>3. CASE PM_AllocatePages(BootCPU) \/ PM_FreePages(BootCPU)
      BY <1>3, AllocateFits, FreeFits, Zenon
<1> QED BY <1>1, <1>2, <1>3, Zenon DEF Next, OneCPU

(* A multiple leaves no remainder. *)
LEMMA NoRemainder ==
  ASSUME NEW f, NEW s \in Nat, s >= 1, Multiple(f, s)
  PROVE  f % s = 0
<1>1. PICK m \in Nat : f = m * s
      BY Zenon DEF Multiple
<1> DEFINE d == f \div s
           r == f % s
<1>2. f \in Nat
      BY <1>1
<1>3. f = s * d + r /\ 0 <= r /\ r < s /\ r \in Int /\ d \in Int
      BY <1>2, SMT
<1> HIDE DEF d, r
<1>4. (m - d) * s = r
      BY <1>1, <1>3
<1>5. m - d = 0
  <2>1. CASE m - d >= 1
    <3>1. (m - d) * s >= s
          BY <1>3, <2>1
    <3> QED BY <1>3, <1>4, <3>1
  <2>2. CASE m - d <= -1
    <3>1. (m - d) * s <= -s
          BY <1>3, <2>2
    <3> QED BY <1>3, <1>4, <3>1
  <2> QED BY <1>3, <2>1, <2>2
<1>6. r = 0
      BY <1>4, <1>5, <1>3
<1> QED BY <1>6, Zenon DEF r

LEMMA FitImpliesBlockFits == IInv /\ FitInv => BlockFits
<1> SUFFICES ASSUME IInv, FitInv, NEW f \in Given
             PROVE  /\ order[f] \in {asked[f], asked[f] + 1}
                    /\ f % Size[order[f]] = 0
                    /\ Block(f, order[f]) \subseteq loaded
                    /\ addr[f] = f
    BY Zenon DEF BlockFits
<1>1. f \in Heads /\ order[f] \in 0..MaxOrder
      BY Zenon DEF IInv, OwnersOK, Given, TypeOK
<1>2. addr[f] = f /\ Multiple(f, Size[order[f]])
      BY <1>1, Zenon DEF FitInv, HeadsFit
<1>3. f % Size[order[f]] = 0
      BY <1>1, <1>2, SizeFacts, NoRemainder, Zenon
<1>4. Block(f, order[f]) \subseteq loaded
      BY <1>1, Zenon DEF IInv, BlocksOK, Block
<1> QED BY <1>2, <1>3, <1>4, Zenon DEF FitInv, OrdersFit

LEMMA FitAlways ==
  ASSUME OneCPU
  PROVE  Spec => [](IInv /\ FitInv)
<1>1. Init => IInv /\ FitInv
      BY InitInv, InitFits, Zenon
<1>2. IInv /\ FitInv /\ [Next]_vars => (IInv /\ FitInv)'
      BY NextKeeps, NextFits, Zenon
<1> QED BY <1>1, <1>2, PTL DEF Spec

(* While only the boot CPU allocates, every block that PM_AllocatePages    *)
(* handed out has the order its caller asked for or the next one, is       *)
(* aligned to its size, consists of frames that were loaded, and has the   *)
(* address of its first frame: whatever was split before, and although     *)
(* descriptors are removed from lists they left long ago.                  *)
THEOREM OneCPUBlockFits ==
  ASSUME OneCPU
  PROVE  Spec => []BlockFits
<1>1. IInv /\ FitInv => BlockFits
      BY FitImpliesBlockFits, Zenon
<1> QED BY <1>1, FitAlways, PTL

(* While only the boot CPU allocates, the frames that hold the descriptors *)
(* of page.c stay in blocks that PM_LoadZoneRange was handed, for every    *)
(* memory map: a block whose own first frames hold its descriptors is the  *)
(* block that line 155 gets.                                               *)
THEOREM OneCPUDescriptorsKept ==
  ASSUME OneCPU
  PROVE  Spec => []DescriptorsKept
<1>1. FitInv => DescriptorsKept
      BY Zenon DEF FitInv
<1> QED BY <1>1, FitAlways, PTL
-----------------------------------------------------------------------------
(***************************************************************************)
(* The lock under all this.  A step of PageFrames is one critical section  *)
(* of a spinlock; for any set of CPUs the xchg lock of Spinlock lets in    *)
(* one of them at a time, and implements the abstract lock.                *)
(***************************************************************************)

(* MutualExclusion is not inductive: an xchg that finds 0 must know that   *)
(* nobody is inside, which is what WordMatchesHolder adds.                 *)
LockInv == LockTypeOK /\ MutualExclusion /\ WordMatchesHolder

(* Every instruction of AcquireLock and ReleaseLock keeps the three parts. *)
LEMMA LockStepKeeps == LockInv /\ [LockNext]_lockVars => LockInv'
<1> USE DEF LockInv, LockTypeOK, MutualExclusion, WordMatchesHolder, PC
<1> SUFFICES ASSUME LockInv, [LockNext]_lockVars PROVE LockInv'
    OBVIOUS
<1>1. ASSUME NEW c \in Processors, Acquire(c) PROVE LockInv'
      BY <1>1 DEF Acquire
<1>2. ASSUME NEW c \in Processors, Exchange(c) PROVE LockInv'
  <2>1. CASE lock = 0
        BY <1>2, <2>1 DEF Exchange
  <2>2. CASE lock = 1
        BY <1>2, <2>2 DEF Exchange
  <2> QED BY <2>1, <2>2
<1>3. ASSUME NEW c \in Processors, Spin(c) PROVE LockInv'
      BY <1>3 DEF Spin
<1>4. ASSUME NEW c \in Processors, Release(c) PROVE LockInv'
      BY <1>4 DEF Release
<1>5. CASE UNCHANGED lockVars
      BY <1>5 DEF lockVars
<1> QED BY <1>1, <1>2, <1>3, <1>4, <1>5 DEF LockNext, LockStep

(* In every behaviour of AcquireLock and ReleaseLock at most one CPU is    *)
(* inside and the lock word tells whether one is.                          *)
THEOREM LockIsExclusive ==
  LockSpec => [](LockTypeOK /\ MutualExclusion /\ WordMatchesHolder)
<1>1. LockInit => LockInv
      BY DEF LockInit, LockInv, LockTypeOK, MutualExclusion, WordMatchesHolder, PC
<1> QED BY <1>1, LockStepKeeps, PTL DEF LockSpec, LockInv

(* Every step of the xchg loop is a step of the abstract lock or none:     *)
(* the call is Request, a successful xchg is Grant, ReleaseLock is         *)
(* Release, and a failed xchg or a look at the lock changes nothing.       *)
THEOREM LockIsAbstract == LockSpec => ImplementsLock
<1>1. LockInit => Abs!Init
      BY DEF LockInit, Abs!Init
<1>2. LockInv /\ [LockNext]_lockVars => [Abs!Next]_Abs!vars
  <2> USE DEF LockInv, LockTypeOK, MutualExclusion, WordMatchesHolder, PC
  <2> SUFFICES ASSUME LockInv, [LockNext]_lockVars PROVE [Abs!Next]_Abs!vars
      OBVIOUS
  <2>1. ASSUME NEW c \in Processors, Acquire(c) PROVE Abs!Request(c)
        BY <2>1 DEF Acquire, Abs!Request
  <2>2. ASSUME NEW c \in Processors, Exchange(c), lock = 0 PROVE Abs!Grant(c)
        BY <2>2 DEF Exchange, Abs!Grant
  <2>3. ASSUME NEW c \in Processors, Exchange(c), lock = 1 PROVE UNCHANGED Abs!vars
        BY <2>3 DEF Exchange, Abs!vars
  <2>4. ASSUME NEW c \in Processors, Spin(c) PROVE UNCHANGED Abs!vars
        BY <2>4 DEF Spin, Abs!vars
  <2>5. ASSUME NEW c \in Processors, Release(c) PROVE Abs!Release(c)
        BY <2>5 DEF Release, Abs!Release
  <2>6. CASE UNCHANGED lockVars
        BY <2>6 DEF lockVars, Abs!vars
  <2> QED BY <2>1, <2>2, <2>3, <2>4, <2>5, <2>6 DEF LockNext, LockStep, Abs!Next
<1>3. LockInit => LockInv
      BY DEF LockInit, LockInv, LockTypeOK, MutualExclusion, WordMatchesHolder, PC
<1> QED BY <1>1, <1>2, <1>3, LockStepKeeps, PTL DEF LockSpec, ImplementsLock, Abs!Spec

=============================================================================
