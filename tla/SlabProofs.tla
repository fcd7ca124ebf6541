----------------------------- MODULE SlabProofs -----------------------------
(***************************************************************************)
(* What __slab_AllocateObject keeps, for any block sizes, any number of    *)
(* pages and of objects in them, and any number of writes by the callers.  *)
(***************************************************************************)
EXTENDS Slab, TLAPS

(* A CPU slab with a list has a page; callers hold pointers; a page that   *)
(* was requested counts its first object; the call that uses up a page is  *)
(* the last one, so a count is below the number of objects while the       *)
(* processor runs.                                                         *)
Bounds ==
  /\ \A c \in Caches : cpuFreelist[c] # NULL => cpuPage[c] # NULL
  /\ Held \subseteq Pointer
  /\ \A p \in SlabPages : slabCache[p] # NULL => inuse[p] >= 1
  /\ state = "run" => \A p \in SlabPages : inuse[p] < ObjectsPerPage

(* The page of a CPU slab was requested for its cache. *)
PageServesOneCache ==
  \A c \in Caches : cpuPage[c] # NULL => slabCache[cpuPage[c]] = c

(* The objects of a page that nobody has written into lead from one to the *)
(* next.  Before any write, what callers hold lies before the object the   *)
(* list starts at, or is the page's first.                                 *)
Untouched ==
  /\ \A o \in Objects :
       slabCache[o[1]] # NULL /\ o[1] \notin dirty /\ o[2] < ObjectsPerPage - 1
         => word[o] = <<o[1], o[2] + 1>>
  /\ writes = 0 =>
       /\ dirty = {}
       /\ \A o \in Held :
            /\ o \in Objects
            /\ slabCache[o[1]] # NULL
            /\ o[2] = 0 \/ o[2] < inuse[o[1]] - 1

(* ListMatchesCount needs to know what the next word of the list holds,    *)
(* and OnlyFirstRepeats which objects are held.                            *)
IInv ==
  TypeOK /\ Bounds /\ PageServesOneCache /\ ListMatchesCount /\ Untouched /\ OnlyFirstRepeats

(* KM_Initialize leaves no page, no list and no holder. *)
LEMMA InitInv == Init => IInv
<1> SUFFICES ASSUME Init PROVE IInv
    BY Zenon
<1> USE SlabAssumption DEF Init, Held
<1>1. TypeOK
      BY DEF TypeOK, Pointer
<1>2. Bounds /\ PageServesOneCache /\ ListMatchesCount
      BY DEF Bounds, PageServesOneCache, ListMatchesCount
<1>3. Untouched /\ OnlyFirstRepeats
  <2>1. \A o \in Objects : slabCache[o[1]] = NULL
        BY Zenon DEF Objects
  <2> QED BY <2>1, Zenon DEF Untouched, OnlyFirstRepeats
<1> QED BY <1>1, <1>2, <1>3, Zenon DEF IInv

(* After a call that returned obj, callers hold obj and what they held.    *)
LEMMA ReturnHolds ==
  ASSUME NEW obj, NEW size, Return(obj, size)
  PROVE  Held' = Held \cup {obj}
<1>1. given' = given \cup {<<obj, size>>} /\ <<obj, size>>[1] = obj
      BY Zenon DEF Return
<1>2. ASSUME NEW x \in Held' PROVE x \in Held \cup {obj}
  <2>1. PICK g \in given' : x = g[1]
        BY <1>2, Zenon DEF Held
  <2>2. CASE g \in given
        BY <2>1, <2>2, Zenon DEF Held
  <2>3. CASE g = <<obj, size>>
        BY <2>1, <2>3, <1>1, Zenon
  <2> QED BY <1>1, <2>2, <2>3, Zenon
<1>3. ASSUME NEW x \in Held PROVE x \in Held'
  <2>1. PICK g \in given : x = g[1]
        BY <1>3, Zenon DEF Held
  <2>2. g \in given'
        BY <1>1, Zenon
  <2> QED BY <2>1, <2>2, Zenon DEF Held
<1>4. obj \in Held'
  <2>1. <<obj, size>> \in given'
        BY <1>1, Zenon
  <2> QED BY <1>1, <2>1, Zenon DEF Held
<1> QED BY <1>2, <1>3, <1>4, Zenon

(* A new page was nobody's, so no CPU slab has it and nobody holds its     *)
(* objects.                                                                *)
LEMMA SlowestKeeps ==
  ASSUME IInv, state = "run", NEW c \in Caches, NEW size, SlowestPath(c, size)
  PROVE  IInv'
<1> USE SlabAssumption DEF IInv
<1>1. PICK p \in SlabPages :
        /\ slabCache[p] = NULL
        /\ slabCache' = [slabCache EXCEPT ![p] = c]
        /\ word' = Threaded(p)
        /\ cpuFreelist' = [cpuFreelist EXCEPT ![c] = <<p, 0>>]
        /\ cpuPage' = [cpuPage EXCEPT ![c] = p]
        /\ freelist' = [freelist EXCEPT ![p] = word'[<<p, 0>>]]
        /\ inuse' = [inuse EXCEPT ![p] = 1]
        /\ dirty' = dirty \ {p}
        /\ Return(<<p, 0>>, size)
      BY Zenon DEF SlowestPath
<1>2. writes' = writes /\ state' = state
      BY Zenon DEF SlowestPath
<1>3. <<p, 0>> \in Objects
      BY DEF Objects
<1>4. Held' = Held \cup {<<p, 0>>}
      BY <1>1, ReturnHolds, Zenon
<1>5. ASSUME NEW o \in Objects
      PROVE  /\ o[1] \in SlabPages /\ o[2] \in 0..(ObjectsPerPage - 1)
             /\ word'[o] = IF o[1] = p /\ o[2] < ObjectsPerPage - 1
                           THEN <<p, o[2] + 1>> ELSE word[o]
             /\ o[2] < ObjectsPerPage - 1 => <<o[1], o[2] + 1>> \in Objects
      BY <1>1, <1>5 DEF Objects, Threaded
<1>6. \A d \in Caches : cpuPage[d] # p
      BY <1>1, Zenon DEF PageServesOneCache
<1>7. TypeOK'
  <2>1. word' \in [Objects -> Pointer]
    <3>1. ASSUME NEW o \in Objects PROVE word'[o] \in Pointer
      <4>1. CASE o[1] = p /\ o[2] < ObjectsPerPage - 1
        <5>1. word'[o] = <<o[1], o[2] + 1>> /\ <<o[1], o[2] + 1>> \in Objects
              BY <4>1, <1>5, Zenon
        <5> QED BY <5>1, Zenon DEF Pointer
      <4>2. CASE ~(o[1] = p /\ o[2] < ObjectsPerPage - 1)
        <5>1. word'[o] = word[o]
              BY <4>2, <1>5, Zenon
        <5> QED BY <5>1, Zenon DEF TypeOK
      <4> QED BY <4>1, <4>2, Zenon
    <3> QED BY <3>1, <1>1, Zenon DEF Threaded
  <2>2. freelist' \in [SlabPages -> Pointer]
        BY <1>1, <1>3, <2>1, Zenon DEF TypeOK
  <2>3. cpuFreelist' \in [Caches -> Pointer] /\ cpuPage' \in [Caches -> SlabPages \cup {NULL}]
        BY <1>1, <1>3, Zenon DEF TypeOK, Pointer
  <2>4. slabCache' \in [SlabPages -> Caches \cup {NULL}] /\ inuse' \in [SlabPages -> 0..ObjectsPerPage]
        BY <1>1 DEF TypeOK
  <2>5. again' \subseteq Held'
        BY <1>1, <1>4, Zenon DEF TypeOK, Return
  <2>6. dirty' \subseteq SlabPages
        BY <1>1, Zenon DEF TypeOK
  <2> QED BY <1>2, <2>1, <2>2, <2>3, <2>4, <2>5, <2>6, Zenon DEF TypeOK
<1>8. Bounds'
  <2>1. Held' \subseteq Pointer
        BY <1>3, <1>4, Zenon DEF Bounds, Pointer
  <2>2. \A d \in Caches : cpuFreelist'[d] # NULL => cpuPage'[d] # NULL
        BY <1>1, Zenon DEF Bounds, TypeOK
  <2>3. \A q \in SlabPages :
          inuse'[q] < ObjectsPerPage /\ (slabCache'[q] # NULL => inuse'[q] >= 1)
        BY <1>1 DEF Bounds, TypeOK
  <2> QED BY <1>2, <2>1, <2>2, <2>3, Zenon DEF Bounds
<1>9. PageServesOneCache'
      BY <1>1, <1>6 DEF PageServesOneCache, TypeOK
<1>10. ListMatchesCount'
  <2> SUFFICES ASSUME NEW d \in Caches, cpuPage'[d] \notin dirty' \cup {NULL}
               PROVE  cpuFreelist'[d] = <<cpuPage'[d], inuse'[cpuPage'[d]] - 1>>
      BY Zenon DEF ListMatchesCount
  <2>1. CASE d = c
        BY <1>1, <2>1 DEF TypeOK
  <2>2. CASE d # c
    <3>1. cpuFreelist'[d] = cpuFreelist[d] /\ cpuPage'[d] = cpuPage[d]
          BY <1>1, <2>2, Zenon DEF TypeOK
    <3>2. inuse'[cpuPage[d]] = inuse[cpuPage[d]]
          BY <1>1, <1>6, <3>1, Zenon DEF TypeOK
    <3>3. cpuPage[d] \notin dirty \cup {NULL}
          BY <1>1, <1>6, <3>1
    <3> QED BY <3>1, <3>2, <3>3, Zenon DEF ListMatchesCount
  <2> QED BY <2>1, <2>2, Zenon
<1>11. Untouched'
  <2>1. ASSUME NEW o \in Objects, slabCache'[o[1]] # NULL, o[1] \notin dirty', o[2] < ObjectsPerPage - 1
        PROVE  word'[o] = <<o[1], o[2] + 1>>
        BY <2>1, <1>1, <1>5, Zenon DEF Untouched, TypeOK
  <2>2. ASSUME writes = 0, NEW o \in Held
        PROVE  /\ o \in Objects
               /\ slabCache'[o[1]] # NULL
               /\ o[2] = 0 \/ o[2] < inuse'[o[1]] - 1
    <3>1. o \in Objects /\ slabCache[o[1]] # NULL /\ (o[2] = 0 \/ o[2] < inuse[o[1]] - 1)
          BY <2>2, Zenon DEF Untouched
    <3>2. o[1] \in SlabPages /\ o[1] # p
          BY <3>1, <1>1, <1>5, Zenon
    <3> QED BY <3>1, <3>2, <1>1, Zenon DEF TypeOK
  <2>3. ASSUME writes = 0, NEW o \in Held'
        PROVE  /\ o \in Objects
               /\ slabCache'[o[1]] # NULL
               /\ o[2] = 0 \/ o[2] < inuse'[o[1]] - 1
    <3>1. CASE o \in Held
          BY <2>2, <2>3, <3>1, Zenon
    <3>2. CASE o = <<p, 0>>
      <4>1. o[1] = p /\ o[2] = 0
            BY <3>2, Zenon
      <4>2. slabCache'[p] # NULL
            BY <1>1, Zenon DEF TypeOK
      <4> QED BY <1>3, <3>2, <4>1, <4>2, Zenon
    <3> QED BY <1>4, <2>3, <3>1, <3>2, Zenon
  <2>4. writes = 0 => dirty' = {}
        BY <1>1, Zenon DEF Untouched
  <2> QED BY <1>2, <2>1, <2>3, <2>4, Zenon DEF Untouched
<1>12. OnlyFirstRepeats'
      BY <1>1, <1>2 DEF OnlyFirstRepeats, Return
<1> QED BY <1>7, <1>8, <1>9, <1>10, <1>11, <1>12, Zenon

(* What lies before the head of a list stays there when the count grows. *)
LEMMA StaysBelow ==
  \A x, a \in Int : \A b : (b = a + 1 \/ b = a) => (x < a - 1 => x < b - 1)
OBVIOUS

(* A count that does not reach the size of a page stays below it. *)
LEMMA RoomForOne == \A a \in 0..(ObjectsPerPage - 1) : a + 1 # ObjectsPerPage => a + 1 < ObjectsPerPage
<1>1. ObjectsPerPage \in Nat
      BY SlabAssumption, Zenon
<1> QED BY <1>1

(* The next object of a list.  Before anybody writes it is the one behind, *)
(* and obj was not held unless it is the page's first.                     *)
LEMMA FastestKeeps ==
  ASSUME IInv, state = "run", NEW c \in Caches, NEW size, FastestPath(c, size)
  PROVE  IInv'
<1> USE SlabAssumption DEF IInv
<1> DEFINE obj == cpuFreelist[c]
           p   == cpuPage[c]
<1>1. PICK next \in IF obj \in Objects THEN {word[obj]} ELSE {NULL, Wild} :
        /\ cpuFreelist' = [cpuFreelist EXCEPT ![c] = next]
        /\ freelist' = [freelist EXCEPT ![p] = next]
      BY Zenon DEF FastestPath
<1>2. /\ obj # NULL
      /\ inuse' = [inuse EXCEPT ![p] = @ + 1]
      /\ IF inuse[p] + 1 = ObjectsPerPage
         THEN state' = "spin" /\ UNCHANGED <<given, again>>
         ELSE Return(obj, size) /\ UNCHANGED state
      /\ UNCHANGED <<cpuPage, slabCache, word, writes, dirty>>
      BY Zenon DEF FastestPath
<1>3. p \in SlabPages /\ slabCache[p] = c /\ inuse[p] \in 0..(ObjectsPerPage - 1)
  <2>1. p # NULL
        BY <1>2, Zenon DEF Bounds
  <2>2. p \in SlabPages
        BY <2>1, Zenon DEF TypeOK
  <2> QED BY <2>1, <2>2 DEF TypeOK, Bounds, PageServesOneCache
<1>4. next \in Pointer
      BY <1>1, Zenon DEF TypeOK, Pointer
<1>5. Held' \subseteq Held \cup {obj} /\ Held \subseteq Held' /\ again' \subseteq again \cup ({obj} \cap Held)
  <2>1. CASE inuse[p] + 1 = ObjectsPerPage
        BY <1>2, <2>1, Zenon DEF Held
  <2>2. CASE inuse[p] + 1 # ObjectsPerPage
    <3>1. Return(obj, size)
          BY <1>2, <2>2, Zenon
    <3>2. Held' = Held \cup {obj}
          BY <3>1, ReturnHolds, Zenon
    <3> QED BY <3>1, <3>2, Zenon DEF Return
  <2> QED BY <2>1, <2>2, Zenon
<1>6. obj \in Pointer
      BY Zenon DEF TypeOK
<1>7. \A q \in SlabPages : inuse'[q] = IF q = p THEN inuse[p] + 1 ELSE inuse[q]
      BY <1>2, <1>3, Zenon DEF TypeOK
<1>8. TypeOK'
  <2>1. cpuFreelist' \in [Caches -> Pointer] /\ freelist' \in [SlabPages -> Pointer]
        BY <1>1, <1>4, Zenon DEF TypeOK
  <2>2. inuse' \in [SlabPages -> 0..ObjectsPerPage]
        BY <1>2, <1>3 DEF TypeOK
  <2>3. again' \subseteq Held'
        BY <1>5, Zenon DEF TypeOK
  <2>4. state' \in {"run", "panic", "spin", "fault"}
        BY <1>2, Zenon
  <2> QED BY <1>2, <2>1, <2>2, <2>3, <2>4, Zenon DEF TypeOK
<1>9. Bounds'
  <2>1. \A d \in Caches : cpuFreelist'[d] # NULL => cpuPage'[d] # NULL
        BY <1>1, <1>2, <1>3, Zenon DEF Bounds, TypeOK
  <2>2. Held' \subseteq Pointer
        BY <1>5, <1>6, Zenon DEF Bounds
  <2>3. ASSUME state' = "run", NEW q \in SlabPages PROVE inuse'[q] < ObjectsPerPage
    <3>1. inuse[p] + 1 # ObjectsPerPage
          BY <1>2, <2>3, Zenon
    <3>2. inuse[p] + 1 < ObjectsPerPage
          BY <3>1, <1>3, RoomForOne, Zenon
    <3>3. CASE q = p
          BY <1>7, <3>2, <3>3, Zenon
    <3>4. CASE q # p
      <4>1. inuse'[q] = inuse[q]
            BY <1>7, <3>4, Zenon
      <4> QED BY <4>1, Zenon DEF Bounds
    <3> QED BY <3>3, <3>4, Zenon
  <2>4. \A q \in SlabPages : slabCache'[q] # NULL => inuse'[q] >= 1
        BY <1>2, <1>3, <1>7 DEF Bounds
  <2> QED BY <2>1, <2>2, <2>3, <2>4, Zenon DEF Bounds
<1>10. PageServesOneCache'
      BY <1>2, Zenon DEF PageServesOneCache
<1>11. ASSUME p \notin dirty
       PROVE  /\ obj = <<p, inuse[p] - 1>> /\ obj \in Objects
              /\ next = <<p, inuse[p]>>
  <2>1. obj = <<p, inuse[p] - 1>>
        BY <1>3, <1>11, Zenon DEF ListMatchesCount
  <2>2. obj \in Objects
    <3>1. inuse[p] >= 1
          BY <1>3, Zenon DEF Bounds
    <3> QED BY <1>3, <2>1, <3>1 DEF Objects
  <2>3. next = word[obj]
        BY <1>1, <2>2, Zenon
  <2>4. slabCache[obj[1]] # NULL /\ obj[2] < ObjectsPerPage - 1 /\ obj[1] = p /\ obj[2] + 1 = inuse[p]
        BY <1>3, <2>1
  <2> QED BY <1>11, <2>1, <2>2, <2>3, <2>4, Zenon DEF Untouched
<1>12. ListMatchesCount'
  <2> SUFFICES ASSUME NEW d \in Caches, cpuPage[d] \notin dirty \cup {NULL}
               PROVE  cpuFreelist'[d] = <<cpuPage[d], inuse'[cpuPage[d]] - 1>>
      BY <1>2, Zenon DEF ListMatchesCount
  <2>1. CASE d = c
    <3>1. cpuFreelist'[d] = next
          BY <1>1, <2>1, Zenon DEF TypeOK
    <3>2. cpuPage[d] = p /\ p \notin dirty
          BY <2>1, Zenon
    <3>3. next = <<p, inuse[p]>>
          BY <1>11, <3>2, Zenon
    <3>4. inuse'[p] = inuse[p] + 1
          BY <1>3, <1>7, Zenon
    <3>5. \A k \in 0..(ObjectsPerPage - 1) : (k + 1) - 1 = k
          OBVIOUS
    <3>6. inuse'[p] - 1 = inuse[p]
          BY <1>3, <3>4, <3>5, Zenon
    <3> QED BY <3>1, <3>2, <3>3, <3>6, Zenon
  <2>2. CASE d # c
    <3>1. cpuFreelist'[d] = cpuFreelist[d]
          BY <1>1, <2>2, Zenon DEF TypeOK
    <3>2. cpuPage[d] \in SlabPages /\ cpuPage[d] # p
          BY <1>3, <2>2, Zenon DEF PageServesOneCache, TypeOK
    <3> QED BY <1>7, <3>1, <3>2, Zenon DEF ListMatchesCount
  <2> QED BY <2>1, <2>2, Zenon
<1>13. Untouched'
  <2> SUFFICES ASSUME writes = 0, p \notin dirty, NEW o \in Held'
               PROVE  /\ o \in Objects
                      /\ slabCache[o[1]] # NULL
                      /\ o[2] = 0 \/ o[2] < inuse'[o[1]] - 1
      BY <1>2, Zenon DEF Untouched
  <2>1. CASE o = obj
    <3>1. o[1] = p /\ o[2] = inuse[p] - 1
          BY <2>1, <1>11
    <3>2. inuse'[p] = inuse[p] + 1 /\ inuse[p] \in Int
          BY <1>3, <1>7
    <3>3. inuse[p] - 1 < inuse'[p] - 1
          BY <3>2
    <3>4. o \in Objects /\ slabCache[p] # NULL
          BY <1>3, <1>11, <2>1, Zenon
    <3> QED BY <3>1, <3>3, <3>4, Zenon
  <2>2. CASE o \in Held
    <3>1. o \in Objects /\ slabCache[o[1]] # NULL /\ (o[2] = 0 \/ o[2] < inuse[o[1]] - 1)
          BY <2>2, Zenon DEF Untouched
    <3>2. o[1] \in SlabPages /\ o[2] \in Int
          BY <3>1 DEF Objects
    <3>3. inuse[o[1]] \in Int
          BY <3>2 DEF TypeOK
    <3>4. inuse'[o[1]] = inuse[o[1]] + 1 \/ inuse'[o[1]] = inuse[o[1]]
      <4>1. inuse'[o[1]] = IF o[1] = p THEN inuse[p] + 1 ELSE inuse[o[1]]
            BY <1>7, <3>2, Zenon
      <4> QED BY <4>1, Zenon
    <3>5. o[2] < inuse[o[1]] - 1 => o[2] < inuse'[o[1]] - 1
          BY <3>2, <3>3, <3>4, StaysBelow, Zenon
    <3> QED BY <3>1, <3>5, Zenon
  <2> QED BY <1>5, <2>1, <2>2, Zenon
<1>14. OnlyFirstRepeats'
  <2> SUFFICES ASSUME writes = 0, p \notin dirty, NEW o \in again' PROVE o[2] = 0
      BY <1>2, Zenon DEF OnlyFirstRepeats, Untouched
  <2>1. CASE o \in again
        BY <2>1, Zenon DEF OnlyFirstRepeats
  <2>2. CASE o = obj /\ obj \in Held
    <3>1. obj[1] = p /\ obj[2] = inuse[p] - 1
          BY <1>11
    <3>2. obj[2] = 0 \/ obj[2] < inuse[p] - 1
          BY <2>2, <3>1, Zenon DEF Untouched
    <3> QED BY <1>3, <2>2, <3>1, <3>2
  <2> QED BY <1>5, <2>1, <2>2, Zenon
<1> QED BY <1>8, <1>9, <1>10, <1>12, <1>13, <1>14, Zenon

(* A fault or a panic changes nothing but the state. *)
LEMMA StopKeeps ==
  ASSUME IInv, NEW why \in {"panic", "fault"}, Stop(why)
  PROVE  IInv'
<1> USE DEF IInv, Stop, Held
<1>1. TypeOK'
      BY Zenon DEF TypeOK
<1>2. Bounds'
      BY Zenon DEF Bounds
<1>3. PageServesOneCache' /\ ListMatchesCount' /\ OnlyFirstRepeats'
      BY Zenon DEF PageServesOneCache, ListMatchesCount, OnlyFirstRepeats
<1>4. Untouched'
      BY Zenon DEF Untouched
<1> QED BY <1>1, <1>2, <1>3, <1>4, Zenon

(* After a write nothing is said of the lists of the pages it reached, and *)
(* counts and pages are not in the callers' memory.                        *)
LEMMA WriteKeeps ==
  ASSUME IInv, NEW g \in given, HolderWrites(g)
  PROVE  IInv'
<1> USE SlabAssumption DEF IInv
<1>1. /\ writes' = writes + 1 /\ writes' \in 0..WriteLimit /\ writes' # 0
      /\ UNCHANGED <<cpuFreelist, cpuPage, slabCache, freelist, inuse, given, again, state>>
      BY DEF HolderWrites, TypeOK
<1>2. Held' = Held
      BY <1>1, Zenon DEF Held
<1>3. PICK v \in Pointer, reached \in SUBSET Objects :
        /\ word' = [o \in Objects |-> IF o \in reached THEN v ELSE word[o]]
        /\ dirty' = dirty \cup {o[1] : o \in reached}
  <2>1. Held \cup {NULL, Wild} \subseteq Pointer
        BY Zenon DEF Bounds, Pointer
  <2>2. PICK v \in Held \cup {NULL, Wild}, behind \in (SlabPages \ {g[1][1]}) \cup {NULL} :
          LET last    == g[1][2] + g[2] - 1
              reached == {o \in Objects :
                            \/ o[1] = g[1][1] /\ o[2] \in g[1][2]..last
                            \/ o[1] = behind /\ o[2] <= last - ObjectsPerPage} IN
          /\ word' = [o \in Objects |-> IF o \in reached THEN v ELSE word[o]]
          /\ dirty' = dirty \cup {o[1] : o \in reached}
        BY Zenon DEF HolderWrites
  <2> DEFINE last    == g[1][2] + g[2] - 1
             reached == {o \in Objects :
                           \/ o[1] = g[1][1] /\ o[2] \in g[1][2]..last
                           \/ o[1] = behind /\ o[2] <= last - ObjectsPerPage}
  <2>3. reached \in SUBSET Objects
        BY Zenon
  <2>4. /\ word' = [o \in Objects |-> IF o \in reached THEN v ELSE word[o]]
        /\ dirty' = dirty \cup {o[1] : o \in reached}
        BY <2>2, Zenon
  <2> HIDE DEF reached
  <2> QED BY <2>1, <2>3, <2>4, Zenon
<1>4. word' \in [Objects -> Pointer] /\ dirty' \subseteq SlabPages
  <2>1. \A o \in Objects : o[1] \in SlabPages
        BY Zenon DEF Objects
  <2>2. {o[1] : o \in reached} \subseteq SlabPages
        BY <2>1
  <2>3. dirty' \subseteq SlabPages
        BY <1>3, <2>2, Zenon DEF TypeOK
  <2> QED BY <1>3, <2>3, Zenon DEF TypeOK
<1>5. TypeOK' /\ Bounds'
      BY <1>1, <1>2, <1>4, Zenon DEF TypeOK, Bounds
<1>6. PageServesOneCache'
      BY <1>1, Zenon DEF PageServesOneCache
<1>7. ListMatchesCount' /\ OnlyFirstRepeats'
      BY <1>1, <1>3, Zenon DEF ListMatchesCount, OnlyFirstRepeats
<1>8. Untouched'
  <2>1. ASSUME NEW o \in Objects, o[1] \notin dirty' PROVE word'[o] = word[o] /\ o[1] \notin dirty
        BY <1>3, <2>1, Zenon
  <2> QED BY <1>1, <2>1, Zenon DEF Untouched
<1> QED BY <1>5, <1>6, <1>7, <1>8, Zenon

(* Every path of __slab_AllocateObject. *)
LEMMA AllocateKeeps ==
  ASSUME IInv, state = "run", NEW c \in Caches, NEW size, __slab_AllocateObject(c, size)
  PROVE  IInv'
<1>1. CASE FastestPath(c, size)
      BY <1>1, FastestKeeps, Zenon
<1>2. CASE SlowestPath(c, size)
      BY <1>2, SlowestKeeps, Zenon
<1>3. CASE WildRead(c)
      BY <1>3, StopKeeps, Zenon DEF WildRead
<1>4. CASE OutOfMemory(c)
      BY <1>4, StopKeeps, Zenon DEF OutOfMemory
<1> QED BY <1>1, <1>2, <1>3, <1>4, Zenon DEF __slab_AllocateObject

(* Every step keeps the invariant. *)
LEMMA NextKeeps == IInv /\ [Next]_vars => IInv'
<1> SUFFICES ASSUME IInv, [Next]_vars PROVE IInv'
    BY Zenon
<1>1. ASSUME NEW size \in Sizes, KM_Allocate(size) PROVE IInv'
  <2>1. CASE Stop("panic") \/ Stop("fault")
        BY <2>1, StopKeeps, Zenon
  <2>2. ASSUME NEW c \in Caches, __slab_AllocateObject(c, size) PROVE IInv'
        BY <1>1, <2>2, AllocateKeeps, Zenon DEF KM_Allocate
  <2>3. KM_FindCache(size) \subseteq Caches
        BY Zenon DEF KM_FindCache
  <2> QED BY <1>1, <2>1, <2>2, <2>3, Zenon DEF KM_Allocate
<1>2. CASE KM_AllocateStruct
  <2>1. Struct \in Caches
        BY SlabAssumption DEF Struct, Caches
  <2> QED BY <1>2, <2>1, AllocateKeeps, Zenon DEF KM_AllocateStruct
<1>3. ASSUME NEW g \in given, HolderWrites(g) PROVE IInv'
      BY <1>3, WriteKeeps, Zenon
<1>4. CASE UNCHANGED vars
  <2> USE <1>4 DEF vars, IInv, Held
  <2>1. TypeOK' /\ Bounds'
        BY Zenon DEF TypeOK, Bounds
  <2>2. PageServesOneCache' /\ ListMatchesCount' /\ OnlyFirstRepeats' /\ Untouched'
        BY Zenon DEF PageServesOneCache, ListMatchesCount, OnlyFirstRepeats, Untouched
  <2> QED BY <2>1, <2>2, Zenon
<1> QED BY <1>1, <1>2, <1>3, <1>4, Zenon DEF Next

(* Whatever callers write into the objects of other pages, the list of a   *)
(* CPU slab and the count of its page stay one apart as long as nobody has *)
(* written into that page.                                                 *)
THEOREM ListsMatchCounts == Spec => []ListMatchesCount
<1> QED BY InitInv, NextKeeps, PTL DEF Spec, IInv

(* While callers leave the free lists alone, no object but the first of a  *)
(* page is returned twice.                                                 *)
THEOREM OnlyFirstTwice == Spec => []OnlyFirstRepeats
<1> QED BY InitInv, NextKeeps, PTL DEF Spec, IInv
=============================================================================
