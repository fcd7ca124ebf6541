-------------------------------- MODULE Slab --------------------------------
(***************************************************************************)
(* The kernel object allocator, Kernel/src/mm/slub.c: one cache per block  *)
(* size, slab pages cut into objects, and a free list threaded through the *)
(* first word of each free object.                                         *)
(*                                                                         *)
(* An object is <<page, index>>.  A pointer is an object, NULL, or Wild: a *)
(* value that is no object's address.  Calls run to their end: the boot    *)
(* processor is the only caller and nothing preempts it.  The memory of a  *)
(* cache header reads as zero before it is written, so that the lists of   *)
(* partial pages, which nothing fills, are empty.                          *)
(***************************************************************************)
EXTENDS Integers, Sequences

CONSTANTS
  NULL, Wild,
  BlockSize,        \* blockSize: the sizes of the caches, the struct cache last
  ObjectsPerPage,   \* 512 (every cache gets objects of blockSize[0] bytes)
  SlabPages,        \* frames that AllocatePages can still give
  Sizes,            \* sizes that callers ask for
  WriteLimit        \* how often callers write into what they hold

Caches  == 1..Len(BlockSize)
Struct  == Len(BlockSize)
MaxSize == BlockSize[Len(BlockSize) - 1]
Objects == SlabPages \X (0..(ObjectsPerPage - 1))
Pointer == Objects \cup {NULL, Wild}

(* NULL and Wild are values of their own, and a page has more than one     *)
(* object.                                                                 *)
ASSUME SlabAssumption ==
  /\ BlockSize \in Seq(Nat) /\ Len(BlockSize) >= 2
  /\ ObjectsPerPage \in Nat /\ ObjectsPerPage >= 2
  /\ WriteLimit \in Nat
  /\ NULL # Wild
  /\ NULL \notin Objects \cup SlabPages \cup Caches
  /\ Wild \notin Objects

VARIABLES
  cpuFreelist,   \* cache -> slabCpu->freelist
  cpuPage,       \* cache -> slabCpu->page
  slabCache,     \* page -> the cache it was requested for, NULL before
  freelist,      \* page -> page->freelist
  inuse,         \* page -> page->slab_inuse
  word,          \* object -> its first word
  given,         \* <<object, size>> of every call that returned (history)
  again,         \* objects returned while somebody held them (history)
  writes,        \* how often a caller has written into what it holds
  dirty,         \* pages written into since they were requested (history)
  state          \* "run", or why the processor went no further

vars == <<cpuFreelist, cpuPage, slabCache, freelist, inuse, word, given, again, writes, dirty, state>>

Held == {g[1] : g \in given}

(* The call returns obj.  Nothing is ever taken back: KM_Free is empty. *)
Return(obj, size) ==
  /\ given' = given \cup {<<obj, size>>}
  /\ again' = again \cup ({obj} \cap Held)

Stop(why) ==
  /\ state' = why
  /\ UNCHANGED <<cpuFreelist, cpuPage, slabCache, freelist, inuse, word, given, again, writes, dirty>>

(* Faulty variant: the loop ends one object early. *)
BadThreadedShort(p) ==
  [o \in Objects |-> IF o[1] = p /\ o[2] < ObjectsPerPage - 2 THEN <<p, o[2] + 1>> ELSE word[o]]

(* __slab_SetPage: each object but the last leads to the next one. *)
Threaded(p) ==
  [o \in Objects |-> IF o[1] = p /\ o[2] < ObjectsPerPage - 1 THEN <<p, o[2] + 1>> ELSE word[o]]

(* Lines 190-208, a free list in the CPU slab.  The list goes on with what *)
(* the object's first word holds now.  When the page is used up,           *)
(* __slab_GetPartialPage takes the lock of node 0, which is the first word *)
(* of the cache header itself (line 44): a list pointer, never zero.       *)
FastestPath(c, size) ==
  LET obj == cpuFreelist[c]
      p   == cpuPage[c] IN
  /\ obj # NULL
  /\ \E next \in IF obj \in Objects THEN {word[obj]} ELSE {NULL, Wild} :
       /\ cpuFreelist' = [cpuFreelist EXCEPT ![c] = next]
       /\ freelist' = [freelist EXCEPT ![p] = next]
  /\ inuse' = [inuse EXCEPT ![p] = @ + 1]
  /\ IF inuse[p] + 1 = ObjectsPerPage
     THEN state' = "spin" /\ UNCHANGED <<given, again>>
     ELSE Return(obj, size) /\ UNCHANGED state
  /\ UNCHANGED <<cpuPage, slabCache, word, writes, dirty>>

(* Reading through a pointer that is no object's address may fault. *)
WildRead(c) ==
  /\ cpuFreelist[c] = Wild
  /\ Stop("fault")

(* Faulty variant: the page may be one that is in use. *)
BadSlowestPathInUse(c, size) ==
  /\ cpuFreelist[c] = NULL
  /\ \E p \in SlabPages :
       /\ slabCache' = [slabCache EXCEPT ![p] = c]
       /\ word' = Threaded(p)
       /\ cpuFreelist' = [cpuFreelist EXCEPT ![c] = <<p, 0>>]
       /\ cpuPage' = [cpuPage EXCEPT ![c] = p]
       /\ freelist' = [freelist EXCEPT ![p] = word'[<<p, 0>>]]
       /\ inuse' = [inuse EXCEPT ![p] = 1]
       /\ dirty' = dirty \ {p}
       /\ Return(<<p, 0>>, size)
  /\ UNCHANGED <<writes, state>>

(* Lines 247-252, a new page: __slab_RequestPage, __slab_AssignCpuSlab and *)
(* the first object.  The page's list is advanced, the CPU's is not.       *)
SlowestPath(c, size) ==
  /\ cpuFreelist[c] = NULL
  /\ \E p \in SlabPages :
       /\ slabCache[p] = NULL
       /\ slabCache' = [slabCache EXCEPT ![p] = c]
       /\ word' = Threaded(p)
       /\ cpuFreelist' = [cpuFreelist EXCEPT ![c] = <<p, 0>>]
       /\ cpuPage' = [cpuPage EXCEPT ![c] = p]
       /\ freelist' = [freelist EXCEPT ![p] = word'[<<p, 0>>]]
       /\ inuse' = [inuse EXCEPT ![p] = 1]
       /\ dirty' = dirty \ {p}
       /\ Return(<<p, 0>>, size)
  /\ UNCHANGED <<writes, state>>

(* AllocatePages panics when there is no page. *)
OutOfMemory(c) ==
  /\ cpuFreelist[c] = NULL
  /\ \A p \in SlabPages : slabCache[p] # NULL
  /\ Stop("panic")

__slab_AllocateObject(c, size) ==
  FastestPath(c, size) \/ WildRead(c) \/ SlowestPath(c, size) \/ OutOfMemory(c)

(* KM_FindCache: the first block size above size, of the caches before the *)
(* struct cache, if there is one.                                          *)
KM_FindCache(size) ==
  {c \in Caches \ {Struct} : BlockSize[c] > size /\ \A d \in 1..(c - 1) : BlockSize[d] <= size}

(* KM_Allocate.  A size above the largest block gives a null cache, which  *)
(* panics; the size of the largest block leaves "cache" uninitialised.     *)
KM_Allocate(size) ==
  /\ state = "run"
  /\ IF size > MaxSize THEN Stop("panic")
     ELSE IF KM_FindCache(size) # {}
     THEN \E c \in KM_FindCache(size) : __slab_AllocateObject(c, size)
     ELSE Stop("fault") \/ \E c \in Caches : __slab_AllocateObject(c, size)

(* KM_AllocateStruct, for the one index that does not panic. *)
KM_AllocateStruct ==
  /\ state = "run"
  /\ __slab_AllocateObject(Struct, BlockSize[Struct])

(* A holder writes into what it asked for: size / 8 words from its object  *)
(* on, each of them the first word of an object.  What does not fit into   *)
(* the page goes to the one behind it, if that is a slab page, too.        *)
HolderWrites(g) ==
  LET own  == g[1][1]
      last == g[1][2] + g[2] - 1 IN
  /\ state = "run"
  /\ writes < WriteLimit
  /\ g[1] \in Objects
  /\ \E v \in Held \cup {NULL, Wild}, behind \in (SlabPages \ {own}) \cup {NULL} :
       LET reached == {o \in Objects :
                         \/ o[1] = own /\ o[2] \in g[1][2]..last
                         \/ o[1] = behind /\ o[2] <= last - ObjectsPerPage} IN
       /\ word' = [o \in Objects |-> IF o \in reached THEN v ELSE word[o]]
       /\ dirty' = dirty \cup {o[1] : o \in reached}
  /\ writes' = writes + 1
  /\ UNCHANGED <<cpuFreelist, cpuPage, slabCache, freelist, inuse, given, again, state>>

(* KM_Initialize: __slab_SetCache empties the CPU slabs. *)
Init ==
  /\ cpuFreelist = [c \in Caches |-> NULL]
  /\ cpuPage = [c \in Caches |-> NULL]
  /\ slabCache = [p \in SlabPages |-> NULL]
  /\ freelist = [p \in SlabPages |-> NULL]
  /\ inuse = [p \in SlabPages |-> 0]
  /\ word \in {[o \in Objects |-> v] : v \in {NULL, Wild}}
  /\ given = {}
  /\ again = {}
  /\ writes = 0
  /\ dirty = {}
  /\ state = "run"

Next ==
  \/ \E size \in Sizes : KM_Allocate(size)
  \/ KM_AllocateStruct
  \/ \E g \in given : HolderWrites(g)

Spec == Init /\ [][Next]_vars

-----------------------------------------------------------------------------
TypeOK ==
  /\ cpuFreelist \in [Caches -> Pointer]
  /\ cpuPage \in [Caches -> SlabPages \cup {NULL}]
  /\ slabCache \in [SlabPages -> Caches \cup {NULL}]
  /\ freelist \in [SlabPages -> Pointer]
  /\ inuse \in [SlabPages -> 0..ObjectsPerPage]
  /\ word \in [Objects -> Pointer]
  /\ again \subseteq Held
  /\ writes \in 0..WriteLimit
  /\ dirty \subseteq SlabPages
  /\ state \in {"run", "panic", "spin", "fault"}

(* As long as nobody has written into the page of a CPU slab, its list and *)
(* the page's count stay in step, one apart, whatever holders write into   *)
(* the pages of other caches: the list starts at object slab_inuse - 1.    *)
(* So the page counts as used up while its last object was never returned. *)
ListMatchesCount ==
  \A c \in Caches :
    cpuPage[c] \notin dirty \cup {NULL} => cpuFreelist[c] = <<cpuPage[c], inuse[cpuPage[c]] - 1>>

(* While callers leave every free list alone, no object but the first of a *)
(* page is returned twice.                                                 *)
OnlyFirstRepeats == writes = 0 => \A o \in again : o[2] = 0

(* "Find a free object": what __slab_AllocateObject returns is held by no  *)
(* one.                                                                    *)
ObjectsDistinct == again = {}

(* "Allocate from buddy allocator.  Yes -> Assign all values.  No ->       *)
(* PANIC!": a call returns or panics, it does not wait.  Callers that use  *)
(* up a page do wait, for the lock word at slub.c:111.                     *)
NeverSpins == state # "spin"
=============================================================================
