---------------------------- MODULE VirtualPages ----------------------------
(***************************************************************************)
(* The kernel's virtual pages: the bitmap of used pages in                 *)
(* Kernel/arch/x86_64/paging.c and the first-fit search over it.           *)
(*                                                                         *)
(* A page is its number, (virt - KERNEL_VIRTUAL_BASE) / 4096.  The bitmap  *)
(* is an array of words, a word the set of its bits that are 1.  The array *)
(* is cut into chunks, one per pointer of m_VirtuaPagesBitmap.  The C code *)
(* keeps those pointers in the first words of the same array; here they    *)
(* are kept apart.                                                         *)
(***************************************************************************)
EXTENDS Integers, FiniteSets

CONSTANTS
  IntBits,         \* 32: "1 << bit_index" is an int
  WordsPerChunk,   \* 512
  Chunks,          \* 16
  KernelPages,     \* pages below the end of the kernel image
  Amounts          \* what callers ask for

ASSUME BitmapAssumption ==
  /\ IntBits \in Nat /\ IntBits >= 2
  /\ WordsPerChunk \in Nat \ {0}
  /\ Chunks \in Nat \ {0}
  /\ Amounts \subseteq Nat \ {0}
  /\ KernelPages \in (2 * IntBits)..(WordsPerChunk * 2 * IntBits)

WordBits   == 2 * IntBits
ChunkPages == WordsPerChunk * WordBits
Words      == 0..(Chunks * WordsPerChunk - 1)
Pages      == 0..(Chunks * ChunkPages - 1)

VARIABLES
  marks,     \* kernelPageMarks
  owned,     \* pages handed out (history)
  twice,     \* pages that were handed out while someone held them (history)
  stopped    \* a page fault halted the CPU

vars == <<marks, owned, twice, stopped>>

Word(p) == p \div WordBits

(* The value of 1 << bit_index, widened to 64 bits.  The shift counts      *)
(* modulo 32 on this processor, and the int is sign-extended: bit 31 brings *)
(* all the bits above it.                                                  *)
Mask(p) ==
  LET b == p % IntBits IN
  IF b = IntBits - 1 THEN (IntBits - 1)..(WordBits - 1) ELSE {b}

(* Line 258: none of the bits of the mask is 1. *)
IsFree(p) == Mask(p) \cap marks[Word(p)] = {}

(* Line 325: pageIndex is not reduced modulo the words of a chunk. *)
MarkedWord(p) == (p \div ChunkPages) * WordsPerChunk + Word(p)

(* Faulty variant: the last page is left out. *)
BadMarkShort(m, s, n) ==
  [w \in Words |-> m[w] \cup UNION {Mask(p) : p \in {q \in s..(s + n - 2) : MarkedWord(q) = w}}]

(* VM_MarkPagesUsed, as the words that result.  A word behind the array    *)
(* belongs to another variable of the kernel.                              *)
VM_MarkPagesUsed(m, s, n) ==
  [w \in Words |-> m[w] \cup UNION {Mask(p) : p \in {q \in s..(s + n - 1) : MarkedWord(q) = w}}]

Full == 0..(WordBits - 1)

(* Faulty variant: any word in use is passed over. *)
BadSeenEmpty(p) == marks[Word(p)] = {}

(* Lines 244-245: a word with all bits set is passed over. *)
Seen(p) == marks[Word(p)] # Full

(* The search of lines 214-291 counts n free pages from s and ends at e.   *)
(* It counts only pages it sees, and a used one makes it start again.      *)
(* Page 0 cannot start a run: virt = 0 means "no run yet".                 *)
Counted(s, e) == {p \in s..e : Seen(p)}

Run(s, e, n) ==
  /\ Seen(s) /\ Seen(e)
  /\ s # 0
  /\ \A p \in Counted(s, e) : IsFree(p)
  /\ Cardinality(Counted(s, e)) = n
  /\ \A p \in 1..(s - 1) :
       Seen(p) /\ IsFree(p) => \E q \in (p + 1)..(s - 1) : Seen(q) /\ ~IsFree(q)

(* The search returns s: of all runs of n pages, the one that ends first. *)
Finds(s, n) ==
  \E e \in Pages :
    /\ s \in 0..e
    /\ Run(s, e, n)
    /\ \A f \in 0..(e - 1) : \A t \in 0..f : ~Run(t, f, n)

(* VM_AllocatePages for the kernel's process; nothing found returns 0. *)
VM_AllocatePages(n) ==
  /\ ~stopped
  /\ IF \E s \in Pages : Finds(s, n)
     THEN \E s \in Pages :
            /\ Finds(s, n)
            /\ marks' = VM_MarkPagesUsed(marks, s, n)
            /\ owned' = owned \cup (s..(s + n - 1))
            /\ twice' = twice \cup (owned \cap (s..(s + n - 1)))
     ELSE UNCHANGED <<marks, owned, twice>>
  /\ UNCHANGED stopped

(* VM_FreePages: the kernel's pages are counted from KERNEL_ADDR_SPACE, so *)
(* m_VirtuaPagesBitmap[4080] is used as a pointer; it is null.             *)
VM_FreePages ==
  /\ ~stopped
  /\ stopped' = TRUE
  /\ UNCHANGED <<marks, owned, twice>>

(* LoadVirtualMemory marks what lies below the kernel, then the kernel. *)
Init ==
  /\ marks = VM_MarkPagesUsed([w \in Words |-> {}], 0, KernelPages)
  /\ owned = 0..(KernelPages - 1)
  /\ twice = {}
  /\ stopped = FALSE

Next == (\E n \in Amounts : VM_AllocatePages(n)) \/ VM_FreePages

Spec == Init /\ [][Next]_vars

-----------------------------------------------------------------------------
TypeOK ==
  /\ marks \in [Words -> SUBSET (0..(WordBits - 1))]
  /\ owned \subseteq Nat
  /\ twice \subseteq owned
  /\ stopped \in BOOLEAN

(* No page of the first chunk, 128 MiB of addresses, is handed out while   *)
(* the kernel image or an earlier caller of VM_AllocatePages has it.       *)
NoDoubleAlloc == twice \cap (0..(ChunkPages - 1)) = {}

(* In the first chunk the search is first fit: when n pages in a row read  *)
(* as free it finds n such pages, no later ones, although it passes over   *)
(* full words without ending the row.                                      *)
FreeRow(s, n) == \A p \in s..(s + n - 1) : IsFree(p)

FirstFit ==
  \A n \in Amounts : \A s \in 1..(ChunkPages - n) :
    FreeRow(s, n) => \E t \in 1..s : Finds(t, n) /\ FreeRow(t, n)

(* "If yes, mark the virtual memory pages used and return the address":    *)
(* a page VM_AllocatePages returned reads as used afterwards.              *)
ReturnedIsMarked == \A p \in owned \cap Pages : ~IsFree(p)
=============================================================================
