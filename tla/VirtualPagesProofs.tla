------------------------- MODULE VirtualPagesProofs -------------------------
(***************************************************************************)
(* No page of the first chunk is handed out twice, and the search is first *)
(* fit there, for every word size, chunk size, kernel size and set of      *)
(* requests.                                                               *)
(*                                                                         *)
(* The search passes over full words without ending the row it is counting *)
(* (paging.c:244), so it would return pages in use if a full word could    *)
(* lie inside a row.  PackedOK excludes that: below a word in use every    *)
(* word has its sign bit set, and the page of that bit ends the row.       *)
(***************************************************************************)
EXTENDS VirtualPages, FiniteSetTheorems, WellFoundedInduction, TLAPS

HighBits   == (IntBits - 1)..(WordBits - 1)
FirstWords == 0..(WordsPerChunk - 1)

SignsOK(m) ==
  \A w \in FirstWords : m[w] \cap HighBits # {} => IntBits - 1 \in m[w]

PackedOK(m) ==
  \A v, w \in FirstWords : v < w /\ m[w] # {} => IntBits - 1 \in m[v]

IInv ==
  /\ TypeOK
  /\ SignsOK(marks)
  /\ PackedOK(marks)
  /\ \A p \in owned : p < ChunkPages => ~IsFree(p)
  /\ NoDoubleAlloc

(* Quotient and remainder of the page arithmetic in paging.c. *)
LEMMA DivRange ==
  ASSUME NEW a \in Nat, NEW d \in Nat, d > 0
  PROVE  /\ a \div d \in Nat
         /\ a % d \in 0..(d - 1)
         /\ a = d * (a \div d) + (a % d)
OBVIOUS

(* Whole words do not overlap. *)
LEMMA MulMono ==
  ASSUME NEW d \in Nat, NEW x \in Int, NEW y \in Int, x < y, d > 0
  PROVE d * x + d <= d * y
OBVIOUS

(* A quotient and a remainder in range are the quotient and the remainder. *)
LEMMA DivUnique ==
  ASSUME NEW a \in Nat, NEW d \in Nat, d > 0, NEW q \in Nat, NEW r \in Nat, r < d, a = d * q + r
  PROVE  a \div d = q /\ a % d = r
<1> DEFINE x == a \div d
<1>1. x \in Nat /\ a % d \in 0..(d - 1) /\ a = d * x + (a % d)
  BY DivRange
<1>2. ~(x < q)
  <2> SUFFICES ASSUME x < q PROVE FALSE OBVIOUS
  <2>1. d * x + d <= d * q  BY <1>1, MulMono
  <2> QED BY <2>1, <1>1
<1>3. ~(q < x)
  <2> SUFFICES ASSUME q < x PROVE FALSE OBVIOUS
  <2>1. d * q + d <= d * x  BY <1>1, MulMono
  <2> QED BY <2>1, <1>1
<1> QED BY <1>1, <1>2, <1>3

(* What the proofs use of the constants. *)
LEMMA Consts ==
  /\ IntBits \in Nat /\ IntBits >= 2
  /\ WordBits \in Nat /\ WordBits = 2 * IntBits
  /\ ChunkPages \in Nat /\ ChunkPages = WordBits * WordsPerChunk /\ ChunkPages >= WordBits
BY BitmapAssumption, SMT DEF WordBits, ChunkPages

(* Page p lies in word Word(p) of the bitmap. *)
LEMMA WordOf ==
  ASSUME NEW p \in Nat
  PROVE  /\ Word(p) \in Nat
         /\ WordBits * Word(p) <= p
         /\ p < WordBits * Word(p) + WordBits
<1>1. WordBits \in Nat /\ WordBits > 0
  BY Consts
<1>2. /\ Word(p) \in Nat
      /\ p % WordBits \in 0..(WordBits - 1)
      /\ p = WordBits * Word(p) + (p % WordBits)
  BY <1>1, DivRange, Zenon DEF Word
<1> QED BY <1>1, <1>2

(* Higher pages lie in higher words. *)
LEMMA WordMono ==
  ASSUME NEW p \in Nat, NEW q \in Nat, p <= q
  PROVE  Word(p) <= Word(q)
<1>1. /\ Word(p) \in Nat /\ WordBits * Word(p) <= p
      /\ Word(q) \in Nat /\ q < WordBits * Word(q) + WordBits
  BY WordOf
<1>2. WordBits \in Nat /\ WordBits > 0
  BY Consts
<1>3. ASSUME Word(q) < Word(p) PROVE FALSE
  <2>1. WordBits * Word(q) + WordBits <= WordBits * Word(p)
    BY <1>1, <1>2, <1>3, MulMono
  <2> QED BY <2>1, <1>1, <1>2
<1> QED BY <1>1, <1>3

(* The last page of a word v, bit 63: its mask is the sign and all above. *)
LastPage(v) == WordBits * v + (WordBits - 1)

LEMMA LastPageFacts ==
  ASSUME NEW v \in Nat
  PROVE  LastPage(v) \in Nat /\ Word(LastPage(v)) = v /\ Mask(LastPage(v)) = HighBits
<1> DEFINE q == LastPage(v)
<1>0. WordBits * v \in Nat
  BY Consts
<1>1. q \in Nat
  BY Consts, <1>0 DEF LastPage
<1>2. Word(q) = v
  BY Consts, DivUnique, <1>1 DEF Word, LastPage
<1>3. q % IntBits = IntBits - 1
  <2>1. q = IntBits * (2 * v + 1) + (IntBits - 1)
    BY Consts DEF LastPage
  <2>2. 2 * v + 1 \in Nat /\ IntBits - 1 \in Nat /\ IntBits - 1 < IntBits /\ IntBits > 0
    BY Consts
  <2> HIDE DEF q
  <2> QED BY <2>1, <2>2, <1>1, BitmapAssumption, DivUnique
<1> QED BY <1>1, <1>2, <1>3 DEF Mask, HighBits

(* In the first chunk VM_MarkPagesUsed writes the word that the search      *)
(* reads, and no page of another chunk writes there.                       *)
LEMMA FirstChunk ==
  ASSUME NEW p \in Nat
  PROVE  /\ MarkedWord(p) \in Nat
         /\ p < ChunkPages => Word(p) \in FirstWords /\ MarkedWord(p) = Word(p)
         /\ MarkedWord(p) \in FirstWords => p < ChunkPages
<1> DEFINE c == p \div ChunkPages
<1>1. c \in Nat /\ ChunkPages * c <= p /\ p < ChunkPages * c + ChunkPages
  BY Consts, DivRange
<1>2. Word(p) \in Nat /\ WordBits * Word(p) <= p
  BY WordOf
<1>3. c * WordsPerChunk \in Nat /\ MarkedWord(p) = c * WordsPerChunk + Word(p)
  BY <1>1, BitmapAssumption DEF MarkedWord
<1>4. ASSUME p < ChunkPages PROVE c = 0 /\ Word(p) \in FirstWords
  <2>1. c = 0
    BY <1>4, Consts, DivUnique
  <2>2. ~(WordsPerChunk <= Word(p))
    <3> SUFFICES ASSUME WordsPerChunk <= Word(p) PROVE FALSE
      OBVIOUS
    <3>1. WordBits * WordsPerChunk <= WordBits * Word(p)
      BY <1>2, Consts, BitmapAssumption
    <3> QED BY <3>1, <1>2, <1>4, Consts
  <2> QED BY <2>1, <2>2, <1>2, BitmapAssumption DEF FirstWords
<1>5. ASSUME p >= ChunkPages PROVE MarkedWord(p) >= WordsPerChunk
  <2>1. c >= 1
    BY <1>5, <1>1, Consts
  <2>2. c * WordsPerChunk >= WordsPerChunk
    BY <2>1, <1>1, BitmapAssumption
  <2> QED BY <2>2, <1>2, <1>3, BitmapAssumption
<1> QED BY <1>1, <1>2, <1>3, <1>4, <1>5, Consts, BitmapAssumption DEF FirstWords

(* The first chunk is part of the bitmap. *)
LEMMA FirstWordsIn == FirstWords \subseteq Words
<1>1. Chunks * WordsPerChunk >= WordsPerChunk
  BY BitmapAssumption
<1> QED BY <1>1, BitmapAssumption DEF FirstWords, Words

(* A mask is one low bit or all the high bits. *)
LEMMA MaskFacts ==
  ASSUME NEW p \in Nat
  PROVE  /\ Mask(p) # {} /\ Mask(p) \subseteq 0..(WordBits - 1)
         /\ Mask(p) \cap HighBits # {} => Mask(p) = HighBits
         /\ IntBits - 1 \in HighBits
<1>1. p % IntBits \in 0..(IntBits - 1)
  BY Consts, DivRange
<1> QED BY <1>1, Consts DEF Mask, HighBits

(* VM_MarkPagesUsed keeps the bits that are set, and sets those of the row. *)
LEMMA MarkFacts ==
  ASSUME NEW m \in [Words -> SUBSET (0..(WordBits - 1))], NEW s \in Nat, NEW n \in Nat
  PROVE  LET r == VM_MarkPagesUsed(m, s, n) IN
         /\ r \in [Words -> SUBSET (0..(WordBits - 1))]
         /\ \A w \in Words : m[w] \subseteq r[w]
         /\ \A x \in s..(s + n - 1) : x < ChunkPages => Mask(x) \subseteq r[Word(x)]
         /\ \A w \in FirstWords : \A b \in r[w] \ m[w] :
              \E x \in s..(s + n - 1) : x < ChunkPages /\ Word(x) = w /\ b \in Mask(x)
<1> DEFINE r == VM_MarkPagesUsed(m, s, n)
           Row(w) == {q \in s..(s + n - 1) : MarkedWord(q) = w}
<1>1. \A w : Row(w) \subseteq Nat
  OBVIOUS
<1>2. \A w \in Words : r[w] = m[w] \cup UNION {Mask(p) : p \in Row(w)}
  BY DEF VM_MarkPagesUsed
<1>3. \A w \in Words : UNION {Mask(p) : p \in Row(w)} \subseteq 0..(WordBits - 1)
  BY <1>1, MaskFacts
<1>4. r \in [Words -> SUBSET (0..(WordBits - 1))]
  BY <1>3 DEF VM_MarkPagesUsed
<1>5. ASSUME NEW x \in s..(s + n - 1), x < ChunkPages
      PROVE  Mask(x) \subseteq r[Word(x)]
  <2>1. x \in Nat
    OBVIOUS
  <2>2. Word(x) \in Words /\ MarkedWord(x) = Word(x)
    BY <2>1, <1>5, FirstChunk, FirstWordsIn
  <2>3. x \in Row(Word(x))
    BY <2>2
  <2> QED BY <1>2, <2>2, <2>3
<1>6. ASSUME NEW w \in FirstWords, NEW b \in r[w] \ m[w]
      PROVE  \E x \in s..(s + n - 1) : x < ChunkPages /\ Word(x) = w /\ b \in Mask(x)
  <2>1. PICK x \in Row(w) : b \in Mask(x)
    BY <1>2, FirstWordsIn
  <2>2. x \in Nat /\ x \in s..(s + n - 1) /\ MarkedWord(x) = w
    OBVIOUS
  <2>3. x < ChunkPages /\ Word(x) = w
    BY <2>2, FirstChunk
  <2> QED BY <2>1, <2>2, <2>3
<1> QED BY <1>2, <1>4, <1>5, <1>6

(* Marking a row keeps the bitmap packed when all words below are packed. *)
LEMMA MarkKeepsPacked ==
  ASSUME NEW m \in [Words -> SUBSET (0..(WordBits - 1))], NEW s \in Nat, NEW n \in Nat,
         SignsOK(m), PackedOK(m),
         s < ChunkPages => \A v \in FirstWords : v < Word(s) => IntBits - 1 \in m[v]
  PROVE  LET r == VM_MarkPagesUsed(m, s, n) IN SignsOK(r) /\ PackedOK(r)
<1> DEFINE r == VM_MarkPagesUsed(m, s, n)
<1>1. /\ \A w \in FirstWords : m[w] \subseteq r[w]
      /\ \A x \in s..(s + n - 1) : x < ChunkPages => Mask(x) \subseteq r[Word(x)]
      /\ \A w \in FirstWords : \A b \in r[w] \ m[w] :
           \E x \in s..(s + n - 1) : x < ChunkPages /\ Word(x) = w /\ b \in Mask(x)
  BY MarkFacts, FirstWordsIn
<1> HIDE DEF r
<1>2. SignsOK(r)
  <2> SUFFICES ASSUME NEW w \in FirstWords, NEW b \in r[w] \cap HighBits
               PROVE  IntBits - 1 \in r[w]
    BY DEF SignsOK
  <2>1. CASE b \in m[w]
    BY <2>1, <1>1 DEF SignsOK
  <2>2. CASE b \notin m[w]
    <3>1. PICK x \in s..(s + n - 1) : x < ChunkPages /\ Word(x) = w /\ b \in Mask(x)
      BY <2>2, <1>1
    <3>2. x \in Nat
      OBVIOUS
    <3>3. IntBits - 1 \in Mask(x)
      BY <3>1, <3>2, MaskFacts
    <3> QED BY <3>1, <3>3, <1>1
  <2> QED BY <2>1, <2>2
<1>3. PackedOK(r)
  <2> SUFFICES ASSUME NEW v \in FirstWords, NEW w \in FirstWords, v < w, r[w] # {}
               PROVE  IntBits - 1 \in r[v]
    BY DEF PackedOK
  <2>1. CASE m[w] # {}
    BY <2>1, <1>1 DEF PackedOK
  <2>2. CASE m[w] = {}
    <3>1. PICK x \in s..(s + n - 1) : x < ChunkPages /\ Word(x) = w
      BY <2>2, <1>1
    <3>2. x \in Nat /\ s <= x /\ s < ChunkPages /\ v \in Nat /\ w \in Nat
      BY <3>1, Consts, BitmapAssumption DEF FirstWords
    <3>3. CASE v < Word(s)
      BY <3>2, <3>3, <1>1
    <3>4. CASE ~(v < Word(s))
      <4> DEFINE q == LastPage(v)
      <4>1. q \in Nat /\ Word(q) = v /\ Mask(q) = HighBits
        BY <3>2, LastPageFacts
      <4>2. s <= q
        <5>1. CASE Word(s) = v
          BY <5>1, WordOf, Consts, <3>2 DEF LastPage
        <5>2. CASE Word(s) # v
          BY <5>2, <3>4, <4>1, <3>2, WordMono, WordOf
        <5> QED BY <5>1, <5>2
      <4>3. q < x
        BY <4>1, <3>1, <3>2, WordMono
      <4> HIDE DEF q
      <4>4. q \in s..(s + n - 1) /\ q < ChunkPages
        BY <4>1, <4>2, <4>3, <3>1, <3>2, Consts
      <4> QED BY <4>1, <4>4, <1>1, MaskFacts
    <3> QED BY <3>3, <3>4
  <2> QED BY <2>1, <2>2
<1> QED BY <1>2, <1>3 DEF r

(* A row the search counts has no full word in it, within the first chunk. *)
LEMMA NoFullWordInRow ==
  ASSUME IInv, NEW s \in Nat, NEW e \in Nat, s <= e,
         Seen(s), \A q \in Counted(s, e) : IsFree(q),
         NEW p \in s..e, p < ChunkPages
  PROVE  Seen(p)
<1> SUFFICES ASSUME ~Seen(p) PROVE FALSE
  OBVIOUS
<1>1. p \in Nat /\ s < ChunkPages /\ s \in s..e
  BY Consts
<1>2. Word(p) \in FirstWords /\ Word(s) \in FirstWords /\ Word(s) <= Word(p)
  BY <1>1, FirstChunk, WordMono
<1>3. Word(s) \in Nat /\ Word(p) \in Nat /\ Word(s) < Word(p)
  BY <1>1, <1>2, WordOf DEF Seen
<1>4. marks[Word(p)] # {}
  <2>1. 0 \in Full
    BY Consts DEF Full
  <2> QED BY <2>1 DEF Seen
<1>5. IntBits - 1 \in marks[Word(s)]
  BY <1>2, <1>3, <1>4 DEF IInv, PackedOK
<1> DEFINE q == LastPage(Word(s))
<1>6. q \in Nat /\ Word(q) = Word(s) /\ Mask(q) = HighBits
  BY <1>3, LastPageFacts
<1>7. s <= q
  BY WordOf, <1>3, Consts DEF LastPage
<1>8. q < p
  BY <1>1, <1>3, <1>6, WordMono
<1> HIDE DEF q
<1>9. q \in Counted(s, e)
  BY <1>1, <1>6, <1>7, <1>8 DEF Counted, Seen
<1>10. IsFree(q)
  BY <1>9
<1> QED BY <1>5, <1>6, <1>10, MaskFacts DEF IsFree

(* So the pages that are handed out read as free before. *)
LEMMA RowIsFree ==
  ASSUME IInv, NEW n \in Nat, NEW s \in Nat, NEW e \in Nat, s <= e, Run(s, e, n),
         NEW x \in s..(s + n - 1), x < ChunkPages
  PROVE  IsFree(x)
<1>1. IsFiniteSet(s..e) /\ Cardinality(s..e) = e - s + 1
  BY FS_Interval
<1>2. Cardinality(Counted(s, e)) <= e - s + 1
  BY <1>1, FS_Subset DEF Counted
<1>3. x \in s..e
  BY <1>2 DEF Run
<1>4. Seen(x)
  BY <1>3, NoFullWordInRow DEF Run
<1> QED BY <1>3, <1>4 DEF Run, Counted

(* Every word below the row has its sign bit set: the row would have begun *)
(* there otherwise.                                                        *)
LEMMA PackedBelowRun ==
  ASSUME IInv, NEW n \in Nat, NEW s \in Nat, NEW e \in Nat, Run(s, e, n),
         s < ChunkPages, NEW v \in FirstWords, v < Word(s)
  PROVE  IntBits - 1 \in marks[v]
<1> SUFFICES ASSUME IntBits - 1 \notin marks[v] PROVE FALSE
  OBVIOUS
<1>1. v \in Nat /\ Word(s) \in Nat
  BY WordOf DEF FirstWords
<1> DEFINE q == LastPage(v)
           p == s - 1
<1>2. q \in Nat /\ q >= 1 /\ Word(q) = v /\ Mask(q) = HighBits
  <2>1. WordBits * v \in Nat
    BY <1>1, Consts
  <2>2. q >= 1
    BY <2>1, Consts DEF LastPage
  <2> QED BY <2>2, <1>1, LastPageFacts
<1>3. q < s
  BY <1>1, <1>2, WordMono
<1>4. p \in Nat /\ p >= 1 /\ q <= p /\ p < ChunkPages
  BY <1>2, <1>3, Consts
<1>5. Word(p) \in FirstWords /\ v <= Word(p)
  BY <1>2, <1>4, FirstChunk, WordMono
<1>6. Seen(p) /\ IsFree(p)
  <2>1. CASE Word(p) = v
    <3>1. p = q
      BY <2>1, <1>4, <1>2, WordOf, Consts DEF LastPage
    <3>2. marks[v] \cap HighBits = {}
      BY DEF IInv, SignsOK
    <3>3. IntBits - 1 \in Full
      BY Consts DEF Full
    <3> HIDE DEF p, q
    <3> QED BY <3>1, <3>2, <3>3, <1>2 DEF Seen, IsFree
  <2>2. CASE Word(p) # v
    <3>1. v < Word(p)
      BY <2>2, <1>5, <1>1 DEF FirstWords
    <3>2. marks[Word(p)] = {}
      BY <3>1, <1>5 DEF IInv, PackedOK
    <3>3. 0 \in Full
      BY Consts DEF Full
    <3> QED BY <3>2, <3>3 DEF Seen, IsFree
  <2> QED BY <2>1, <2>2
<1>7. p \in 1..(s - 1) /\ (p + 1)..(s - 1) = {}
  BY <1>4
<1> QED BY <1>6, <1>7 DEF Run

(* VM_AllocatePages keeps the invariant. *)
LEMMA AllocateKeeps ==
  ASSUME IInv, NEW n \in Amounts, VM_AllocatePages(n)
  PROVE  IInv'
<1>1. CASE UNCHANGED <<marks, owned, twice>>
  <2>1. UNCHANGED vars
    BY <1>1 DEF VM_AllocatePages, vars
  <2> QED BY <2>1 DEF vars, IInv, TypeOK, NoDoubleAlloc, IsFree
<1>2. CASE \E s \in Pages : Finds(s, n)
  <2>1. PICK s \in Pages :
          /\ Finds(s, n)
          /\ marks' = VM_MarkPagesUsed(marks, s, n)
          /\ owned' = owned \cup (s..(s + n - 1))
          /\ twice' = twice \cup (owned \cap (s..(s + n - 1)))
          /\ stopped' = stopped
    BY <1>2 DEF VM_AllocatePages
  <2>2. PICK e \in Pages : s <= e /\ Run(s, e, n)
    BY <2>1 DEF Finds
  <2>3. s \in Nat /\ e \in Nat /\ n \in Nat
    BY BitmapAssumption DEF Pages
  <2>4. marks \in [Words -> SUBSET (0..(WordBits - 1))]
    BY DEF IInv, TypeOK
  <2>5. /\ marks' \in [Words -> SUBSET (0..(WordBits - 1))]
        /\ \A w \in FirstWords : marks[w] \subseteq marks'[w]
        /\ \A x \in s..(s + n - 1) : x < ChunkPages => Mask(x) \subseteq marks'[Word(x)]
    BY <2>1, <2>3, <2>4, MarkFacts, FirstWordsIn
  <2>6. SignsOK(marks') /\ PackedOK(marks')
    <3>1. s < ChunkPages => \A v \in FirstWords : v < Word(s) => IntBits - 1 \in marks[v]
      BY <2>2, <2>3, PackedBelowRun
    <3>2. SignsOK(marks) /\ PackedOK(marks)
      BY DEF IInv
    <3> QED BY <3>1, <3>2, <2>1, <2>3, <2>4, MarkKeepsPacked
  <2>7. TypeOK'
    BY <2>1, <2>3, <2>5 DEF IInv, TypeOK
  <2>8. \A x \in s..(s + n - 1) : x < ChunkPages => IsFree(x)
    BY <2>2, <2>3, RowIsFree
  <2>9. NoDoubleAlloc'
    <3>1. owned \cap (s..(s + n - 1)) \cap (0..(ChunkPages - 1)) = {}
      BY <2>8, Consts DEF IInv
    <3> QED BY <3>1, <2>1 DEF IInv, NoDoubleAlloc
  <2>10. ASSUME NEW p \in owned', p < ChunkPages PROVE ~(Mask(p) \cap marks'[Word(p)] = {})
    <3>1. p \in Nat
      BY <2>7 DEF TypeOK
    <3>2. Word(p) \in FirstWords /\ Mask(p) # {}
      BY <3>1, <2>10, FirstChunk, MaskFacts
    <3>3. CASE p \in owned
      BY <3>2, <3>3, <2>5, <2>10 DEF IInv, IsFree
    <3>4. CASE p \in s..(s + n - 1)
      BY <3>2, <3>4, <2>5, <2>10
    <3> QED BY <3>3, <3>4, <2>1
  <2> QED BY <2>6, <2>7, <2>9, <2>10 DEF IInv, IsFree, SignsOK, PackedOK
<1> QED BY <1>1, <1>2 DEF VM_AllocatePages

(* The marks of LoadVirtualMemory satisfy the invariant. *)
LEMMA InitInv == Init => IInv
<1> SUFFICES ASSUME Init PROVE IInv
  OBVIOUS
<1> DEFINE m == [w \in Words |-> {}]
<1>1. m \in [Words -> SUBSET (0..(WordBits - 1))]
  OBVIOUS
<1>2. KernelPages \in Nat /\ KernelPages - 1 < ChunkPages
  BY BitmapAssumption, Consts DEF WordBits, ChunkPages
<1>3. SignsOK(m) /\ PackedOK(m)
  BY FirstWordsIn DEF SignsOK, PackedOK
<1>4. \A v \in FirstWords : ~(v < Word(0))
  <2>1. Word(0) = 0
    BY Consts DEF Word
  <2> QED BY <2>1 DEF FirstWords
<1> HIDE DEF m
<1>5. marks = VM_MarkPagesUsed(m, 0, KernelPages)
  BY DEF Init, m
<1>6. SignsOK(marks) /\ PackedOK(marks)
  BY <1>1, <1>2, <1>3, <1>4, <1>5, MarkKeepsPacked
<1>7. /\ marks \in [Words -> SUBSET (0..(WordBits - 1))]
      /\ \A x \in 0..(KernelPages - 1) : x < ChunkPages => Mask(x) \subseteq marks[Word(x)]
  <2>1. 0 + KernelPages - 1 = KernelPages - 1
    BY <1>2
  <2> QED BY <2>1, <1>1, <1>2, <1>5, MarkFacts
<1>8. owned = 0..(KernelPages - 1) /\ twice = {} /\ stopped = FALSE
  BY DEF Init
<1>9. owned \subseteq Nat
  BY <1>8, <1>2
<1>10. TypeOK
  BY <1>7, <1>8, <1>9 DEF TypeOK
<1>11. ASSUME NEW p \in owned, p < ChunkPages PROVE ~IsFree(p)
  BY <1>7, <1>8, <1>9, <1>11, MaskFacts DEF IsFree
<1> QED BY <1>6, <1>8, <1>10, <1>11 DEF IInv, NoDoubleAlloc

(* Every step keeps the invariant. *)
LEMMA Invariance == Spec => []IInv
<1>1. IInv /\ [Next]_vars => IInv'
  <2> SUFFICES ASSUME IInv, [Next]_vars PROVE IInv'
    OBVIOUS
  <2>1. ASSUME NEW n \in Amounts, VM_AllocatePages(n) PROVE IInv'
    BY <2>1, AllocateKeeps
  <2>2. CASE VM_FreePages
    BY <2>2 DEF VM_FreePages, IInv, TypeOK, NoDoubleAlloc, IsFree
  <2>3. CASE UNCHANGED vars
    BY <2>3 DEF vars, IInv, TypeOK, NoDoubleAlloc, IsFree
  <2> QED BY <2>1, <2>2, <2>3 DEF Next
<1> QED BY <1>1, InitInv, PTL DEF Spec

(* VM_AllocatePages never hands out a page of the first 128 MiB of kernel  *)
(* addresses that the kernel image or an earlier caller has.               *)
THEOREM FirstChunkSafe == Spec => [](TypeOK /\ NoDoubleAlloc)
<1>1. IInv => TypeOK /\ NoDoubleAlloc
  BY DEF IInv
<1> QED BY <1>1, Invariance, PTL

-----------------------------------------------------------------------------
(* First fit. *)

(* Every nonempty set of naturals has a least element: otherwise the       *)
(* intervals 0..n would have no minimal one among them.                    *)
LEMMA HasLeast ==
  ASSUME NEW S \in SUBSET Nat, S # {}
  PROVE  \E m \in S : \A x \in S : m <= x
<1> DEFINE T == {0..n : n \in S}
<1>1. T \subseteq FiniteSubsetsOf(Nat) /\ T # {}
  <2>1. \A n \in S : 0..n \in FiniteSubsetsOf(Nat)
    BY FS_Interval DEF FiniteSubsetsOf
  <2> QED BY <2>1, Zenon
<1>2. PICK x \in T : \A y \in T : ~(<<y, x>> \in StrictSubsetOrdering(Nat))
  <2> HIDE DEF T
  <2> QED BY <1>1, FS_StrictSubsetOrderingWellFounded, WFMin, Zenon
<1>3. PICK m \in S : x = 0..m
  BY Zenon
<1>4. ASSUME NEW n \in S PROVE m <= n
  <2>1. SUFFICES ASSUME n < m PROVE FALSE
    OBVIOUS
  <2>2. 0..n \in T
    BY Zenon
  <2>3. 0..n \subseteq 0..m /\ 0..n # 0..m /\ 0..n \in SUBSET Nat /\ 0..m \in SUBSET Nat
    BY <2>1
  <2> QED BY <1>2, <1>3, <2>2, <2>3, Zenon DEF StrictSubsetOrdering
<1> QED BY <1>4, Zenon

(* A page that reads as free lies in a word the search looks into. *)
LEMMA FreeIsSeen ==
  ASSUME NEW p \in Nat, IsFree(p)
  PROVE  Seen(p)
<1>1. Mask(p) # {} /\ Mask(p) \subseteq Full
  BY MaskFacts, Zenon DEF Full
<1> QED BY <1>1 DEF IsFree, Seen

(* When n pages in a row read as free, the search counts n pages that      *)
(* begin no later: the pages of the longest row of pages it can count that *)
(* reaches the first of them.                                              *)
LEMMA SomeRun ==
  ASSUME IInv, NEW n \in Nat \ {0}, NEW s \in 1..(ChunkPages - n), FreeRow(s, n)
  PROVE  \E t \in 1..s : Run(t, t + n - 1, n)
<1> DEFINE A == {u \in 1..s : Seen(u) /\ \A q \in u..s : Seen(q) => IsFree(q)}
<1>1. s \in Nat /\ s >= 1 /\ ChunkPages \in Nat /\ s + n - 1 < ChunkPages
  BY Consts
<1>2. \A p \in s..(s + n - 1) : IsFree(p) /\ Seen(p)
  <2>1. s..(s + n - 1) \subseteq Nat
    BY <1>1
  <2> QED BY <2>1, FreeIsSeen, Zenon DEF FreeRow
<1>3. s \in A
  <2>1. s \in 1..s /\ s..s = {s} /\ s \in s..(s + n - 1)
    BY <1>1
  <2> QED BY <2>1, <1>2, Zenon
<1>4. PICK t \in A : \A u \in A : t <= u
  <2>1. A \in SUBSET Nat /\ A # {}
    BY <1>1, <1>3
  <2> QED BY <2>1, HasLeast, Zenon
<1>5. /\ t \in Nat /\ 1 <= t /\ t <= s /\ Seen(t)
      /\ \A q \in t..s : Seen(q) => IsFree(q)
  BY <1>1
<1> DEFINE e == t + n - 1
<1>6. e \in Nat /\ t <= e /\ e <= s + n - 1 /\ e < ChunkPages
  BY <1>1, <1>5
<1>7. \A q \in Counted(t, e) : IsFree(q)
  <2> TAKE q \in Counted(t, e)
  <2>1. q \in t..e /\ Seen(q)
    BY Zenon DEF Counted
  <2>2. q \in t..s \/ q \in s..(s + n - 1)
    BY <2>1, <1>1, <1>5, <1>6
  <2> QED BY <2>1, <2>2, <1>2, <1>5, Zenon
<1> HIDE DEF e
<1>8. \A p \in t..e : Seen(p)
  <2> TAKE p \in t..e
  <2>1. p < ChunkPages
    BY <1>1, <1>5, <1>6
  <2> QED BY <2>1, <1>5, <1>6, <1>7, NoFullWordInRow, Zenon
<1>9. Cardinality(Counted(t, e)) = n
  <2>1. Counted(t, e) = t..e
    BY <1>8, Zenon DEF Counted
  <2>2. Cardinality(t..e) = e - t + 1
    BY <1>5, <1>6, FS_Interval
  <2> QED BY <2>1, <2>2, <1>5, <1>6 DEF e
<1>10. ASSUME NEW p \in 1..(t - 1), Seen(p), IsFree(p)
       PROVE  \E q \in (p + 1)..(t - 1) : Seen(q) /\ ~IsFree(q)
  <2>1. p \in 1..s /\ p < t /\ p \in Nat
    BY <1>1, <1>5
  <2>2. p \notin A
    BY <2>1, <1>4, <1>5
  <2>3. PICK q \in p..s : Seen(q) /\ ~IsFree(q)
    BY <2>1, <2>2, <1>10, Zenon
  <2>4. q \notin t..s /\ q # p
    BY <2>3, <1>5, <1>10, Zenon
  <2>5. q \in (p + 1)..(t - 1)
    BY <2>1, <2>4, <1>1, <1>5
  <2> QED BY <2>3, <2>5, Zenon
<1>11. Seen(e) /\ t # 0
  <2>1. e \in t..e /\ t # 0
    BY <1>5, <1>6
  <2> QED BY <2>1, <1>8, Zenon
<1>12. Run(t, e, n)
  BY <1>5, <1>7, <1>9, <1>10, <1>11, Zenon DEF Run
<1> QED BY <1>12, <1>5 DEF e

(* The search ends at the first end of a run, so no later than that one.   *)
LEMMA InvFirstFit == IInv => FirstFit
<1> SUFFICES ASSUME IInv, NEW n \in Amounts, NEW s \in 1..(ChunkPages - n), FreeRow(s, n)
             PROVE  \E t \in 1..s : Finds(t, n) /\ FreeRow(t, n)
  BY Zenon DEF FirstFit
<1>1. n \in Nat \ {0}
  BY BitmapAssumption, Zenon
<1>2. s \in Nat /\ s >= 1 /\ s + n - 1 < ChunkPages /\ ChunkPages \in Nat
  BY <1>1, Consts
<1>3. PICK t \in 1..s : Run(t, t + n - 1, n)
  BY <1>1, SomeRun, Zenon
<1> DEFINE E == {e \in Nat : \E u \in 0..e : Run(u, e, n)}
<1>4. t + n - 1 \in E
  <2>1. t + n - 1 \in Nat /\ t \in 0..(t + n - 1)
    BY <1>1, <1>2
  <2> QED BY <2>1, <1>3, Zenon
<1>5. PICK e \in E : \A f \in E : e <= f
  <2>1. E \in SUBSET Nat /\ E # {}
    BY <1>4, Zenon
  <2> QED BY <2>1, HasLeast, Zenon
<1>6. PICK u \in 0..e : Run(u, e, n)
  BY <1>5, Zenon
<1>7. /\ e \in Nat /\ u \in Nat /\ u <= e /\ e <= s + n - 1 /\ e < ChunkPages
  <2>1. e \in Nat /\ e <= t + n - 1
    BY <1>4, <1>5, Zenon
  <2> QED BY <2>1, <1>1, <1>2
<1>8. \A f \in 0..(e - 1) : \A v \in 0..f : ~Run(v, f, n)
  <2> SUFFICES ASSUME NEW f \in 0..(e - 1), NEW v \in 0..f, Run(v, f, n) PROVE FALSE
    BY Zenon
  <2>1. f \in Nat /\ ~(e <= f)
    BY <1>7
  <2>2. f \in E
    BY <2>1, Zenon
  <2> QED BY <2>1, <2>2, <1>5, Zenon
<1>9. n <= e - u + 1
  <2>1. IsFiniteSet(u..e) /\ Cardinality(u..e) = e - u + 1
    BY <1>7, FS_Interval
  <2>2. Counted(u, e) \subseteq u..e
    BY Zenon DEF Counted
  <2>3. Cardinality(Counted(u, e)) <= Cardinality(u..e)
    BY <2>1, <2>2, FS_Subset, Zenon
  <2> QED BY <2>1, <2>3, <1>6 DEF Run
<1>10. u \in 1..s /\ u + n - 1 < ChunkPages
  <2>1. u # 0
    BY <1>6, Zenon DEF Run
  <2> QED BY <2>1, <1>1, <1>2, <1>7, <1>9
<1>11. FreeRow(u, n)
  <2>1. SUFFICES ASSUME NEW x \in u..(u + n - 1) PROVE IsFree(x)
    BY Zenon DEF FreeRow
  <2>2. x < ChunkPages
    BY <1>1, <1>2, <1>7, <1>10
  <2> QED BY <2>2, <1>1, <1>6, <1>7, RowIsFree, Zenon
<1>12. e \in Pages
  <2>1. Chunks * ChunkPages >= ChunkPages
    BY BitmapAssumption, Consts
  <2> QED BY <2>1, <1>2, <1>7, BitmapAssumption DEF Pages
<1>13. Finds(u, n)
  BY <1>6, <1>8, <1>12, Zenon DEF Finds
<1> QED BY <1>10, <1>11, <1>13, Zenon

(* In the first 128 MiB of kernel addresses the search never passes by n    *)
(* free pages in a row: what it finds begins no later and is free.         *)
THEOREM SearchIsFirstFit == Spec => []FirstFit
BY Invariance, InvFirstFit, PTL

=============================================================================
