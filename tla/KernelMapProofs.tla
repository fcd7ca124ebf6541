--------------------------- MODULE KernelMapProofs ---------------------------
(***************************************************************************)
(* That the kernel's page tables translate as asked, and that callers'     *)
(* frames are their own, for any number of tables, frames and calls, and   *)
(* whatever frames held before they became tables.                         *)
(***************************************************************************)
EXTENDS KernelMap, FiniteSetTheorems, WellFoundedInduction, TLAPS

-----------------------------------------------------------------------------
(* Powers of two. *)

(* Every nonempty set of naturals has a least element: otherwise the       *)
(* intervals 0..n would have no minimal one among them.                    *)
LEMMA HasLeast ==
  ASSUME NEW S \in SUBSET Nat, S # {}
  PROVE  \E m \in S : \A x \in S : m <= x
<1> DEFINE T == {0..n : n \in S}
<1>1. T \subseteq FiniteSubsetsOf(Nat) /\ T # {}
  <2>1. \A n \in S : 0..n \in FiniteSubsetsOf(Nat)
    BY FS_Interval DEF FiniteSubsetsOf
  <2> QED BY <2>1, Zenon
<1>2. PICK x \in T : \A y \in T : ~(<<y, x>> \in StrictSubsetOrdering(Nat))
  <2> HIDE DEF T
  <2> QED BY <1>1, FS_StrictSubsetOrderingWellFounded, WFMin, Zenon
<1>3. PICK m \in S : x = 0..m
  BY Zenon
<1>4. ASSUME NEW n \in S PROVE m <= n
  <2>1. SUFFICES ASSUME n < m PROVE FALSE
    OBVIOUS
  <2>2. 0..n \in T
    BY Zenon
  <2>3. 0..n \subseteq 0..m /\ 0..n # 0..m /\ 0..n \in SUBSET Nat /\ 0..m \in SUBSET Nat
    BY <2>1
  <2> QED BY <1>2, <1>3, <2>2, <2>3, Zenon DEF StrictSubsetOrdering
<1> QED BY <1>4, Zenon

PowsUpTo(k) == {f \in [0..k -> Nat \ {0}] : f[0] = 1 /\ \A n \in 1..k : f[n] = 2 * f[n - 1]}

LEMMA PowsExist ==
  ASSUME NEW k \in Nat
  PROVE  PowsUpTo(k) # {}
<1> DEFINE Bad == {n \in Nat : PowsUpTo(n) = {}}
<1>1. SUFFICES ASSUME Bad # {} PROVE FALSE
  BY Zenon
<1>2. Bad \in SUBSET Nat
  BY Zenon
<1>3. PICK m \in Bad : \A x \in Bad : m <= x
  <2> HIDE DEF Bad
  <2> QED BY <1>1, <1>2, HasLeast, Zenon
<1>4. CASE m = 0
  <2>1. [n \in 0..0 |-> 1] \in PowsUpTo(0)
    BY DEF PowsUpTo
  <2> QED BY <1>3, <1>4, <2>1, Zenon
<1>5. CASE m # 0
  <2>1. m - 1 \in Nat /\ m - 1 \notin Bad /\ m \in Nat
    BY <1>3, <1>5
  <2>2. PICK g \in PowsUpTo(m - 1) : TRUE
    BY <2>1, Zenon
  <2> DEFINE h == [n \in 0..m |-> IF n = m THEN 2 * g[m - 1] ELSE g[n]]
  <2>3. g \in [0..(m - 1) -> Nat \ {0}] /\ g[0] = 1 /\ \A n \in 1..(m - 1) : g[n] = 2 * g[n - 1]
    BY <2>2, Zenon DEF PowsUpTo
  <2>4. h \in [0..m -> Nat \ {0}]
    BY <2>1, <2>3
  <2>5. h[0] = 1
    BY <1>5, <2>1, <2>3
  <2>6. ASSUME NEW n \in 1..m PROVE h[n] = 2 * h[n - 1]
    BY <2>1, <2>3
  <2>7. h \in PowsUpTo(m)
    <3> HIDE DEF h
    <3> QED BY <2>4, <2>5, <2>6, Zenon DEF PowsUpTo
  <2> QED BY <1>3, <2>7, Zenon
<1> QED BY <1>4, <1>5, Zenon

(* Pow2 is what its recursive definition says. *)
LEMMA PowIs ==
  /\ Pow2 \in [0..SizeBits -> Nat \ {0}] /\ Pow2[0] = 1
  /\ \A n \in 1..SizeBits : Pow2[n] = 2 * Pow2[n - 1]
<1> DEFINE Rec(f) == [i \in 0..SizeBits |-> IF i = 0 THEN 1 ELSE 2 * f[i - 1]]
<1>0. SizeBits \in Nat
  BY SizeAssumption, Zenon
<1>1. PICK g \in PowsUpTo(SizeBits) : TRUE
  BY <1>0, PowsExist, Zenon
<1>2. g \in [0..SizeBits -> Nat \ {0}] /\ g[0] = 1 /\ \A n \in 1..SizeBits : g[n] = 2 * g[n - 1]
  BY <1>1, Zenon DEF PowsUpTo
<1>3. g = Rec(g)
  BY <1>0, <1>2
<1>4. Pow2 = CHOOSE f : f = Rec(f)
  BY Zenon DEF Pow2
<1>5. Pow2 = Rec(Pow2)
  BY <1>3, <1>4, Zenon
<1> HIDE DEF Rec
<1>6. DOMAIN Pow2 = 0..SizeBits /\ Pow2 = [i \in 0..SizeBits |-> Pow2[i]]
  BY <1>5, Zenon DEF Rec
<1>7. ASSUME NEW i \in 0..SizeBits PROVE Pow2[i] = IF i = 0 THEN 1 ELSE 2 * Pow2[i - 1]
  BY <1>5, Zenon DEF Rec
(* There is only one such function. *)
<1> DEFINE Bad == {i \in 0..SizeBits : Pow2[i] # g[i]}
<1>8. Bad = {}
  <2>1. SUFFICES ASSUME Bad # {} PROVE FALSE
    BY Zenon
  <2>2. Bad \in SUBSET Nat
    BY <1>0
  <2>3. PICK m \in Bad : \A x \in Bad : m <= x
    <3> HIDE DEF Bad
    <3> QED BY <2>1, <2>2, HasLeast, Zenon
  <2>4. m \in 0..SizeBits /\ Pow2[m] # g[m]
    BY Zenon
  <2>5. m # 0
    BY <1>2, <1>7, <2>4, Zenon
  <2>6. m - 1 \in 0..SizeBits /\ m \in 1..SizeBits /\ ~(m <= m - 1)
    BY <1>0, <2>4, <2>5
  <2>7. Pow2[m - 1] = g[m - 1]
    BY <2>3, <2>6, Zenon
  <2> QED BY <1>2, <1>7, <2>4, <2>5, <2>6, <2>7, Zenon
<1>9. \A i \in 0..SizeBits : Pow2[i] = g[i]
  BY <1>8, Zenon
<1>10. g = [i \in 0..SizeBits |-> g[i]]
  BY <1>2, Zenon
<1>11. Pow2 = g
  BY <1>6, <1>9, <1>10, Zenon
<1> QED BY <1>2, <1>11, Zenon

LEMMA PowGrows ==
  ASSUME NEW i \in 0..SizeBits, NEW j \in 0..SizeBits, i < j
  PROVE  2 * Pow2[i] <= Pow2[j]
<1>0. SizeBits \in Nat
  BY SizeAssumption, Zenon
<1> DEFINE Bad == {x \in (i + 1)..SizeBits : ~(2 * Pow2[i] <= Pow2[x])}
<1>1. SUFFICES ASSUME Bad # {} PROVE FALSE
  <2>1. j \in (i + 1)..SizeBits
    BY <1>0
  <2> QED BY <1>1, <2>1, Zenon
<1>2. Bad \in SUBSET Nat
  BY <1>0
<1>3. PICK m \in Bad : \A x \in Bad : m <= x
  <2> HIDE DEF Bad
  <2> QED BY <1>1, <1>2, HasLeast, Zenon
<1>4. m \in (i + 1)..SizeBits /\ ~(2 * Pow2[i] <= Pow2[m])
  BY Zenon
<1>5. m \in 1..SizeBits /\ m - 1 \in 0..SizeBits /\ ~(m <= m - 1) /\ (m - 1 # i => m - 1 \in (i + 1)..SizeBits)
  BY <1>0, <1>4
<1>6. PICK p \in Nat \ {0} : p = Pow2[i]
  BY PowIs, Zenon
<1>7. PICK q \in Nat \ {0} : q = Pow2[m - 1]
  BY <1>5, PowIs, Zenon
<1>8. Pow2[m] = 2 * q
  BY <1>5, <1>7, PowIs, Zenon
<1>9. m - 1 # i => 2 * p <= q
  BY <1>3, <1>5, <1>6, <1>7, Zenon
<1>10. m - 1 = i => q = p
  BY <1>6, <1>7, Zenon
<1>11. 2 * p <= 2 * q
  BY <1>9, <1>10
<1> QED BY <1>4, <1>6, <1>8, <1>11, Zenon

LEMMA PowAdds ==
  ASSUME NEW a \in Nat, NEW b \in Nat, a + b <= SizeBits
  PROVE  Pow2[a + b] = Pow2[a] * Pow2[b]
<1>0. SizeBits \in Nat
  BY SizeAssumption, Zenon
<1> DEFINE Bad == {x \in 0..(SizeBits - a) : Pow2[a + x] # Pow2[a] * Pow2[x]}
<1>1. SUFFICES ASSUME Bad # {} PROVE FALSE
  <2>1. b \in 0..(SizeBits - a)
    BY <1>0
  <2> QED BY <1>1, <2>1, Zenon
<1>2. Bad \in SUBSET Nat
  BY <1>0
<1>3. PICK m \in Bad : \A x \in Bad : m <= x
  <2> HIDE DEF Bad
  <2> QED BY <1>1, <1>2, HasLeast, Zenon
<1>4. m \in 0..(SizeBits - a) /\ Pow2[a + m] # Pow2[a] * Pow2[m]
  BY Zenon
<1>5. a \in 0..SizeBits /\ m \in 0..SizeBits
  BY <1>0, <1>4
<1>6. PICK p \in Nat \ {0} : p = Pow2[a]
  BY <1>5, PowIs, Zenon
<1>7. CASE m = 0
  <2>1. Pow2[a + 0] = p /\ Pow2[0] = 1
    <3>1. a + 0 = a
      OBVIOUS
    <3> QED BY <1>6, <3>1, PowIs, Zenon
  <2>2. p * 1 = p
    OBVIOUS
  <2> QED BY <1>4, <1>6, <1>7, <2>1, <2>2, Zenon
<1>8. CASE m # 0
  <2>1. /\ m - 1 \in 0..(SizeBits - a) /\ ~(m <= m - 1) /\ m \in 1..SizeBits
        /\ a + m \in 1..SizeBits /\ (a + m) - 1 = a + (m - 1) /\ m - 1 \in 0..SizeBits
    BY <1>0, <1>4, <1>8
  <2>2. PICK q \in Nat \ {0} : q = Pow2[m - 1]
    <3>1. Pow2[m - 1] \in Nat \ {0}
      BY <2>1, PowIs, Zenon
    <3> QED BY <3>1, Zenon
  <2>3. Pow2[a + (m - 1)] = p * q
    BY <1>3, <1>6, <2>1, <2>2, Zenon
  <2>4. Pow2[m] = 2 * q /\ Pow2[a + m] = 2 * (p * q)
    BY <2>1, <2>2, <2>3, PowIs, Zenon
  <2>5. 2 * (p * q) = p * (2 * q)
    OBVIOUS
  <2> QED BY <1>4, <1>6, <2>4, <2>5, Zenon
<1> QED BY <1>7, <1>8, Zenon

(* The quotient is the number that leaves less than the divisor. *)
Between(n, w, q) == q * w <= n /\ n < q * w + w
Quotient(n, w, q) == n \div w = q

LEMMA DivIs ==
  ASSUME NEW w \in Nat, w # 0, NEW q \in Nat, NEW n \in Nat, Between(n, w, q)
  PROVE  Quotient(n, w, q)
<1>0. q * w <= n /\ n < q * w + w
  BY Zenon DEF Between
<1> DEFINE p == n \div w
           m == n % w
<1>1. p \in Int /\ m \in 0..(w - 1) /\ n = w * p + m
  OBVIOUS
<1> HIDE DEF p, m
<1>2. w * (p - q) < w /\ w * (p - q) > -w
  BY <1>0, <1>1
<1>3. p - q >= 1 => w * (p - q) >= w
  BY <1>1
<1>4. p - q <= -1 => w * (p - q) <= -w
  BY <1>1
<1>5. p = q
  BY <1>1, <1>2, <1>3, <1>4
<1> QED BY <1>5, Zenon DEF p, Quotient

-----------------------------------------------------------------------------
(* Rounding up to a power of two. *)

(* The value of the bits below t. *)
LEMMA FullValue ==
  ASSUME NEW t \in 0..SizeBits
  PROVE  ValueOf(0..(t - 1)) = Pow2[t] - 1
<1> DEFINE bits == 0..(t - 1)
           Rec(f) == [i \in 0..SizeBits |->
                        IF i = 0 THEN 0 ELSE f[i - 1] + (IF i - 1 \in bits THEN Pow2[i - 1] ELSE 0)]
           g == [i \in 0..SizeBits |-> IF i <= t THEN Pow2[i] - 1 ELSE Pow2[t] - 1]
           sum == CHOOSE f : f = Rec(f)
<1>0. SizeBits \in Nat /\ t \in Nat
  BY SizeAssumption
<1>1. g = Rec(g)
  <2>1. g[0] = 0
    BY <1>0, PowIs
  <2>2. ASSUME NEW i \in 1..SizeBits
        PROVE  g[i] = g[i - 1] + (IF i - 1 \in bits THEN Pow2[i - 1] ELSE 0)
    <3>1. i - 1 \in 0..SizeBits /\ i \in 0..SizeBits
      BY <1>0
    <3>2. PICK q \in Nat : q = Pow2[i - 1]
      <4>1. Pow2[i - 1] \in Nat \ {0}
        BY <3>1, PowIs, Zenon
      <4> QED BY <4>1, Zenon
    <3>3. PICK r \in Nat : r = Pow2[t]
      <4>1. Pow2[t] \in Nat \ {0}
        BY PowIs, Zenon
      <4> QED BY <4>1, Zenon
    <3>4. Pow2[i] = 2 * q
      BY <3>2, PowIs, Zenon
    <3>5. g[i] = (IF i <= t THEN 2 * q - 1 ELSE r - 1) /\ g[i - 1] = (IF i - 1 <= t THEN q - 1 ELSE r - 1)
      BY <3>1, <3>2, <3>3, <3>4, Zenon
    <3>6. i - 1 = t => q = r
      BY <3>2, <3>3, Zenon
    <3> HIDE DEF g
    <3>7. CASE i <= t
      <4>1. i - 1 <= t /\ i - 1 \in bits
        BY <1>0, <3>7
      <4>2. 2 * q - 1 = (q - 1) + q
        OBVIOUS
      <4> QED BY <3>2, <3>5, <3>7, <4>1, <4>2, Zenon
    <3>8. CASE ~(i <= t)
      <4>1. i - 1 \notin bits /\ (i - 1 <= t => i - 1 = t) /\ r - 1 = (r - 1) + 0
        BY <1>0, <3>8
      <4> QED BY <3>5, <3>6, <3>8, <4>1, Zenon
    <3> QED BY <3>7, <3>8, Zenon
  <2>3. ASSUME NEW i \in 0..SizeBits
        PROVE  g[i] = IF i = 0 THEN 0 ELSE g[i - 1] + (IF i - 1 \in bits THEN Pow2[i - 1] ELSE 0)
    <3>1. i # 0 => i \in 1..SizeBits
      BY <1>0
    <3> HIDE DEF g, bits
    <3> QED BY <2>1, <2>2, <3>1, Zenon
  <2>4. g = [i \in 0..SizeBits |-> g[i]]
    BY Zenon
  <2> HIDE DEF g, bits
  <2> QED BY <2>3, <2>4, Zenon
<1>2. sum = Rec(sum)
  <2> HIDE DEF g, Rec
  <2> QED BY <1>1, Zenon
<1>3. ValueOf(bits) = sum[SizeBits]
  BY Zenon DEF ValueOf
<1> HIDE DEF sum
<1>4. ASSUME NEW i \in 0..SizeBits
      PROVE  /\ sum[i] = IF i = 0 THEN 0 ELSE sum[i - 1] + (IF i - 1 \in bits THEN Pow2[i - 1] ELSE 0)
             /\ g[i] = IF i = 0 THEN 0 ELSE g[i - 1] + (IF i - 1 \in bits THEN Pow2[i - 1] ELSE 0)
  <2> HIDE DEF g, bits
  <2> QED BY <1>1, <1>2, Zenon
<1> DEFINE Bad == {i \in 0..SizeBits : sum[i] # g[i]}
<1>5. Bad = {}
  <2> HIDE DEF g, bits
  <2>1. SUFFICES ASSUME Bad # {} PROVE FALSE
    BY Zenon
  <2>2. Bad \in SUBSET Nat
    BY <1>0
  <2>3. PICK m \in Bad : \A x \in Bad : m <= x
    <3> HIDE DEF Bad
    <3> QED BY <2>1, <2>2, HasLeast, Zenon
  <2>4. m \in 0..SizeBits /\ sum[m] # g[m]
    BY Zenon
  <2>5. m # 0
    BY <1>4, <2>4, Zenon
  <2>6. m - 1 \in 0..SizeBits /\ ~(m <= m - 1)
    BY <1>0, <2>4, <2>5
  <2>7. sum[m - 1] = g[m - 1]
    BY <2>3, <2>6, Zenon
  <2> QED BY <1>4, <2>4, <2>5, <2>7, Zenon
<1>6. SizeBits \in 0..SizeBits /\ (SizeBits <= t => t = SizeBits)
  BY <1>0
<1>7. sum[SizeBits] = g[SizeBits]
  <2> HIDE DEF g
  <2> QED BY <1>5, <1>6, Zenon
<1>8. g[SizeBits] = Pow2[t] - 1
  BY <1>6, Zenon
<1> HIDE DEF g
<1> QED BY <1>3, <1>7, <1>8, Zenon

(* The highest w of the bits up to t are set, and none above t. *)
TopSet(bits, t, w) == bits \subseteq 0..t /\ \A i \in 0..t : i > t - w => i \in bits

LEMMA ShiftFills ==
  ASSUME NEW bits, NEW t \in Nat, NEW k \in Nat, TopSet(bits, t, k)
  PROVE  TopSet(OrShift(bits, k), t, 2 * k)
<1>1. bits \subseteq 0..t /\ \A i \in 0..t : i > t - k => i \in bits
  BY Zenon DEF TopSet
<1>2. ASSUME NEW i \in OrShift(bits, k) PROVE i \in 0..t
  <2>1. CASE i \in bits
    BY <1>1, <2>1, Zenon
  <2>2. CASE \E j \in bits : j >= k /\ i = j - k
    <3>1. PICK j \in bits : j >= k /\ i = j - k
      BY <2>2, Zenon
    <3>2. j \in 0..t
      BY <1>1, Zenon
    <3> QED BY <3>1, <3>2
  <2> QED BY <1>2, <2>1, <2>2, Zenon DEF OrShift
<1>3. ASSUME NEW i \in 0..t, i > t - 2 * k PROVE i \in OrShift(bits, k)
  <2>1. CASE i > t - k
    BY <1>1, <2>1, Zenon DEF OrShift
  <2>2. CASE ~(i > t - k)
    <3>1. i + k \in 0..t /\ i + k > t - k /\ i + k >= k /\ (i + k) - k = i
      BY <1>3, <2>2
    <3> QED BY <1>1, <3>1, Zenon DEF OrShift
  <2> QED BY <2>1, <2>2, Zenon
<1> QED BY <1>2, <1>3, Zenon DEF TopSet

AllSet(bits, t) == OrShifts(bits) = 0..t

(* Five shifts fill every bit below one that is not above bit 31. *)
LEMMA ShiftsFill ==
  ASSUME NEW bits, NEW t \in 0..31, t \in bits, bits \subseteq 0..t
  PROVE  AllSet(bits, t)
<1>0. t \in Nat
  OBVIOUS
<1>1. TopSet(bits, t, 1)
  BY DEF TopSet
<1> DEFINE a == OrShift(bits, 1)
           b == OrShift(a, 2)
           c == OrShift(b, 4)
           d == OrShift(c, 8)
           e == OrShift(d, 16)
<1>e. OrShifts(bits) = e
  BY Zenon DEF OrShifts
<1> HIDE DEF a, b, c, d, e
<1>2. TopSet(a, t, 2)
  <2>1. 1 \in Nat /\ 2 * 1 = 2
    OBVIOUS
  <2> QED BY <1>0, <1>1, <2>1, ShiftFills, Zenon DEF a
<1>3. TopSet(b, t, 4)
  <2>1. 2 \in Nat /\ 2 * 2 = 4
    OBVIOUS
  <2> QED BY <1>0, <1>2, <2>1, ShiftFills, Zenon DEF b
<1>4. TopSet(c, t, 8)
  <2>1. 4 \in Nat /\ 2 * 4 = 8
    OBVIOUS
  <2> QED BY <1>0, <1>3, <2>1, ShiftFills, Zenon DEF c
<1>5. TopSet(d, t, 16)
  <2>1. 8 \in Nat /\ 2 * 8 = 16
    OBVIOUS
  <2> QED BY <1>0, <1>4, <2>1, ShiftFills, Zenon DEF d
<1>6. TopSet(e, t, 32)
  <2>1. 16 \in Nat /\ 2 * 16 = 32
    OBVIOUS
  <2> QED BY <1>0, <1>5, <2>1, ShiftFills, Zenon DEF e
<1>7. \A i \in 0..t : i > t - 32
  OBVIOUS
<1>8. e \subseteq 0..t /\ 0..t \subseteq e
  BY <1>6, <1>7, Zenon DEF TopSet
<1> QED BY <1>e, <1>8, Zenon DEF AllSet

LEMMA ModSmall ==
  ASSUME NEW a \in Nat, NEW b \in Nat, a < b
  PROVE  a % b = a
OBVIOUS

LEMMA PowType ==
  ASSUME NEW i \in 0..SizeBits
  PROVE  Pow2[i] \in Nat /\ Pow2[i] # 0
BY PowIs, Zenon

(* A number lies between two powers of two. *)
LEMMA TopBit ==
  ASSUME NEW K \in 0..SizeBits, NEW m \in Nat \ {0}, m < Pow2[K]
  PROVE  \E t \in Nat : t + 1 <= K /\ Pow2[t] <= m /\ m < Pow2[t + 1]
<1>0. SizeBits \in Nat
  BY SizeAssumption, Zenon
<1> DEFINE Above == {j \in 0..K : m < Pow2[j]}
<1>1. Above \in SUBSET Nat /\ K \in Above
  BY <1>0
<1>2. PICK j \in Above : \A x \in Above : j <= x
  <2> HIDE DEF Above
  <2> QED BY <1>1, HasLeast, Zenon
<1>3. j \in 0..K /\ m < Pow2[j]
  BY Zenon
<1>4. j # 0
  <2>1. ~(m < 1)
    OBVIOUS
  <2> QED BY <1>3, <2>1, PowIs, Zenon
<1>5. j - 1 \in 0..K /\ ~(j <= j - 1) /\ j - 1 \in Nat /\ (j - 1) + 1 = j /\ j <= K /\ j - 1 \in 0..SizeBits
  BY <1>0, <1>3, <1>4
<1>6. ~(m < Pow2[j - 1])
  BY <1>2, <1>5, Zenon
<1>7. PICK q \in Nat : q = Pow2[j - 1]
  BY <1>5, PowType, Zenon
<1>8. q <= m
  <2>1. ~(m < q)
    BY <1>6, <1>7, Zenon
  <2> QED BY <2>1
<1> QED BY <1>3, <1>5, <1>7, <1>8, Zenon

(* Its highest bit. *)
LEMMA BitsTop ==
  ASSUME NEW t \in Nat, t + 1 <= SizeBits, NEW m \in Nat, Pow2[t] <= m, m < Pow2[t + 1]
  PROVE  t \in BitsOf(m) /\ BitsOf(m) \subseteq 0..t
<1>0. /\ SizeBits \in Nat /\ t \in 0..SizeBits /\ t + 1 \in 1..SizeBits /\ (t + 1) - 1 = t
      /\ t \in 0..(SizeBits - 1)
  BY SizeAssumption
<1>1. PICK p \in Nat : p = Pow2[t] /\ p # 0
  BY <1>0, PowType, Zenon
<1>2. Pow2[t + 1] = 2 * p
  BY <1>0, <1>1, PowIs, Zenon
<1>3. p <= m /\ m < 2 * p
  BY <1>1, <1>2, Zenon
<1>4. m \div p = 1
  <2>1. 1 \in Nat /\ Between(m, p, 1)
    BY <1>3 DEF Between
  <2>2. Quotient(m, p, 1)
    BY <1>1, <2>1, DivIs, Zenon
  <2> QED BY <2>2, Zenon DEF Quotient
<1>5. t \in BitsOf(m)
  <2>1. 1 % 2 = 1
    OBVIOUS
  <2> QED BY <1>0, <1>1, <1>4, <2>1, Zenon DEF BitsOf
<1>6. ASSUME NEW i \in BitsOf(m) PROVE i \in 0..t
  <2>1. i \in 0..(SizeBits - 1) /\ (m \div Pow2[i]) % 2 = 1
    BY Zenon DEF BitsOf
  <2>2. SUFFICES ASSUME t < i PROVE FALSE
    BY <2>1
  <2>3. i \in 0..SizeBits
    BY <1>0, <2>1
  <2>4. PICK q \in Nat : q = Pow2[i] /\ q # 0
    BY <2>3, PowType, Zenon
  <2>5. 2 * p <= q
    BY <1>0, <1>1, <2>2, <2>3, <2>4, PowGrows, Zenon
  <2>6. 0 \in Nat /\ Between(m, q, 0)
    BY <1>3, <2>5 DEF Between
  <2>7. m \div q = 0
    <3>1. Quotient(m, q, 0)
      BY <2>4, <2>6, DivIs, Zenon
    <3> QED BY <3>1, Zenon DEF Quotient
  <2>8. 0 % 2 # 1
    OBVIOUS
  <2> QED BY <2>1, <2>4, <2>7, <2>8, Zenon
<1> QED BY <1>5, <1>6, Zenon

(* No number of bits is zero. *)
LEMMA NoBits == BitsOf(0) = {} /\ OrShifts({}) = {}
<1>0. SizeBits \in Nat
  BY SizeAssumption, Zenon
<1>1. ASSUME NEW i \in 0..(SizeBits - 1) PROVE (0 \div Pow2[i]) % 2 # 1
  <2>1. i \in 0..SizeBits
    BY <1>0
  <2>2. PICK q \in Nat : q = Pow2[i] /\ q # 0
    BY <2>1, PowType, Zenon
  <2>3. 0 \in Nat /\ Between(0, q, 0)
    BY <2>2 DEF Between
  <2>4. 0 \div q = 0
    <3>1. Quotient(0, q, 0)
      BY <2>2, <2>3, DivIs, Zenon
    <3> QED BY <3>1, Zenon DEF Quotient
  <2>5. 0 % 2 # 1
    OBVIOUS
  <2> QED BY <2>2, <2>4, <2>5, Zenon
<1>2. BitsOf(0) = {}
  BY <1>1, Zenon DEF BitsOf
<1>3. \A k : OrShift({}, k) = {}
  BY Zenon DEF OrShift
<1>4. OrShifts({}) = {}
  BY <1>3, Zenon DEF OrShifts
<1> QED BY <1>2, <1>4, Zenon

(* page_size_align gives the least power of two that is not below the      *)
(* size, up to 2^32.                                                       *)
LEMMA AlignIs ==
  ASSUME NEW K \in 0..32, K < SizeBits, NEW n \in 1..Pow2[K]
  PROVE  \E j \in 0..K : /\ n <= Pow2[j] /\ (j > 0 => Pow2[j - 1] < n)
                         /\ page_size_align(n) = Pow2[j]
<1>0. SizeBits \in Nat /\ K \in 0..SizeBits /\ SizeBits \in 0..SizeBits /\ 0 \in 0..K /\ 0 \in 0..SizeBits
  BY SizeAssumption
<1>1. PICK P \in Nat : P = Pow2[SizeBits] /\ P # 0
  BY <1>0, PowType, Zenon
<1>2. PICK R \in Nat : R = Pow2[K] /\ R # 0
  BY <1>0, PowType, Zenon
<1>3. 2 * R <= P
  BY <1>0, <1>1, <1>2, PowGrows, Zenon
<1>4. n \in 1..R
  BY <1>2, Zenon
<1>5. n - 1 \in Nat /\ n - 1 < P /\ n - 1 < R /\ n \in Nat
  BY <1>2, <1>3, <1>4
<1>6. (n - 1) % Pow2[SizeBits] = n - 1
  BY <1>1, <1>5, ModSmall, Zenon
<1>7. page_size_align(n) = (ValueOf(OrShifts(BitsOf(n - 1))) + 1) % P
  BY <1>1, <1>6, Zenon DEF page_size_align
<1>8. CASE n = 1
  <2>1. n - 1 = 0 /\ 0..(0 - 1) = {} /\ 1 - 1 = 0 /\ 0 + 1 = 1 /\ 1 \in Nat /\ 1 < P /\ 1 <= 1 /\ ~(0 > 0)
    BY <1>2, <1>3, <1>8
  <2>2. ValueOf(0..(0 - 1)) = Pow2[0] - 1
    BY <1>0, FullValue, Zenon
  <2>3. ValueOf({}) = 0
    BY <2>1, <2>2, PowIs, Zenon
  <2>4. 1 % P = 1
    BY <2>1, ModSmall, Zenon
  <2>5. page_size_align(n) = 1
    BY <1>7, <2>1, <2>3, <2>4, NoBits, Zenon
  <2> QED BY <1>0, <1>8, <2>1, <2>5, PowIs, Zenon
<1>9. CASE n # 1
  <2>1. n - 1 \in Nat \ {0} /\ n - 1 < Pow2[K]
    <3>1. n - 1 \in Nat \ {0}
      BY <1>5, <1>9
    <3> QED BY <1>2, <1>5, <3>1, Zenon
  <2>2. PICK t \in Nat : t + 1 <= K /\ Pow2[t] <= n - 1 /\ n - 1 < Pow2[t + 1]
    BY <1>0, <2>1, TopBit, Zenon
  <2>3. /\ t + 1 <= SizeBits /\ t \in 0..31 /\ t + 1 \in 0..SizeBits /\ t + 1 < SizeBits /\ (t + 1) - 1 = t
        /\ t + 1 \in 0..K /\ t \in 0..SizeBits
    BY <1>0, <2>2
  <2>4. t \in BitsOf(n - 1) /\ BitsOf(n - 1) \subseteq 0..t
    BY <1>5, <2>2, <2>3, BitsTop, Zenon
  <2>5. OrShifts(BitsOf(n - 1)) = 0..t
    <3>1. AllSet(BitsOf(n - 1), t)
      BY <2>3, <2>4, ShiftsFill, Zenon
    <3> QED BY <3>1, Zenon DEF AllSet
  <2>6. PICK q \in Nat : q = Pow2[t + 1] /\ q # 0
    BY <2>3, PowType, Zenon
  <2>7. PICK r \in Nat : r = Pow2[t]
    BY <2>3, PowType, Zenon
  <2>8. ValueOf(0..t) = q - 1
    BY <2>3, <2>6, FullValue, Zenon
  <2>9. 2 * q <= P
    BY <1>0, <1>1, <2>3, <2>6, PowGrows, Zenon
  <2>10. (q - 1) + 1 = q /\ q < P
    BY <2>6, <2>9
  <2>11. q % P = q
    BY <2>10, ModSmall, Zenon
  <2>12. page_size_align(n) = q
    BY <1>7, <2>5, <2>8, <2>10, <2>11, Zenon
  <2>13. r <= n - 1 /\ n - 1 < q
    BY <2>2, <2>6, <2>7, Zenon
  <2>14. r < n /\ n <= q
    BY <1>5, <2>13
  <2> QED BY <2>3, <2>6, <2>7, <2>12, <2>14, Zenon
<1> QED BY <1>8, <1>9, Zenon

(* page_size_align(0): size - 1 wraps to the largest size_t, and the final *)
(* increment wraps back.                                                   *)
LEMMA AlignZero == page_size_align(0) = 0
<1>0. SizeBits \in Nat \ {0} /\ SizeBits \in 0..SizeBits
  BY SizeAssumption
<1>1. PICK P \in Nat : P = Pow2[SizeBits] /\ P # 0
  BY <1>0, PowType, Zenon
<1> DEFINE all == 0..(SizeBits - 1)
<1>2. (0 - 1) % P = P - 1 /\ P - 1 \in Nat /\ (P - 1) + 1 = P /\ P % P = 0
  BY <1>1
<1>3. ASSUME NEW i \in all PROVE ((P - 1) \div Pow2[i]) % 2 = 1
  <2>1. /\ i \in Nat /\ i \in 0..SizeBits /\ SizeBits - i \in Nat /\ i + (SizeBits - i) <= SizeBits
        /\ i + (SizeBits - i) = SizeBits /\ SizeBits - i \in 1..SizeBits /\ (SizeBits - i) - 1 \in 0..SizeBits
    BY <1>0
  <2>2. PICK a \in Nat : a = Pow2[i] /\ a # 0
    BY <2>1, PowType, Zenon
  <2>3. PICK c \in Nat : c = Pow2[(SizeBits - i) - 1] /\ c # 0
    BY <2>1, PowType, Zenon
  <2>4. Pow2[SizeBits - i] = 2 * c
    BY <2>1, <2>3, PowIs, Zenon
  <2>5. Pow2[i + (SizeBits - i)] = Pow2[i] * Pow2[SizeBits - i]
    BY <2>1, PowAdds, Zenon
  <2>6. P = a * (2 * c)
    BY <1>1, <2>1, <2>2, <2>4, <2>5, Zenon
  <2>7. 2 * c - 1 \in Nat /\ Between(P - 1, a, 2 * c - 1)
    <3>1. (2 * c - 1) * a = a * (2 * c) - a
      OBVIOUS
    <3>2. 2 * c - 1 \in Nat
      BY <2>3
    <3>3. PICK z \in Nat : z = (2 * c - 1) * a
      BY <3>2
    <3>4. z = P - a
      BY <2>6, <3>1, <3>3, Zenon
    <3>5. z <= P - 1 /\ P - 1 < z + a
      BY <2>2, <3>4
    <3> QED BY <3>2, <3>3, <3>5, Zenon DEF Between
  <2>8. Quotient(P - 1, a, 2 * c - 1)
    BY <1>2, <2>2, <2>7, DivIs, Zenon
  <2>9. (2 * c - 1) % 2 = 1
    BY <2>3
  <2> QED BY <2>2, <2>8, <2>9, Zenon DEF Quotient
<1>4. BitsOf(P - 1) = all
  BY <1>3, Zenon DEF BitsOf
<1>5. ASSUME NEW k \in Nat PROVE OrShift(all, k) = all
  <2>1. \A j \in all : j >= k => j - k \in all
    BY <1>0
  <2> HIDE DEF all
  <2> QED BY <2>1, Zenon DEF OrShift
<1>6. 1 \in Nat /\ 2 \in Nat /\ 4 \in Nat /\ 8 \in Nat /\ 16 \in Nat
  BY Zenon
<1>7. OrShifts(all) = all
  <2> HIDE DEF all
  <2> QED BY <1>5, <1>6, Zenon DEF OrShifts
<1>8. ValueOf(all) = P - 1
  BY <1>0, <1>1, FullValue, Zenon
<1> HIDE DEF all
<1>9. page_size_align(0) = (ValueOf(OrShifts(BitsOf(P - 1))) + 1) % P
  BY <1>1, <1>2, Zenon DEF page_size_align
<1> QED BY <1>2, <1>4, <1>7, <1>8, <1>9, Zenon

IsMin(S, x) == Min(S) = x

LEMMA MinIs ==
  ASSUME NEW S \in SUBSET Nat, NEW x \in S, \A y \in S : x <= y
  PROVE  IsMin(S, x)
<1>1. PICK z : z = Min(S)
  BY Zenon
<1>2. z \in S /\ \A y \in S : z <= y
  BY <1>1, Zenon DEF Min
<1>3. z \in Nat /\ x \in Nat /\ z <= x /\ x <= z
  BY <1>2, Zenon
<1>4. z = x
  BY <1>3
<1> QED BY <1>1, <1>4, Zenon DEF IsMin

Halvings(size) == {h \in 0..(MaxOrder + 1) : Pow2[MaxOrder] \div Pow2[h] <= size}

LEMMA OrderAt ==
  ASSUME NEW size, NEW x \in Halvings(size), \A y \in Halvings(size) : x <= y
  PROVE  page_size_order(size) = (MaxOrder - x) % 256
<1>1. Halvings(size) \in SUBSET Nat
  BY SizeAssumption DEF Halvings
<1>2. IsMin(Halvings(size), x)
  BY <1>1, MinIs, Zenon
<1> QED BY <1>2, Zenon DEF IsMin, Halvings, page_size_order

(* Halving the largest block. *)
LEMMA HalvedIs ==
  ASSUME NEW h \in 0..MaxOrder
  PROVE  Quotient(Pow2[MaxOrder], Pow2[h], Pow2[MaxOrder - h])
<1>1. /\ h \in Nat /\ MaxOrder - h \in Nat /\ h + (MaxOrder - h) <= SizeBits /\ h + (MaxOrder - h) = MaxOrder
      /\ h \in 0..SizeBits /\ MaxOrder \in 0..SizeBits /\ MaxOrder - h \in 0..SizeBits
  BY SizeAssumption
<1>2. PICK a \in Nat : a = Pow2[h] /\ a # 0
  BY <1>1, PowType, Zenon
<1>3. PICK b \in Nat : b = Pow2[MaxOrder - h]
  BY <1>1, PowType, Zenon
<1>4. PICK m \in Nat : m = Pow2[MaxOrder]
  BY <1>1, PowType, Zenon
<1>5. m = a * b
  <2>1. Pow2[h + (MaxOrder - h)] = Pow2[h] * Pow2[MaxOrder - h]
    BY <1>1, PowAdds, Zenon
  <2> QED BY <1>1, <1>2, <1>3, <1>4, <2>1, Zenon
<1>6. Between(m, a, b)
  BY <1>2, <1>5 DEF Between
<1> QED BY <1>2, <1>3, <1>4, <1>6, DivIs, Zenon

(* The order of a power of two up to the largest block is its exponent. *)
LEMMA OrderIs ==
  ASSUME NEW o \in 0..MaxOrder
  PROVE  page_size_order(Pow2[o]) = o
<1>1. /\ MaxOrder - o \in 0..MaxOrder /\ MaxOrder - o \in 0..(MaxOrder + 1) /\ MaxOrder - (MaxOrder - o) = o
      /\ o % 256 = o /\ o \in 0..SizeBits /\ MaxOrder \in Nat
  BY SizeAssumption
<1>2. PICK a \in Nat : a = Pow2[o] /\ a # 0
  BY <1>1, PowType, Zenon
<1>3. MaxOrder - o \in Halvings(Pow2[o])
  <2>1. Pow2[MaxOrder] \div Pow2[MaxOrder - o] = Pow2[o]
    BY <1>1, HalvedIs, Zenon DEF Quotient
  <2>2. a <= a
    OBVIOUS
  <2> QED BY <1>1, <1>2, <2>1, <2>2, Zenon DEF Halvings
<1>4. ASSUME NEW h \in Halvings(Pow2[o]) PROVE MaxOrder - o <= h
  <2>1. h \in 0..(MaxOrder + 1) /\ Pow2[MaxOrder] \div Pow2[h] <= Pow2[o]
    BY Zenon DEF Halvings
  <2>2. SUFFICES ASSUME h < MaxOrder - o PROVE FALSE
    BY <1>1, <2>1
  <2>3. h \in 0..MaxOrder /\ MaxOrder - h \in 0..SizeBits /\ o < MaxOrder - h
    BY <1>1, <2>1, <2>2, SizeAssumption
  <2>4. PICK b \in Nat : b = Pow2[MaxOrder - h]
    BY <2>3, PowType, Zenon
  <2>5. b <= a
    BY <1>2, <2>1, <2>3, <2>4, HalvedIs, Zenon DEF Quotient
  <2>6. 2 * a <= b
    BY <1>1, <1>2, <2>3, <2>4, PowGrows, Zenon
  <2> QED BY <1>2, <2>5, <2>6
<1>5. page_size_order(Pow2[o]) = (MaxOrder - (MaxOrder - o)) % 256
  BY <1>3, <1>4, OrderAt, Zenon
<1> QED BY <1>1, <1>5, Zenon

(* The order of nothing is below zero, 255 in a uint8_t. *)
LEMMA OrderZero == page_size_order(0) = 255
<1>1. /\ MaxOrder + 1 \in 0..(MaxOrder + 1)
      /\ MaxOrder \in 0..SizeBits /\ MaxOrder + 1 \in 0..SizeBits /\ MaxOrder < MaxOrder + 1
  BY SizeAssumption
<1>2. MaxOrder + 1 \in Halvings(0)
  <2>1. PICK a \in Nat : a = Pow2[MaxOrder] /\ a # 0
    BY <1>1, PowType, Zenon
  <2>2. PICK b \in Nat : b = Pow2[MaxOrder + 1] /\ b # 0
    BY <1>1, PowType, Zenon
  <2>3. 2 * a <= b
    BY <1>1, <2>1, <2>2, PowGrows, Zenon
  <2>4. 0 \in Nat /\ Between(a, b, 0) /\ 0 <= 0
    BY <2>1, <2>3 DEF Between
  <2>5. Quotient(a, b, 0)
    BY <2>2, <2>4, DivIs, Zenon
  <2> QED BY <1>1, <2>1, <2>2, <2>4, <2>5, Zenon DEF Quotient, Halvings
<1>3. ASSUME NEW h \in Halvings(0) PROVE MaxOrder + 1 <= h
  <2>1. h \in 0..(MaxOrder + 1) /\ Pow2[MaxOrder] \div Pow2[h] <= 0
    BY Zenon DEF Halvings
  <2>2. SUFFICES ASSUME h \in 0..MaxOrder PROVE FALSE
    BY <2>1, SizeAssumption
  <2>3. MaxOrder - h \in 0..SizeBits
    BY <2>2, SizeAssumption
  <2>4. PICK b \in Nat : b = Pow2[MaxOrder - h] /\ b # 0
    BY <2>3, PowType, Zenon
  <2>5. b <= 0
    BY <2>1, <2>2, <2>4, HalvedIs, Zenon DEF Quotient
  <2> QED BY <2>4, <2>5
<1>4. page_size_order(0) = (MaxOrder - (MaxOrder + 1)) % 256
  BY <1>2, <1>3, OrderAt, Zenon
<1>5. PICK z \in Int : z = MaxOrder - (MaxOrder + 1) /\ z + 1 = 0
  BY <1>1
<1>6. z % 256 = 255
  BY <1>5
<1> QED BY <1>4, <1>5, <1>6, Zenon

(* The exponent of a page's size, and how far the sizes in bytes go. *)
LEMMA PageIs ==
  \E k \in Nat : /\ k + MaxOrder \in 0..32 /\ k + MaxOrder < SizeBits /\ PageBytes = Pow2[k]
                 /\ k \in 0..SizeBits /\ MaxOrder \in Nat /\ MaxOrder \in 0..SizeBits
                 /\ MaxOrder \in 0..32 /\ MaxOrder < SizeBits
                 /\ PageBytes * Pow2[MaxOrder] = Pow2[k + MaxOrder]
<1>1. PICK k \in 0..32 : k + MaxOrder <= 32 /\ k + MaxOrder < SizeBits /\ PageBytes = Pow2[k]
  BY SizeAssumption, Zenon
<1>2. /\ k \in Nat /\ k + MaxOrder \in 0..32 /\ k + MaxOrder <= SizeBits /\ k \in 0..SizeBits /\ MaxOrder \in Nat
      /\ MaxOrder \in 0..SizeBits /\ MaxOrder \in 0..32 /\ MaxOrder < SizeBits
  BY <1>1, SizeAssumption
<1>3. Pow2[k + MaxOrder] = Pow2[k] * Pow2[MaxOrder]
  BY <1>2, PowAdds, Zenon
<1> QED BY <1>1, <1>2, <1>3, Zenon

PagesFit(n) ==
  LET o == page_size_order(page_size_align(n)) IN
  o \in 0..MaxOrder /\ Pow2[o] = page_size_align(n) /\ n <= Pow2[o] /\ Pow2[o] < 2 * n

(* Every number of pages up to the largest block has its smallest block. *)
LEMMA PagesHaveBlocks ==
  ASSUME NEW n \in 1..Pow2[MaxOrder]
  PROVE  PagesFit(n)
<1>0. MaxOrder \in 0..32 /\ MaxOrder < SizeBits /\ MaxOrder \in Nat /\ SizeBits \in Nat /\ MaxOrder \in 0..SizeBits
  BY SizeAssumption
<1>1. PICK j \in 0..MaxOrder : /\ n <= Pow2[j] /\ (j > 0 => Pow2[j - 1] < n)
                               /\ page_size_align(n) = Pow2[j]
  BY <1>0, AlignIs, Zenon
<1>2. page_size_order(page_size_align(n)) = j
  BY <1>1, OrderIs, Zenon
<1>3. Pow2[j] < 2 * n
  <2>0. n \in Nat /\ n >= 1
    <3>1. Pow2[MaxOrder] \in Nat
      BY <1>0, PowType, Zenon
    <3> QED BY <3>1
  <2>1. CASE j = 0
    <3>1. 1 < 2 * n
      BY <2>0
    <3> QED BY <2>1, <3>1, PowIs, Zenon
  <2>2. CASE j # 0
    <3>1. j \in 1..SizeBits /\ j - 1 \in 0..SizeBits /\ j > 0
      BY <1>0, <2>2
    <3>2. PICK q \in Nat : q = Pow2[j - 1]
      BY <3>1, PowType, Zenon
    <3>3. q < n
      BY <1>1, <3>1, <3>2, Zenon
    <3>4. 2 * q < 2 * n
      BY <2>0, <3>3
    <3> QED BY <3>1, <3>2, <3>4, PowIs, Zenon
  <2> QED BY <2>1, <2>2, Zenon
<1> QED BY <1>1, <1>2, <1>3, Zenon DEF PagesFit

BytesFit(n) ==
  LET o == PM_Allocate(n) IN
  ~(n <= PageBytes \div 2) =>
    o \in 0..MaxOrder /\ n <= PageBytes * Pow2[o] /\ (o > 0 => PageBytes * Pow2[o] < 2 * n)

(* Every number of bytes above half a page has its smallest block. *)
LEMMA BytesHaveBlocks ==
  ASSUME NEW n \in 1..(PageBytes * Pow2[MaxOrder])
  PROVE  BytesFit(n)
<1>0. PICK k \in Nat : /\ k + MaxOrder \in 0..32 /\ k + MaxOrder < SizeBits /\ PageBytes = Pow2[k]
                       /\ k \in 0..SizeBits /\ MaxOrder \in Nat /\ MaxOrder \in 0..SizeBits
                       /\ MaxOrder \in 0..32 /\ MaxOrder < SizeBits
                       /\ PageBytes * Pow2[MaxOrder] = Pow2[k + MaxOrder]
  BY PageIs, Zenon
<1>a. SizeBits \in Nat
  BY SizeAssumption, Zenon
<1>b. n \in 1..Pow2[k + MaxOrder]
  BY <1>0, Zenon
<1>1. PICK j \in 0..(k + MaxOrder) : /\ n <= Pow2[j] /\ (j > 0 => Pow2[j - 1] < n)
                                     /\ page_size_align(n) = Pow2[j]
  BY <1>0, <1>b, AlignIs, Zenon
<1>2. j \in 0..SizeBits /\ j \in Nat
  BY <1>0, <1>1, <1>a
<1>3. PICK P \in Nat : P = Pow2[k] /\ P # 0
  BY <1>0, PowType, Zenon
<1>4. PICK J \in Nat : J = Pow2[j] /\ J # 0
  BY <1>2, PowType, Zenon
<1>5. n \in Nat /\ n >= 1 /\ n <= J
  <2>1. k + MaxOrder \in 0..SizeBits
    BY <1>0, <1>a
  <2>2. Pow2[k + MaxOrder] \in Nat
    BY <2>1, PowType, Zenon
  <2>3. n \in Nat /\ n >= 1
    BY <1>b, <2>2
  <2> QED BY <1>1, <1>4, <2>3, Zenon
<1>6. PM_Allocate(n) = page_size_order(J \div P) /\ PageBytes = P
  BY <1>0, <1>1, <1>3, <1>4, Zenon DEF PM_Allocate
<1>7. CASE j < k
  <2>1. 2 * J <= P
    BY <1>0, <1>2, <1>3, <1>4, <1>7, PowGrows, Zenon
  <2>2. n <= P \div 2
    BY <1>5, <2>1
  <2>7. n <= PageBytes \div 2
    BY <1>6, <2>2, Zenon
  <2> QED BY <2>7, Zenon DEF BytesFit
<1>8. CASE ~(j < k)
  <2>1. /\ j - k \in Nat /\ j - k \in 0..MaxOrder /\ k + (j - k) = j /\ k + (j - k) <= SizeBits
        /\ j - k \in 0..SizeBits
    BY <1>0, <1>1, <1>2, <1>8, <1>a
  <2>2. PICK o \in Nat : o = j - k
    BY <2>1, Zenon
  <2>3. PICK B \in Nat : B = Pow2[o]
    BY <2>1, <2>2, PowType, Zenon
  <2>4. J = P * B
    <3>1. Pow2[k + (j - k)] = Pow2[k] * Pow2[j - k]
      BY <2>1, PowAdds, Zenon
    <3> QED BY <1>3, <1>4, <2>1, <2>2, <2>3, <3>1, Zenon
  <2>5. J \div P = B
    <3>1. Between(J, P, B)
      BY <1>3, <2>4 DEF Between
    <3>2. Quotient(J, P, B)
      BY <1>3, <3>1, DivIs, Zenon
    <3> QED BY <3>2, Zenon DEF Quotient
  <2>6. PM_Allocate(n) = o
    BY <1>6, <2>1, <2>2, <2>3, <2>5, OrderIs, Zenon
  <2>7. j > 0 => J < 2 * n
    <3>1. SUFFICES ASSUME j > 0 PROVE J < 2 * n
      BY Zenon
    <3>2. j \in 1..SizeBits /\ j - 1 \in 0..SizeBits
      BY <1>2, <3>1, <1>a
    <3>3. PICK q \in Nat : q = Pow2[j - 1]
      BY <3>2, PowType, Zenon
    <3>4. J = 2 * q /\ q < n
      BY <1>1, <1>4, <3>1, <3>2, <3>3, PowIs, Zenon
    <3> QED BY <1>5, <3>4
  <2>9. o > 0 => j > 0
    BY <1>0, <1>2, <2>2
  <2>10. PageBytes * Pow2[o] = J
    BY <1>6, <2>3, <2>4, Zenon
  <2>11. o \in 0..MaxOrder
    BY <2>1, <2>2, Zenon
  <2>12. n <= PageBytes * Pow2[o] /\ (o > 0 => PageBytes * Pow2[o] < 2 * n)
    BY <1>5, <2>7, <2>9, <2>10, Zenon
  <2>13. /\ PM_Allocate(n) \in 0..MaxOrder /\ n <= PageBytes * Pow2[PM_Allocate(n)]
         /\ PM_Allocate(n) > 0 => PageBytes * Pow2[PM_Allocate(n)] < 2 * n
    BY <2>6, <2>11, <2>12, Zenon
  <2> QED BY <2>13, Zenon DEF BytesFit
<1> QED BY <1>7, <1>8, Zenon

LEMMA AllSizesFit == SizesFit
<1>1. \A n \in 1..Pow2[MaxOrder] : PagesFit(n)
  BY PagesHaveBlocks, Zenon
<1>2. \A n \in 1..(PageBytes * Pow2[MaxOrder]) : BytesFit(n)
  BY BytesHaveBlocks, Zenon
<1>3. ASSUME NEW n \in (PageBytes \div 2 + 1)..(PageBytes * Pow2[MaxOrder])
      PROVE  n \in 1..(PageBytes * Pow2[MaxOrder]) /\ ~(n <= PageBytes \div 2)
  <2>1. PICK k \in 0..SizeBits : PageBytes = Pow2[k] /\ MaxOrder \in 0..SizeBits
    BY PageIs, Zenon
  <2>2. PICK q \in Nat : q = PageBytes
    BY <2>1, PowType, Zenon
  <2>3. PICK r \in Nat : r = Pow2[MaxOrder]
    BY <2>1, PowType, Zenon
  <2>4. n \in (q \div 2 + 1)..(q * r)
    BY <2>2, <2>3, Zenon
  <2>5. n \in 1..(q * r) /\ ~(n <= q \div 2)
    BY <2>4
  <2> QED BY <2>2, <2>3, <2>5, Zenon
<1> QED BY <1>1, <1>2, <1>3, Zenon DEF SizesFit, PagesFit, BytesFit

(* A block of frames for a rounded amount has as many frames as that, and  *)
(* at least the amount; there is none for the amount 0.                    *)
LEMMA BlockHolds ==
  ASSUME NEW amount \in Amounts \cup {1}, NEW f \in FrameBlock(page_size_align(amount))
  PROVE  LET n == page_size_align(amount)
             b == Pow2[page_size_order(n)]
         IN  f \in freeFrames /\ Row(f, b) \subseteq freeFrames /\ b \in Nat /\ n \in 1..b /\ amount \in 1..b
<1> DEFINE n == page_size_align(amount)
           o == page_size_order(n)
           b == Pow2[o]
<1>1. f \in freeFrames /\ o <= MaxOrder /\ Row(f, b) \subseteq freeFrames
  BY Zenon DEF FrameBlock
<1>2. amount # 0
  <2>1. amount = 0 => o = page_size_order(0)
    BY AlignZero, Zenon
  <2> HIDE DEF o
  <2>2. MaxOrder \in Nat /\ MaxOrder <= 32
    BY SizeAssumption
  <2>3. amount = 0 => o = 255
    BY <2>1, OrderZero, Zenon
  <2> QED BY <1>1, <2>2, <2>3
<1>3. MaxOrder \in 0..SizeBits
  BY SizeAssumption
<1>4. Pow2[MaxOrder] \in Nat
  BY <1>3, PowType, Zenon
<1>5. amount \in 1..Pow2[MaxOrder]
  <2>1. Pow2[MaxOrder] # 0
    BY <1>3, PowType, Zenon
  <2> QED BY <1>2, <1>4, <2>1, AmountsAssumption
<1>6. PagesFit(amount)
  BY <1>5, PagesHaveBlocks, Zenon
<1>7. o \in 0..MaxOrder /\ b = n /\ amount <= b
  BY <1>6, Zenon DEF PagesFit
<1>8. o \in 0..SizeBits
  <2> HIDE DEF o
  <2> QED BY <1>7, SizeAssumption
<1>9. b \in Nat /\ b # 0
  <2> HIDE DEF o
  <2> QED BY <1>8, PowType, Zenon
<1> HIDE DEF n, o, b
<1>10. n \in 1..b /\ amount \in 1..b
  BY <1>5, <1>4, <1>7, <1>9
<1> QED BY <1>1, <1>9, <1>10, Zenon DEF n, o, b

(* The block for one page is one frame. *)
LEMMA OneFrame == page_size_align(1) = 1 /\ Pow2[page_size_order(1)] = 1
<1>1. MaxOrder \in 0..SizeBits
  BY SizeAssumption
<1>2. Pow2[MaxOrder] \in Nat /\ Pow2[MaxOrder] # 0
  BY <1>1, PowType, Zenon
<1>3. 1 \in 1..Pow2[MaxOrder]
  BY <1>2
<1>4. PagesFit(1)
  BY <1>3, PagesHaveBlocks, Zenon
<1>5. PICK a : a = page_size_align(1)
  BY Zenon
<1>6. PICK o \in 0..MaxOrder : o = page_size_order(a) /\ Pow2[o] = a /\ 1 <= Pow2[o] /\ Pow2[o] < 2 * 1
  BY <1>4, <1>5, Zenon DEF PagesFit
<1>7. o \in 0..SizeBits
  BY <1>1, SizeAssumption
<1>8. Pow2[o] \in Nat
  BY <1>7, PowType, Zenon
<1>9. Pow2[o] = 1
  BY <1>6, <1>8
<1> QED BY <1>5, <1>6, <1>9, Zenon

(* The table that MapVirtualAddress is making. *)
Making(i) == outer # None /\ TableOf(outer.call.virt) = i

(* The two ways to a page table.  A static table is in its directory; any  *)
(* other is in a frame of its own, at a page that is mapped to that frame, *)
(* or is being made, its directory entry present with address 0.  No frame *)
(* is two tables, and frame 0 is none.                                     *)
TablesOK ==
  /\ \A i \in Tables : i < StaticTables => dirEntry[i] = Static(i) /\ tablePtr[i] = None /\ ~Making(i)
  /\ \A i \in Tables : i >= StaticTables =>
       IF Making(i) THEN dirEntry[i] = 0 /\ tablePtr[i] = None
       ELSE IF dirEntry[i] = None THEN tablePtr[i] = None
       ELSE /\ dirEntry[i] \in Frames \ (freeFrames \cup {0})
            /\ tablePtr[i] \in StaticPages \ (freePages \cup data)
            /\ asked[tablePtr[i]] = dirEntry[i]
  /\ \A i, j \in Tables : dirEntry[i] # None /\ dirEntry[i] = dirEntry[j] => i = j

(* Pages that are free were never mapped, frames that callers have are not *)
(* free, frame 0 is nobody's, and nothing is mapped behind a table that is *)
(* being made.                                                             *)
FreeOK ==
  /\ 0 \notin freeFrames
  /\ \A v \in freePages : asked[v] = None /\ v \notin data
  /\ \A v \in data : asked[v] \notin freeFrames \cup {0}
  /\ \A v \in Pages : Making(TableOf(v)) => asked[v] = None

(* A frame that no page of a caller leads to, and that is no table. *)
Unused(f) ==
  /\ f \notin freeFrames \cup {0}
  /\ \A i \in Tables : dirEntry[i] # f
  /\ \A w \in data : asked[w] # f

(* A range of boot code. *)
WindowCall(c) ==
  /\ c \in Calls
  /\ Row(c.phys, c.left) \subseteq Frames
  /\ Row(c.virt, c.left) \subseteq Pages \ StaticPages

(* Pages of a caller, or of a table, that are not mapped yet, to frames    *)
(* that are nobody's.                                                      *)
DataCall(c) ==
  /\ c \in Calls
  /\ Row(c.phys, c.left) \subseteq Frames
  /\ Row(c.virt, c.left) \subseteq (IF outer = None THEN data ELSE {outer.table})
  /\ \A v \in Row(c.virt, c.left) : asked[v] = None
  /\ \A f \in Row(c.phys, c.left) : Unused(f)

(* A page for a table: nobody else's. *)
TablePage(t) == t \in StaticPages \ (freePages \cup data) /\ \A i \in Tables : tablePtr[i] # t

(* What MapVirtualAddress has yet to map, and what it waits for: a page    *)
(* for a table that AllocatePages has not given, is mapping, or has        *)
(* mapped to a frame that is nobody's.                                     *)
CallOK ==
  IF outer = None THEN call # None => WindowCall(call) \/ DataCall(call)
  ELSE /\ outer \in Outers
       /\ WindowCall(outer.call)
       /\ IF outer.table = None THEN call = None
          ELSE /\ TablePage(outer.table)
               /\ IF call = None THEN asked[outer.table] \in Frames /\ Unused(asked[outer.table])
                  ELSE DataCall(call) /\ call.left = 1

(* The hardware's walk. *)
WalksAsAsked == \A v \in Pages : asked[v] # None => Translate(v) = asked[v]

(* TypeOK without what it says of call and outer. *)
Types ==
  /\ mem \in [Places -> [0..(Slots - 1) -> Frames \cup {None}]]
  /\ dirEntry \in [Tables -> Places \cup {None}]
  /\ tablePtr \in [Tables -> StaticPages \cup {None}]
  /\ freeFrames \subseteq Frames
  /\ freePages \subseteq StaticPages
  /\ asked \in [Pages -> Frames \cup {None}]
  /\ data \subseteq StaticPages
  /\ m_Pages \in Nat

IInv == Types /\ TablesOK /\ FreeOK /\ CallOK /\ WalksAsAsked /\ DataIsPrivate

(* Table and slot of a page, and of which pages the tables are static. *)
LEMMA PageFacts ==
  ASSUME NEW v \in Pages
  PROVE  /\ v \in Nat
         /\ TableOf(v) \in Tables
         /\ SlotOf(v) \in 0..(Slots - 1)
         /\ v = Slots * TableOf(v) + SlotOf(v)
         /\ v \in StaticPages <=> TableOf(v) < StaticTables
<1> USE MapAssumption
<1> DEFINE t == TableOf(v)
           k == SlotOf(v)
<1>1. v \in Nat /\ v < (StaticTables + OtherTables) * Slots
      BY DEF Pages
<1>2. t \in Nat /\ k \in 0..(Slots - 1) /\ v = Slots * t + k
  <2>1. \A a, d \in Nat : d > 0 =>
          a \div d \in Nat /\ a % d \in 0..(d - 1) /\ a = d * (a \div d) + (a % d)
        OBVIOUS
  <2> QED BY <1>1, <2>1 DEF TableOf, SlotOf
<1> HIDE DEF t, k
<1>3. ASSUME NEW n \in Nat PROVE v < n * Slots <=> t < n
  <2>1. ASSUME t < n PROVE Slots * t + Slots <= n * Slots
    <3>1. t + 1 <= n
          BY <1>2, <2>1
    <3>2. Slots * (t + 1) <= Slots * n
          BY <1>2, <3>1
    <3> QED BY <1>2, <3>2
  <2>2. ASSUME n <= t PROVE n * Slots <= Slots * t
        BY <1>2, <2>2
  <2> QED BY <1>2, <2>1, <2>2
<1>4. t < StaticTables + OtherTables /\ (v < StaticTables * Slots <=> t < StaticTables)
      BY <1>1, <1>3
<1>5. t \in Tables
      BY <1>2, <1>4 DEF Tables
<1>6. v \in StaticPages <=> t < StaticTables
      BY <1>1, <1>4 DEF StaticPages
<1> QED BY <1>1, <1>2, <1>5, <1>6, Zenon DEF t, k

(* No two pages have one slot of one table. *)
LEMMA PageUnique ==
  ASSUME NEW v \in Pages, NEW w \in Pages, TableOf(v) = TableOf(w), SlotOf(v) = SlotOf(w)
  PROVE  v = w
BY PageFacts, Zenon

(* Addresses that VM_AllocatePages gives out are pages. *)
LEMMA StaticIn == StaticPages \subseteq Pages
<1>1. /\ StaticTables * Slots \in Nat /\ OtherTables * Slots \in Nat
      /\ (StaticTables + OtherTables) * Slots = StaticTables * Slots + OtherTables * Slots
      BY MapAssumption
<1> QED BY <1>1 DEF StaticPages, Pages

(* Static tables lie outside the frames, each at a place of its own. *)
LEMMA StaticPlaces ==
  ASSUME NEW i \in Tables, i < StaticTables
  PROVE  Static(i) \in Places /\ Static(i) \notin Frames /\ Static(i) # None
BY MapAssumption DEF Tables, Static, Places, Frames

(* A table that is being made is not found by the kernel. *)
LEMMA NotFound ==
  ASSUME TablesOK, NEW i \in Tables, Making(i)
  PROVE  ~(i < StaticTables) /\ dirEntry[i] = 0 /\ tablePtr[i] = None /\ TablePlace(i) = None
<1>1. ~(i < StaticTables)
      BY Zenon DEF TablesOK
<1>2. i >= StaticTables
      BY <1>1, MapAssumption DEF Tables
<1> QED BY <1>1, <1>2, Zenon DEF TablesOK, TablePlace

(* Otherwise both ways to a table lead to one place. *)
LEMMA OnePlace ==
  ASSUME Types, TablesOK, WalksAsAsked, NEW i \in Tables, ~Making(i)
  PROVE  TablePlace(i) = dirEntry[i]
<1> USE MapAssumption
<1>1. CASE i < StaticTables
      BY <1>1, Zenon DEF TablePlace, TablesOK
<1>2. CASE i >= StaticTables /\ dirEntry[i] = None
      BY <1>2, Zenon DEF TablePlace, TablesOK, Tables
<1>3. CASE i >= StaticTables /\ dirEntry[i] # None
  <2>1. tablePtr[i] \in StaticPages /\ asked[tablePtr[i]] = dirEntry[i]
        BY <1>3, Zenon DEF TablesOK
  <2>2. tablePtr[i] \in Pages /\ tablePtr[i] # None
        BY <2>1, StaticIn DEF StaticPages
  <2>3. Translate(tablePtr[i]) = dirEntry[i]
        BY <1>3, <2>1, <2>2, Zenon DEF WalksAsAsked
  <2>4. ~(i < StaticTables)
        BY <1>3 DEF Tables
  <2> QED BY <2>2, <2>3, <2>4, Zenon DEF TablePlace
<1> QED BY <1>1, <1>2, <1>3 DEF Tables

(* The kernel's own walk finds what the hardware finds. *)
LEMMA WalksAgree == Types /\ TablesOK /\ FreeOK /\ WalksAsAsked => TranslatesAsAsked
<1> SUFFICES ASSUME Types, TablesOK, FreeOK, WalksAsAsked, NEW v \in Pages, asked[v] # None
             PROVE  Translate(v) = asked[v] /\ ConvertVirtToPhys(v) = asked[v]
    BY Zenon DEF TranslatesAsAsked
<1>1. Translate(v) = asked[v]
      BY Zenon DEF WalksAsAsked
<1>2. TableOf(v) \in Tables /\ ~Making(TableOf(v))
      BY PageFacts, Zenon DEF FreeOK
<1>3. TablePlace(TableOf(v)) = dirEntry[TableOf(v)]
      BY <1>2, OnePlace, Zenon
<1> QED BY <1>1, <1>3, Zenon DEF Translate, ConvertVirtToPhys

(* What is left of a row behind its first place. *)
LEMMA RowNext ==
  ASSUME NEW x \in Nat, NEW n \in Nat \ {0}
  PROVE  /\ x \in Row(x, n)
         /\ n # 1 => n - 1 \in Nat \ {0} /\ Row(x + 1, n - 1) \subseteq Row(x, n) \ {x}
BY DEF Row

(* LoadVirtualMemory leaves tables as the invariant says. *)
LEMMA InitHolds == Init => IInv
<1> SUFFICES ASSUME Init PROVE IInv
    BY Zenon
<1> USE MapAssumption
<1>1. \A v \in Pages : v < KernelPages => v \in Frames /\ v \in StaticPages
      BY DEF Pages, Frames, StaticPages
<1>2. PICK e \in Leftover : mem = [x \in Places |-> [s \in 0..(Slots - 1) |->
                IF x \in Frames THEN e
                ELSE IF (x - NFrames) * Slots + s < KernelPages
                THEN (x - NFrames) * Slots + s ELSE None]]
      BY Zenon DEF Init
<1>3. Types
  <2>1. ASSUME NEW x \in Places, NEW s \in 0..(Slots - 1), x \notin Frames,
               (x - NFrames) * Slots + s < KernelPages
        PROVE  (x - NFrames) * Slots + s \in Frames
    <3>1. PICK i \in 0..(StaticTables - 1) : x = NFrames + i
          BY <2>1, Zenon DEF Places, Static
    <3>2. i * Slots \in Nat /\ x - NFrames = i
          BY <3>1
    <3> QED BY <2>1, <3>2 DEF Frames
  <2>2. mem \in [Places -> [0..(Slots - 1) -> Frames \cup {None}]]
        BY <1>2, <2>1, Zenon
  <2>3. dirEntry \in [Tables -> Places \cup {None}]
        BY StaticPlaces, Zenon DEF Init
  <2>4. freeFrames \subseteq Frames /\ freePages \subseteq StaticPages
        BY DEF Init, Frames, StaticPages
  <2>5. asked \in [Pages -> Frames \cup {None}]
        BY <1>1, Zenon DEF Init
  <2> QED BY <2>2, <2>3, <2>4, <2>5, Zenon DEF Init, Types
<1>o. outer = None /\ \A i : ~Making(i)
      BY Zenon DEF Init, Making
<1>4. TablesOK
  <2>1. \A i \in Tables : i >= StaticTables => ~(i < StaticTables)
        BY DEF Tables
  <2>2. \A i, j \in Tables : Static(i) = Static(j) => i = j
        BY DEF Static, Tables
  <2> QED BY <1>o, <2>1, <2>2, Zenon DEF Init, TablesOK
<1>5. FreeOK
  <2>1. \A v \in freePages : v \in Pages /\ ~(v < KernelPages)
        BY StaticIn DEF Init, StaticPages
  <2>2. 0 \notin freeFrames
        BY DEF Init
  <2> QED BY <1>o, <2>1, <2>2, Zenon DEF Init, FreeOK
<1>6. WalksAsAsked
  <2> SUFFICES ASSUME NEW v \in Pages, v < KernelPages PROVE Translate(v) = v
      BY Zenon DEF WalksAsAsked, Init
  <2>1. TableOf(v) \in Tables /\ TableOf(v) < StaticTables /\ SlotOf(v) \in 0..(Slots - 1)
        /\ v = Slots * TableOf(v) + SlotOf(v)
        BY <1>1, PageFacts, Zenon
  <2>2. dirEntry[TableOf(v)] = Static(TableOf(v))
        BY <2>1, Zenon DEF Init
  <2>3. Static(TableOf(v)) \in Places /\ Static(TableOf(v)) \notin Frames /\ Static(TableOf(v)) # None
        BY <2>1, StaticPlaces, Zenon
  <2>4. (Static(TableOf(v)) - NFrames) * Slots + SlotOf(v) = v
    <3>1. Static(TableOf(v)) - NFrames = TableOf(v) /\ TableOf(v) \in Nat
          BY <2>1 DEF Static, Tables
    <3> QED BY <2>1, <3>1
  <2> QED BY <1>2, <2>1, <2>2, <2>3, <2>4, Zenon DEF Translate
<1> QED BY <1>3, <1>4, <1>5, <1>6, Zenon DEF IInv, Init, CallOK, DataIsPrivate

(* None is no frame; frame 0 is one, and no static table. *)
LEMMA NoneIsNoFrame == None \notin Frames /\ None # 0 /\ 0 \in Frames
<1>1. \A x \in Frames : x \in Int
      BY DEF Frames
<1>2. 0 \in Frames
      BY MapAssumption DEF Frames
<1> QED BY <1>1, <1>2, MapAssumption, Zenon

(* What is left of a call after one page. *)
LEMMA RestOf ==
  ASSUME NEW c \in Calls, NextPage(c), call' # None
  PROVE  /\ call' \in Calls
         /\ Row(call'.phys, call'.left) \subseteq Row(c.phys, c.left) \ {c.phys}
         /\ Row(call'.virt, call'.left) \subseteq Row(c.virt, c.left) \ {c.virt}
<1>1. c.left # 1 /\ call' = [c EXCEPT !.phys = @ + 1, !.virt = @ + 1, !.left = @ - 1]
      BY Zenon DEF NextPage
<1>2. /\ call' \in Calls
      /\ call'.phys = c.phys + 1 /\ call'.virt = c.virt + 1 /\ call'.left = c.left - 1
  <2>1. c.left - 1 \in Nat \ {0} /\ c.phys + 1 \in Nat /\ c.virt + 1 \in Nat
        BY <1>1 DEF Calls
  <2> QED BY <1>1, <2>1, Zenon DEF Calls
<1>3. c.phys \in Nat /\ c.virt \in Nat /\ c.left \in Nat \ {0}
      BY Zenon DEF Calls
<1> QED BY <1>1, <1>2, <1>3, RowNext, Zenon

(* m_Pages stays a number. *)
LEMMA CountKeeps ==
  ASSUME m_Pages \in Nat, NEW c \in Calls, NextPage(c)
  PROVE  m_Pages' \in Nat
<1>1. c.credit \in Nat
      BY Zenon DEF Calls
<1> QED BY <1>1 DEF NextPage

(* A free frame is no table and no caller's. *)
LEMMA FreeIsUnused ==
  ASSUME Types, TablesOK, FreeOK, NEW f \in freeFrames
  PROVE  /\ f \in Frames /\ f # 0 /\ f # None
         /\ \A i \in Tables : dirEntry[i] # f
         /\ \A w \in data : asked[w] # f
<1>1. f \in Frames /\ f # 0 /\ f # None
      BY NoneIsNoFrame, Zenon DEF Types, FreeOK
<1>2. ASSUME NEW i \in Tables PROVE dirEntry[i] # f
  <2>1. CASE i < StaticTables
        BY <1>1, <2>1, StaticPlaces, Zenon DEF TablesOK
  <2>2. CASE i >= StaticTables
        BY <1>1, <2>2, Zenon DEF TablesOK
  <2> QED BY <2>1, <2>2, MapAssumption DEF Tables
<1> QED BY <1>1, <1>2, Zenon DEF FreeOK

(* AllocatePages takes frames and pages that were free, for a caller or    *)
(* for a table.                                                            *)
LEMMA AllocateKeeps ==
  ASSUME IInv, NEW amount \in Amounts \cup {1}, AllocatePages(amount)
  PROVE  IInv'
<1> USE MapAssumption DEF IInv
<1> DEFINE n == page_size_align(amount)
           b == Pow2[page_size_order(n)]
<1>1. PICK f \in FrameBlock(n), v \in PageRows(n) :
        /\ freeFrames' = freeFrames \ Row(f, b)
        /\ freePages' = freePages \ Row(v, n)
        /\ call' = [phys |-> f, virt |-> v, left |-> n, credit |-> n]
        /\ IF outer = None THEN data' = data \cup Row(v, n) /\ UNCHANGED outer
           ELSE outer' = [outer EXCEPT !.table = v] /\ UNCHANGED data
      BY Zenon DEF AllocatePages
<1>2. UNCHANGED <<mem, dirEntry, tablePtr, asked, m_Pages>>
      BY Zenon DEF AllocatePages
<1>3. f \in freeFrames /\ Row(f, b) \subseteq freeFrames /\ b \in Nat /\ n \in 1..b
      BY <1>1, BlockHolds, Zenon
<1>4. v \in freePages /\ Row(v, n) \subseteq freePages
      BY <1>1, Zenon DEF PageRows
<1>a. outer # None => n = 1 /\ outer.table = None
      BY OneFrame, Zenon DEF AllocatePages, Asks
<1> HIDE DEF n, b
<1>5. f \in Nat /\ v \in Nat /\ n \in Nat \ {0} /\ Row(f, n) \subseteq Row(f, b)
  <2>1. f \in Nat /\ v \in Nat /\ n \in Nat \ {0}
        BY <1>3, <1>4 DEF Types, Frames, StaticPages
  <2> QED BY <1>3, <2>1 DEF Row
<1>b. call' \in Calls /\ call'.phys = f /\ call'.virt = v /\ call'.left = n
      BY <1>1, <1>5, Zenon DEF Calls
<1>6. \A w \in Row(v, n) : asked[w] = None /\ w \notin data /\ w \in StaticPages
      BY <1>4, Zenon DEF FreeOK, Types
<1>7. None \notin freeFrames \cup {0}
      BY NoneIsNoFrame, Zenon DEF Types
<1>c. data \subseteq data' /\ data' \subseteq data \cup Row(v, n)
      BY <1>1, Zenon
<1>d. outer # None =>
        /\ outer \in Outers
        /\ outer' # None /\ outer'.call = outer.call /\ outer'.table = v /\ outer'.table # None
        /\ outer' \in Outers
  <2> SUFFICES ASSUME outer # None
               PROVE  /\ outer \in Outers
                      /\ outer' # None /\ outer'.call = outer.call /\ outer'.table = v /\ outer'.table # None
                      /\ outer' \in Outers
      BY Zenon
  <2>1. outer \in Outers
        BY Zenon DEF CallOK
  <2>2. outer' = [outer EXCEPT !.table = v] /\ v \in StaticPages /\ v # None
    <3>1. v # None
          BY <1>5
    <3> QED BY <1>1, <1>4, <3>1, Zenon DEF Types
  <2>3. outer'.call = outer.call /\ outer'.table = v /\ outer' \in Outers
        BY <2>1, <2>2, Zenon DEF Outers
  <2>5. outer' # None
        BY <2>3
  <2> QED BY <2>1, <2>2, <2>3, <2>5, Zenon
<1>e. \A i : Making(i)' <=> Making(i)
      BY <1>1, <1>d, Zenon DEF Making
<1>8. Types'
      BY <1>1, <1>2, <1>6, <1>c, Zenon DEF Types
<1>9. TablesOK'
  <2>1. \A i \in Tables : i >= StaticTables /\ dirEntry[i] # None /\ ~Making(i) => tablePtr[i] \notin Row(v, n)
        BY <1>4, Zenon DEF TablesOK
  <2>2. ASSUME NEW i \in Tables, i >= StaticTables
        PROVE  IF Making(i)' THEN dirEntry'[i] = 0 /\ tablePtr'[i] = None
               ELSE IF dirEntry'[i] = None THEN tablePtr'[i] = None
               ELSE /\ dirEntry'[i] \in Frames \ (freeFrames' \cup {0})
                    /\ tablePtr'[i] \in StaticPages \ (freePages' \cup data')
                    /\ asked'[tablePtr'[i]] = dirEntry'[i]
        BY <1>1, <1>2, <1>c, <1>e, <2>1, <2>2, Zenon DEF TablesOK
  <2> QED BY <1>2, <1>e, <2>2, Zenon DEF TablesOK
<1>10. FreeOK'
      BY <1>1, <1>2, <1>6, <1>7, <1>c, <1>e, Zenon DEF FreeOK
<1>11. WalksAsAsked'
      BY <1>2, Zenon DEF WalksAsAsked, Translate
<1>12. DataIsPrivate'
      BY <1>c, <1>2, <1>6, Zenon DEF DataIsPrivate
<1>13. ASSUME NEW g \in Row(f, n) PROVE Unused(g)'
  <2>1. g \in freeFrames /\ g \notin freeFrames'
        BY <1>1, <1>3, <1>5, Zenon
  <2>2. g # 0 /\ g # None /\ (\A i \in Tables : dirEntry[i] # g) /\ \A w \in data : asked[w] # g
        BY <2>1, FreeIsUnused, Zenon
  <2>3. \A w \in data' : asked[w] # g
        BY <1>c, <1>6, <2>2, Zenon
  <2> QED BY <1>2, <2>1, <2>2, <2>3, Zenon DEF Unused
<1>14. CallOK'
  <2>1. Row(f, n) \subseteq Frames
        BY <1>3, <1>5, Zenon DEF Types
  <2>2. \A w \in Row(v, n) : asked'[w] = None
        BY <1>2, <1>6, Zenon
  <2>3. CASE outer = None
    <3>1. outer' = None /\ Row(v, n) \subseteq data'
          BY <1>1, <2>3, Zenon
    <3>2. DataCall(call)'
          BY <1>13, <1>b, <2>1, <2>2, <3>1, Zenon DEF DataCall
    <3> QED BY <3>1, <3>2, Zenon DEF CallOK
  <2>4. CASE outer # None
    <3>1. Row(v, n) = {v} /\ n = 1
          BY <1>5, <1>a, <2>4 DEF Row
    <3>2. DataCall(call)' /\ call'.left = 1
          BY <1>13, <1>b, <1>d, <2>1, <2>2, <2>4, <3>1, Zenon DEF DataCall
    <3>3. WindowCall(outer'.call)
          BY <1>d, <2>4, Zenon DEF CallOK
    <3>4. call' # None
          BY <1>b
    <3>5. TablePage(v)'
      <4>1. v \in StaticPages \ (freePages' \cup data')
            BY <1>1, <1>4, <1>6, <2>4, <3>1, Zenon
      <4>2. \A i \in Tables : tablePtr[i] # v
        <5> SUFFICES ASSUME NEW i \in Tables PROVE tablePtr[i] # v
            BY Zenon
        <5>1. tablePtr[i] = None \/ tablePtr[i] \notin freePages
              BY MapAssumption DEF TablesOK, Tables
        <5>2. v # None
              BY <1>5
        <5> QED BY <1>4, <5>1, <5>2, Zenon
      <4> QED BY <1>2, <4>1, <4>2, Zenon DEF TablePage
    <3> QED BY <1>d, <2>4, <3>2, <3>3, <3>4, <3>5, Zenon DEF CallOK
  <2> QED BY <2>3, <2>4, Zenon
<1> QED BY <1>8, <1>9, <1>10, <1>11, <1>12, <1>14, Zenon

(* Boot code's ranges, and calls that come to nothing. *)
LEMMA WindowKeeps ==
  ASSUME IInv, NEW w \in Windows, MapWindow(w)
  PROVE  IInv'
<1> USE DEF IInv, MapWindow
<1>1. /\ call' \in Calls
      /\ call'.phys = w.phys /\ call'.virt = w.virt /\ call'.left = w.amount
      BY MapAssumption, Zenon DEF Calls
<1>2. CallOK'
      BY <1>1, MapAssumption, Zenon DEF CallOK, WindowCall
<1>3. Types' /\ FreeOK' /\ WalksAsAsked' /\ DataIsPrivate'
      BY Zenon DEF Types, FreeOK, WalksAsAsked, DataIsPrivate, Translate, Making
<1>4. TablesOK'
      BY Zenon DEF TablesOK, Making
<1> QED BY <1>2, <1>3, <1>4, Zenon

LEMMA StopKeeps ==
  ASSUME IInv, UNCHANGED <<mem, dirEntry, tablePtr, freeFrames, freePages, call, outer, asked, data, m_Pages>>
  PROVE  IInv'
<1> USE DEF IInv
<1>1. Types' /\ FreeOK' /\ WalksAsAsked' /\ DataIsPrivate'
      BY Zenon DEF Types, FreeOK, WalksAsAsked, DataIsPrivate, Translate, Making
<1>2. TablesOK' /\ CallOK'
      BY Zenon DEF TablesOK, CallOK, WindowCall, DataCall, TablePage, Unused, Making
<1> QED BY <1>1, <1>2, Zenon

(* The page that MapVirtualAddress is at. *)
LEMMA CurrentPage ==
  ASSUME IInv, call # None
  PROVE  /\ call \in Calls /\ call.virt \in Pages /\ call.phys \in Frames
         /\ call.virt \notin freePages
         /\ \A j \in Tables : tablePtr[j] # call.virt
         /\ \/ outer = None /\ WindowCall(call) /\ call.virt \notin StaticPages
            \/ DataCall(call) /\ Unused(call.phys) /\ call.virt \in StaticPages
<1> USE DEF IInv
<1>0. \/ outer = None /\ WindowCall(call)
      \/ outer = None /\ DataCall(call)
      \/ outer # None /\ outer.table \in StaticPages /\ TablePage(outer.table) /\ DataCall(call)
      BY Zenon DEF CallOK, TablePage
<1>1. call \in Calls /\ Row(call.phys, call.left) \subseteq Frames
      BY <1>0, Zenon DEF WindowCall, DataCall
<1>2. call.virt \in Row(call.virt, call.left) /\ call.phys \in Row(call.phys, call.left)
  <2>1. call.virt \in Nat /\ call.phys \in Nat /\ call.left \in Nat \ {0}
        BY <1>1, Zenon DEF Calls
  <2> QED BY <2>1, RowNext, Zenon
<1>3. call.virt # None
      BY <1>1, MapAssumption DEF Calls
<1>4. CASE outer = None /\ WindowCall(call)
  <2>1. call.virt \in Pages /\ call.virt \notin StaticPages
        BY <1>2, <1>4, Zenon DEF WindowCall
  <2> QED BY <1>1, <1>2, <1>3, <1>4, <2>1, Zenon DEF Types
<1>5. CASE outer = None /\ DataCall(call)
  <2>1. call.virt \in data /\ Unused(call.phys)
        BY <1>2, <1>5, Zenon DEF DataCall
  <2>2. ASSUME NEW j \in Tables PROVE tablePtr[j] # call.virt
    <3>1. tablePtr[j] = None \/ tablePtr[j] \notin data
          BY MapAssumption DEF TablesOK, Tables
    <3> QED BY <1>3, <2>1, <3>1, Zenon
  <2> QED BY <1>1, <1>2, <1>5, <2>1, <2>2, StaticIn, Zenon DEF Types, FreeOK
<1>6. CASE outer # None /\ outer.table \in StaticPages /\ TablePage(outer.table) /\ DataCall(call)
  <2>1. call.virt = outer.table /\ Unused(call.phys)
        BY <1>2, <1>6, Zenon DEF DataCall
  <2> QED BY <1>1, <1>2, <1>6, <2>1, StaticIn, Zenon DEF TablePage
<1> QED BY <1>0, <1>4, <1>5, <1>6, Zenon

(* An entry written into a table that is there changes one page only. *)
LEMMA MapPageKeeps ==
  ASSUME IInv, MapPage
  PROVE  IInv'
<1> USE DEF IInv
<1> DEFINE v == call.virt
           p == call.phys
           i == TableOf(v)
           k == SlotOf(v)
<1>1. /\ call # None /\ NextPage(call)
      /\ asked' = [asked EXCEPT ![v] = p]
      /\ UNCHANGED <<dirEntry, tablePtr, freeFrames, freePages, outer, data>>
      BY Zenon DEF MapPage
<1>2. /\ call \in Calls /\ v \in Pages /\ p \in Frames /\ v \notin freePages
      /\ v \in StaticPages => DataCall(call) /\ Unused(p)
      /\ \A j \in Tables : tablePtr[j] # v
      BY <1>1, CurrentPage, Zenon
<1>3. i \in Tables /\ k \in 0..(Slots - 1)
      BY <1>2, PageFacts, Zenon
<1>a. ~Making(i) /\ TablePlace(i) # None
      BY <1>3, NotFound, Zenon DEF MapPage
<1>4. /\ dirEntry[i] \in Places /\ dirEntry[i] # None
      /\ mem' = [mem EXCEPT ![dirEntry[i]][k] = p]
      BY <1>3, <1>a, OnePlace, Zenon DEF MapPage, Types
<1>5. v \in data => Unused(p)
      BY <1>2, Zenon DEF Types
<1>6. data \subseteq Pages /\ freePages \subseteq Pages
      BY StaticIn, Zenon DEF Types
<1>7. asked'[v] = p /\ \A w \in Pages \ {v} : asked'[w] = asked[w]
      BY <1>1, <1>2, Zenon DEF Types
<1>b. \A j : Making(j)' <=> Making(j)
      BY <1>1, Zenon DEF Making
<1> HIDE DEF i, k, v, p
<1>8. Types'
  <2>1. mem' \in [Places -> [0..(Slots - 1) -> Frames \cup {None}]]
        BY <1>2, <1>3, <1>4, Zenon DEF Types
  <2>2. m_Pages' \in Nat
        BY <1>1, <1>2, CountKeeps, Zenon DEF Types
  <2> QED BY <1>1, <1>2, <2>1, <2>2, Zenon DEF Types
<1>9. TablesOK'
  <2>1. \A j \in Tables : tablePtr[j] \in StaticPages => asked'[tablePtr[j]] = asked[tablePtr[j]]
        BY <1>2, <1>7, StaticIn, Zenon
  <2> QED BY <1>1, <1>b, <2>1, Zenon DEF TablesOK
<1>10. FreeOK'
  <2>1. \A w \in freePages : asked'[w] = None /\ w \notin data
        BY <1>2, <1>6, <1>7, Zenon DEF FreeOK
  <2>2. \A w \in data : asked'[w] \notin freeFrames \cup {0}
        BY <1>5, <1>6, <1>7, Zenon DEF FreeOK, Unused
  <2>3. \A w \in Pages : Making(TableOf(w)) => asked'[w] = None
        BY <1>7, <1>a, Zenon DEF FreeOK, i
  <2> QED BY <1>1, <1>b, <2>1, <2>2, <2>3, Zenon DEF FreeOK
<1>11. WalksAsAsked'
  <2> SUFFICES ASSUME NEW w \in Pages, asked'[w] # None PROVE Translate(w)' = asked'[w]
      BY Zenon DEF WalksAsAsked
  <2>1. TableOf(w) \in Tables /\ SlotOf(w) \in 0..(Slots - 1)
        BY PageFacts, Zenon
  <2>3. CASE w = v
    <3>1. mem'[dirEntry[i]][k] = p
          BY <1>3, <1>4, Zenon DEF Types
    <3> QED BY <1>1, <1>4, <1>7, <2>3, <3>1, Zenon DEF Translate, i, k
  <2>4. CASE w # v
    <3>1. asked'[w] = asked[w] /\ Translate(w) = asked[w]
          BY <1>7, <2>4, Zenon DEF WalksAsAsked
    <3>2. dirEntry[TableOf(w)] \in Places /\ dirEntry[TableOf(w)] # None
          BY <2>1, <3>1, Zenon DEF Translate, Types
    <3>3. dirEntry[TableOf(w)] = dirEntry[i] => SlotOf(w) # k
          BY <1>2, <1>3, <2>1, <2>4, <3>2, PageUnique, Zenon DEF TablesOK, i, k
    <3>4. mem'[dirEntry[TableOf(w)]][SlotOf(w)] = mem[dirEntry[TableOf(w)]][SlotOf(w)]
          BY <1>3, <1>4, <2>1, <3>2, <3>3, Zenon DEF Types
    <3> QED BY <1>1, <3>1, <3>2, <3>4, Zenon DEF Translate
  <2> QED BY <2>3, <2>4, Zenon
<1>12. DataIsPrivate'
  <2>1. ASSUME NEW w \in data, asked'[w] # None, NEW j \in Tables PROVE dirEntry[j] # asked'[w]
        BY <1>5, <1>6, <1>7, <2>1, Zenon DEF DataIsPrivate, Unused
  <2>2. ASSUME NEW w \in data, asked'[w] # None, NEW x \in data \ {w} PROVE asked'[x] # asked'[w]
        BY <1>5, <1>6, <1>7, <2>2, Zenon DEF DataIsPrivate, Unused
  <2> QED BY <1>1, <2>1, <2>2, Zenon DEF DataIsPrivate
<1>13. CallOK'
  <2>1. CASE outer = None
    <3> SUFFICES ASSUME call' # None PROVE WindowCall(call') \/ DataCall(call)'
        BY <1>1, <2>1, Zenon DEF CallOK
    <3>1. /\ call' \in Calls
          /\ Row(call'.phys, call'.left) \subseteq Row(call.phys, call.left) \ {call.phys}
          /\ Row(call'.virt, call'.left) \subseteq Row(call.virt, call.left) \ {call.virt}
          BY <1>1, <1>2, RestOf, Zenon
    <3>2. CASE WindowCall(call)
          BY <3>1, <3>2, Zenon DEF WindowCall
    <3>3. CASE DataCall(call)
      <4>1. Row(call'.virt, call'.left) \subseteq data /\ Row(call'.phys, call'.left) \subseteq Frames
            BY <2>1, <3>1, <3>3, Zenon DEF DataCall
      <4>2. \A w \in Row(call'.virt, call'.left) : asked'[w] = None
            BY <1>6, <1>7, <3>1, <3>3, <4>1, Zenon DEF DataCall, v
      <4>3. \A f \in Row(call'.phys, call'.left) : Unused(f)'
        <5> SUFFICES ASSUME NEW f \in Row(call'.phys, call'.left) PROVE Unused(f)'
            BY Zenon
        <5>1. f # p /\ Unused(f)
              BY <3>1, <3>3, Zenon DEF DataCall, p
        <5>2. \A w \in data : asked'[w] # f
              BY <1>6, <1>7, <5>1, Zenon DEF Unused
        <5> QED BY <1>1, <5>1, <5>2, Zenon DEF Unused
      <4> QED BY <1>1, <2>1, <3>1, <4>1, <4>2, <4>3, Zenon DEF DataCall
    <3> QED BY <1>1, <2>1, <3>2, <3>3, Zenon DEF CallOK
  <2>2. CASE outer # None
    <3>1. /\ outer.table # None /\ TablePage(outer.table) /\ DataCall(call) /\ call.left = 1
          /\ outer \in Outers /\ WindowCall(outer.call)
          BY <1>1, <2>2, Zenon DEF CallOK
    <3>2. call' = None
          BY <1>1, <3>1, Zenon DEF NextPage
    <3>3. v = outer.table /\ Unused(p)
      <4>1. call.virt \in Nat /\ call.phys \in Nat
            BY <1>2, Zenon DEF Calls
      <4>2. call.virt \in Row(call.virt, 1) /\ call.phys \in Row(call.phys, 1)
            BY <4>1 DEF Row
      <4> QED BY <2>2, <3>1, <4>2, Zenon DEF DataCall, v, p
    <3>4. asked'[outer.table] \in Frames /\ asked'[outer.table] = p
          BY <1>2, <1>7, <3>3, Zenon
    <3>5. Unused(asked[outer.table])'
      <4>1. v \notin data
            BY <3>1, <3>3, Zenon DEF TablePage
      <4>2. \A w \in data : asked'[w] # p
            BY <1>6, <1>7, <3>3, <4>1, Zenon DEF Unused
      <4> QED BY <1>1, <3>3, <3>4, <4>2, Zenon DEF Unused
    <3>6. TablePage(outer.table)'
          BY <1>1, <3>1, Zenon DEF TablePage
    <3> QED BY <1>1, <2>2, <3>1, <3>2, <3>4, <3>5, <3>6, Zenon DEF CallOK
  <2> QED BY <2>1, <2>2, Zenon
<1> QED BY <1>8, <1>9, <1>10, <1>11, <1>12, <1>13, Zenon

(* A directory entry that is present with address 0 leads nobody astray:   *)
(* nothing was mapped behind it.                                           *)
LEMMA PresentKeeps ==
  ASSUME IInv, MakePresent
  PROVE  IInv'
<1> USE DEF IInv
<1> DEFINE v == call.virt
           i == TableOf(v)
<1>1. /\ call # None /\ dirEntry[i] = None /\ dirEntry' = [dirEntry EXCEPT ![i] = 0]
      /\ outer' = [call |-> call, table |-> None] /\ call' = None
      /\ UNCHANGED <<mem, tablePtr, freeFrames, freePages, asked, data, m_Pages>>
      BY Zenon DEF MakePresent
<1>2. call \in Calls /\ v \in Pages
      BY <1>1, CurrentPage, Zenon
<1>3. i \in Tables /\ (v \in StaticPages <=> i < StaticTables)
      BY <1>2, PageFacts, Zenon
<1>4. ~(i < StaticTables) /\ v \notin StaticPages
      BY <1>1, <1>3, StaticPlaces, Zenon DEF TablesOK
<1>5. outer = None /\ WindowCall(call)
      BY <1>1, <1>4, CurrentPage, Zenon
<1>6. outer' \in Outers /\ outer' # None /\ outer'.call = call /\ outer'.table = None
  <2>1. outer' \in Outers /\ outer'.call = call /\ outer'.table = None
        BY <1>1, <1>2, Zenon DEF Outers
  <2> QED BY <2>1, MapAssumption
<1>7. \A j : ~Making(j) /\ (Making(j)' <=> j = i)
      BY <1>5, <1>6, Zenon DEF Making
<1> HIDE DEF v, i
<1>8. dirEntry'[i] = 0 /\ \A j \in Tables \ {i} : dirEntry'[j] = dirEntry[j]
      BY <1>1, <1>3, Zenon DEF Types
<1>9. ASSUME NEW j \in Tables PROVE dirEntry[j] # 0
  <2>1. CASE j < StaticTables
        BY <2>1, StaticPlaces, NoneIsNoFrame, Zenon DEF TablesOK
  <2>2. CASE j >= StaticTables
        BY <1>7, <2>2, NoneIsNoFrame, Zenon DEF TablesOK
  <2> QED BY <2>1, <2>2, MapAssumption DEF Tables
<1>10. Types'
  <2>1. 0 \in Places
        BY NoneIsNoFrame, Zenon DEF Places
  <2>2. dirEntry' \in [Tables -> Places \cup {None}]
        BY <1>1, <2>1, Zenon DEF Types
  <2> QED BY <1>1, <2>2, Zenon DEF Types
<1>11. TablesOK'
  <2>1. tablePtr[i] = None
    <3>1. i >= StaticTables
          BY <1>3, <1>4, MapAssumption DEF Tables
    <3> QED BY <1>1, <1>3, <1>7, <3>1, Zenon DEF TablesOK, i, v
  <2>2. ASSUME NEW j \in Tables, j < StaticTables
        PROVE  dirEntry'[j] = Static(j) /\ tablePtr'[j] = None /\ ~Making(j)'
        BY <1>1, <1>4, <1>7, <1>8, <2>2, Zenon DEF TablesOK
  <2>3. ASSUME NEW j \in Tables, j >= StaticTables
        PROVE  IF Making(j)' THEN dirEntry'[j] = 0 /\ tablePtr'[j] = None
               ELSE IF dirEntry'[j] = None THEN tablePtr'[j] = None
               ELSE /\ dirEntry'[j] \in Frames \ (freeFrames' \cup {0})
                    /\ tablePtr'[j] \in StaticPages \ (freePages' \cup data')
                    /\ asked'[tablePtr'[j]] = dirEntry'[j]
    <3>1. CASE j = i
          BY <1>1, <1>7, <1>8, <2>1, <3>1, Zenon
    <3>2. CASE j # i
          BY <1>1, <1>7, <1>8, <2>3, <3>2, Zenon DEF TablesOK
    <3> QED BY <3>1, <3>2, Zenon
  <2>4. ASSUME NEW j \in Tables, NEW l \in Tables, dirEntry'[j] # None, dirEntry'[j] = dirEntry'[l]
        PROVE  j = l
        BY <1>8, <1>9, <2>4 DEF TablesOK
  <2> QED BY <2>2, <2>3, <2>4, Zenon DEF TablesOK
<1>12. FreeOK'
  <2>1. ASSUME NEW w \in Pages, TableOf(w) = i PROVE asked[w] = None
        BY <1>1, <2>1, Zenon DEF WalksAsAsked, Translate, i, v
  <2> QED BY <1>1, <1>7, <2>1, Zenon DEF FreeOK
<1>13. WalksAsAsked'
  <2> SUFFICES ASSUME NEW w \in Pages, asked[w] # None PROVE Translate(w)' = asked[w]
      BY <1>1, Zenon DEF WalksAsAsked
  <2>1. Translate(w) = asked[w] /\ TableOf(w) \in Tables
        BY PageFacts, Zenon DEF WalksAsAsked
  <2>2. TableOf(w) # i
        BY <1>1, <2>1, Zenon DEF Translate, i, v
  <2> QED BY <1>1, <1>8, <2>1, <2>2, Zenon DEF Translate
<1>14. DataIsPrivate'
  <2>1. \A w \in data : asked[w] # 0
        BY Zenon DEF FreeOK
  <2>2. ASSUME NEW w \in data, asked[w] # None, NEW j \in Tables PROVE dirEntry'[j] # asked[w]
    <3>1. CASE j = i
          BY <1>8, <2>1, <3>1, Zenon
    <3>2. CASE j # i
          BY <1>8, <2>2, <3>2, Zenon DEF DataIsPrivate
    <3> QED BY <3>1, <3>2, Zenon
  <2> QED BY <1>1, <2>2, Zenon DEF DataIsPrivate
<1>15. CallOK'
      BY <1>1, <1>5, <1>6, Zenon DEF CallOK, WindowCall
<1> QED BY <1>10, <1>11, <1>12, <1>13, <1>14, <1>15, Zenon

(* A new table: its frame is nobody's, so that nothing led through it, and *)
(* no page of its range had been mapped.                                   *)
LEMMA TakeTableKeeps ==
  ASSUME IInv, TakeTable
  PROVE  IInv'
<1> USE DEF IInv
<1> DEFINE c == outer.call
           t == outer.table
           v == c.virt
           p == c.phys
           i == TableOf(v)
           k == SlotOf(v)
           f == asked[t]
<1>1. /\ outer # None /\ t # None /\ call = None /\ NextPage(c) /\ outer' = None
      /\ UNCHANGED <<freeFrames, freePages, data>>
      BY Zenon DEF TakeTable
<1>2. /\ outer \in Outers /\ WindowCall(c) /\ TablePage(t) /\ f \in Frames /\ Unused(f)
      BY <1>1, Zenon DEF CallOK
<1>3. c \in Calls /\ v \in Pages \ StaticPages /\ p \in Frames
  <2>1. c \in Calls /\ c.virt \in Nat /\ c.phys \in Nat /\ c.left \in Nat \ {0}
        BY <1>2, Zenon DEF Outers, Calls
  <2>2. v \in Row(v, c.left) /\ p \in Row(p, c.left)
        BY <2>1, RowNext, Zenon
  <2> QED BY <1>2, <2>1, <2>2, Zenon DEF WindowCall
<1>4. i \in Tables /\ k \in 0..(Slots - 1) /\ ~(i < StaticTables)
      BY <1>3, PageFacts, Zenon
<1>5. \A j : (Making(j) <=> j = i) /\ ~Making(j)'
      BY <1>1, Zenon DEF Making
<1>6. t \in StaticPages /\ t \in Pages /\ t # v /\ t \notin data /\ t \notin freePages /\ \A j \in Tables : tablePtr[j] # t
      BY <1>2, <1>3, StaticIn, Zenon DEF TablePage
<1>7. f # 0 /\ f # None /\ f \in Places /\ f \notin freeFrames /\ (\A j \in Tables : dirEntry[j] # f) /\ \A w \in data : asked[w] # f
      BY <1>2, NoneIsNoFrame, Zenon DEF Unused, Places
<1>8. Translate(t) = f /\ ConvertVirtToPhys(t) = f
      BY <1>6, <1>7, WalksAgree, Zenon DEF TranslatesAsAsked
<1>9. /\ dirEntry' = [dirEntry EXCEPT ![i] = f]
      /\ tablePtr' = [tablePtr EXCEPT ![i] = t]
      /\ mem' = [mem EXCEPT ![f][k] = p]
      /\ asked' = [asked EXCEPT ![v] = p]
      BY <1>8, Zenon DEF TakeTable
<1>10. v \notin data /\ v \notin freePages /\ data \subseteq Pages /\ freePages \subseteq Pages
      BY <1>3, StaticIn, Zenon DEF Types
<1>a. \A j \in Tables : j >= StaticTables \/ j < StaticTables
      BY MapAssumption DEF Tables
<1>b. asked'[t] = asked[t] /\ asked'[v] = p /\ \A w \in Pages \ {v} : asked'[w] = asked[w]
      BY <1>3, <1>6, <1>9, Zenon DEF Types
<1> HIDE DEF f, i, k, v, p, t, c
<1>12. /\ dirEntry'[i] = f /\ tablePtr'[i] = t
       /\ \A j \in Tables \ {i} : dirEntry'[j] = dirEntry[j] /\ tablePtr'[j] = tablePtr[j]
      BY <1>4, <1>9, Zenon DEF Types
<1>13. /\ mem'[f][k] = p
       /\ \A x \in Places \ {f} : mem'[x] = mem[x]
      BY <1>4, <1>7, <1>9, Zenon DEF Types
<1>14. Types'
  <2>1. mem' \in [Places -> [0..(Slots - 1) -> Frames \cup {None}]]
        BY <1>3, <1>4, <1>7, <1>9, Zenon DEF Types
  <2>2. m_Pages' \in Nat
        BY <1>1, <1>3, CountKeeps, Zenon DEF Types
  <2>3. dirEntry' \in [Tables -> Places \cup {None}] /\ tablePtr' \in [Tables -> StaticPages \cup {None}]
        BY <1>6, <1>7, <1>9, Zenon DEF Types
  <2>4. asked' \in [Pages -> Frames \cup {None}]
        BY <1>3, <1>9, Zenon DEF Types
  <2> QED BY <1>1, <2>1, <2>2, <2>3, <2>4, Zenon DEF Types
<1>15. TablesOK'
  <2>1. ASSUME NEW j \in Tables, j < StaticTables
        PROVE  dirEntry'[j] = Static(j) /\ tablePtr'[j] = None /\ ~Making(j)'
        BY <1>4, <1>5, <1>12, <2>1, Zenon DEF TablesOK
  <2>2. ASSUME NEW j \in Tables, j >= StaticTables
        PROVE  IF dirEntry'[j] = None THEN tablePtr'[j] = None
               ELSE /\ dirEntry'[j] \in Frames \ (freeFrames' \cup {0})
                    /\ tablePtr'[j] \in StaticPages \ (freePages' \cup data')
                    /\ asked'[tablePtr'[j]] = dirEntry'[j]
    <3>1. CASE j = i
      <4>1. f \in Frames \ (freeFrames' \cup {0}) /\ t \in StaticPages \ (freePages' \cup data')
            BY <1>1, <1>2, <1>6, <1>7, Zenon
      <4>2. asked'[t] = f
            BY <1>b, Zenon DEF f
      <4> QED BY <1>7, <1>12, <3>1, <4>1, <4>2, Zenon
    <3>2. CASE j # i
      <4>1. dirEntry'[j] = dirEntry[j] /\ tablePtr'[j] = tablePtr[j] /\ ~Making(j)
            BY <1>5, <1>12, <3>2, Zenon
      <4>2. CASE dirEntry[j] = None
            BY <2>2, <4>1, <4>2, Zenon DEF TablesOK
      <4>3. CASE dirEntry[j] # None
        <5>1. /\ dirEntry[j] \in Frames \ (freeFrames \cup {0})
              /\ tablePtr[j] \in StaticPages \ (freePages \cup data)
              /\ asked[tablePtr[j]] = dirEntry[j]
              BY <2>2, <4>1, <4>3, Zenon DEF TablesOK
        <5>2. asked'[tablePtr[j]] = asked[tablePtr[j]]
              BY <1>3, <1>b, <5>1, StaticIn, Zenon
        <5> QED BY <1>1, <4>1, <4>3, <5>1, <5>2, Zenon
      <4> QED BY <4>2, <4>3, Zenon
    <3> QED BY <3>1, <3>2, Zenon
  <2>3. ASSUME NEW j \in Tables, NEW l \in Tables, dirEntry'[j] # None, dirEntry'[j] = dirEntry'[l]
        PROVE  j = l
        BY <1>7, <1>12, <2>3 DEF TablesOK
  <2> QED BY <1>5, <2>1, <2>2, <2>3, Zenon DEF TablesOK
<1>16. FreeOK'
  <2>1. \A w \in data \cup freePages : asked'[w] = asked[w]
        BY <1>10, <1>b, Zenon
  <2> QED BY <1>1, <1>5, <2>1, Zenon DEF FreeOK
<1>17. WalksAsAsked'
  <2> SUFFICES ASSUME NEW w \in Pages, asked'[w] # None PROVE Translate(w)' = asked'[w]
      BY Zenon DEF WalksAsAsked
  <2>1. TableOf(w) \in Tables /\ SlotOf(w) \in 0..(Slots - 1)
        BY PageFacts, Zenon
  <2>3. CASE w = v
        BY <1>7, <1>12, <1>13, <1>b, <2>3, Zenon DEF Translate, i, k
  <2>4. CASE w # v
    <3>1. asked'[w] = asked[w] /\ Translate(w) = asked[w]
          BY <1>b, <2>4, Zenon DEF WalksAsAsked
    <3>2. dirEntry[TableOf(w)] # None /\ dirEntry[TableOf(w)] \in Places
          BY <2>1, <2>4, <3>1, Zenon DEF Translate, Types
    <3>3. TableOf(w) # i
          BY <1>5, <2>4, <3>1, Zenon DEF FreeOK
    <3>4. dirEntry'[TableOf(w)] = dirEntry[TableOf(w)] /\ dirEntry[TableOf(w)] # f
          BY <1>7, <1>12, <2>1, <3>3, Zenon
    <3>5. mem'[dirEntry[TableOf(w)]] = mem[dirEntry[TableOf(w)]]
          BY <1>13, <3>2, <3>4, Zenon
    <3> QED BY <3>1, <3>2, <3>4, <3>5, Zenon DEF Translate
  <2> QED BY <2>3, <2>4, Zenon
<1>18. DataIsPrivate'
  <2>1. \A w \in data : asked'[w] = asked[w] /\ asked[w] # f
        BY <1>7, <1>10, <1>b, Zenon
  <2>2. ASSUME NEW w \in data, asked[w] # None, NEW j \in Tables PROVE dirEntry'[j] # asked[w]
    <3>1. CASE j = i
          BY <1>12, <2>1, <3>1, Zenon
    <3>2. CASE j # i
          BY <1>12, <2>2, <3>2, Zenon DEF DataIsPrivate
    <3> QED BY <3>1, <3>2, Zenon
  <2>3. ASSUME NEW w \in data, asked[w] # None, NEW x \in data \ {w} PROVE asked[x] # asked[w]
        BY <2>3, Zenon DEF DataIsPrivate
  <2> QED BY <1>1, <2>1, <2>2, <2>3, Zenon DEF DataIsPrivate
<1>19. CallOK'
  <2> SUFFICES ASSUME call' # None PROVE WindowCall(call')
      BY <1>1, Zenon DEF CallOK
  <2>1. /\ call' \in Calls
        /\ Row(call'.phys, call'.left) \subseteq Row(c.phys, c.left) \ {c.phys}
        /\ Row(call'.virt, call'.left) \subseteq Row(c.virt, c.left) \ {c.virt}
        BY <1>1, <1>3, RestOf, Zenon
  <2> QED BY <1>2, <2>1, Zenon DEF WindowCall
<1> QED BY <1>14, <1>15, <1>16, <1>17, <1>18, <1>19, Zenon

(* Every step keeps the invariant. *)
LEMMA NextKeeps == IInv /\ [Next]_vars => IInv'
<1> SUFFICES ASSUME IInv, [Next]_vars PROVE IInv'
    BY Zenon
<1>1. ASSUME NEW n \in Amounts \cup {1}, AllocateFails(n) PROVE IInv'
      BY <1>1, StopKeeps, Zenon DEF AllocateFails
<1>2. CASE UNCHANGED vars
      BY <1>2, StopKeeps, Zenon DEF vars
<1> QED BY <1>1, <1>2, AllocateKeeps, WindowKeeps, MapPageKeeps, PresentKeeps, TakeTableKeeps, Zenon DEF Next

(* Whatever MapVirtualAddress is asked for, and whatever the frames of new *)
(* page tables held, every page translates to the frame it was mapped to,  *)
(* by the hardware's walk and by ConvertVirtToPhys.                        *)
THEOREM MappedAsAsked == Spec => []TranslatesAsAsked
<1>1. IInv => TranslatesAsAsked
      BY WalksAgree, Zenon DEF IInv
<1> QED BY <1>1, InitHolds, NextKeeps, PTL DEF Spec

(* The frames behind the pages that AllocatePages gave out are no page     *)
(* tables, and no two pages share one.                                     *)
THEOREM FramesArePrivate == Spec => []DataIsPrivate
<1> QED BY InitHolds, NextKeeps, PTL DEF Spec, IInv

(* page_size_align and page_size_order agree for every size up to the      *)
(* largest block, in pages and, above half a page, in bytes, so that       *)
(* PM_AllocatePages is asked for the smallest block that holds what        *)
(* AllocatePages wants, and every frame of it is one that nobody has.      *)
THEOREM BlocksAlwaysFit == Spec => []BlocksFit
<1>1. IInv => BlocksFit
  <2>1. SUFFICES ASSUME IInv, NEW amount \in Amounts \ {0}, NEW f \in FrameBlock(page_size_align(amount))
                 PROVE  Row(f, amount) \subseteq freeFrames
    BY AllSizesFit, Zenon DEF BlocksFit
  <2>2. PICK b : /\ f \in freeFrames /\ Row(f, b) \subseteq freeFrames /\ b \in Nat /\ amount \in 1..b
    BY BlockHolds, Zenon
  <2>3. f \in Nat
    BY <2>1, <2>2, MapAssumption DEF IInv, Types, Frames
  <2>4. Row(f, amount) \subseteq Row(f, b)
    BY <2>2, <2>3 DEF Row
  <2> QED BY <2>2, <2>4, Zenon
<1> QED BY <1>1, InitHolds, NextKeeps, PTL DEF Spec

==============================================================================
