--------------------------- MODULE TerminalProofs ---------------------------
(***************************************************************************)
(* The text screen implements Teletype, for every size of the screen and   *)
(* texts of every length: what the loop over a text leaves on the screen,  *)
(* by induction over the characters, and what that is in terms of lines.   *)
(***************************************************************************)
EXTENDS Terminal, FiniteSetTheorems, SequenceTheorems, WellFoundedInduction, TLAPS

-----------------------------------------------------------------------------
(* Numbers. *)

(* Every nonempty set of naturals has a least element: otherwise the       *)
(* intervals 0..n would have no minimal one among them.                    *)
LEMMA HasLeast ==
  ASSUME NEW S \in SUBSET Nat, S # {}
  PROVE  \E m \in S : \A x \in S : m <= x
<1> DEFINE T == {0..n : n \in S}
<1>1. T \subseteq FiniteSubsetsOf(Nat) /\ T # {}
  <2>1. \A n \in S : 0..n \in FiniteSubsetsOf(Nat)
    BY FS_Interval DEF FiniteSubsetsOf
  <2> QED BY <2>1, Zenon
<1>2. PICK x \in T : \A y \in T : ~(<<y, x>> \in StrictSubsetOrdering(Nat))
  <2> HIDE DEF T
  <2> QED BY <1>1, FS_StrictSubsetOrderingWellFounded, WFMin, Zenon
<1>3. PICK m \in S : x = 0..m
  BY Zenon
<1>4. ASSUME NEW n \in S PROVE m <= n
  <2>1. SUFFICES ASSUME n < m PROVE FALSE
    OBVIOUS
  <2>2. 0..n \in T
    BY Zenon
  <2>3. 0..n \subseteq 0..m /\ 0..n # 0..m /\ 0..n \in SUBSET Nat /\ 0..m \in SUBSET Nat
    BY <2>1
  <2> QED BY <1>2, <1>3, <2>2, <2>3, Zenon DEF StrictSubsetOrdering
<1> QED BY <1>4, Zenon

(* Which row a position is in. *)
LEMMA DivIs ==
  ASSUME NEW w \in Nat \ {0}, NEW q \in Nat, NEW c \in 0..(w - 1), NEW n \in Nat, n = q * w + c
  PROVE  n \div w = q
<1> DEFINE p == n \div w
           m == n % w
<1>1. p \in Int /\ m \in 0..(w - 1) /\ n = w * p + m
  OBVIOUS
<1> HIDE DEF p, m
<1>2. w * (p - q) = c - m
  BY <1>1
<1>3. p - q >= 1 => w * (p - q) >= w
  BY <1>1
<1>4. p - q <= -1 => w * (p - q) <= -w
  BY <1>1
<1>5. p = q
  BY <1>1, <1>2, <1>3, <1>4
<1> QED BY <1>5, Zenon DEF p

(* How many lines the cursor moves on when it passes n characters. *)
LEMMA LinesBetween ==
  ASSUME NEW l \in Nat, NEW r \in Nat, NEW c \in Nat, NEW n \in Nat,
         c < Width, l * Width + c = r * Width + n
  PROVE  l >= r /\ n \div Width = l - r
<1>0. Width \in Nat \ {0}
  BY ScreenAssumption, Zenon
<1>1. l >= r
  <2>1. SUFFICES ASSUME l < r PROVE FALSE
    OBVIOUS
  <2>2. (r - l) * Width >= Width
    BY <2>1, <1>0
  <2>3. (r - l) * Width = r * Width - l * Width
    BY <1>0
  <2> QED BY <2>2, <2>3, <1>0
<1>2. l - r \in Nat /\ c \in 0..(Width - 1) /\ n = (l - r) * Width + c
  BY <1>0, <1>1
<1> QED BY <1>0, <1>1, <1>2, DivIs

(* The first cell of a row, or of a line of paper. *)
At(a) == a * Width

LEMMA AtFacts ==
  /\ Width \in Nat \ {0} /\ Height \in Nat \ {0}
  /\ \A a \in Nat : At(a) \in Nat /\ At(a + 1) = At(a) + Width
  /\ \A a, b \in Nat : At(a + b) = At(a) + At(b) /\ (a < b => At(a) + Width <= At(b))
  /\ Cells = 0..(At(Height) - 1) /\ Width * (Height - 1) = At(Height - 1)
<1>1. Width \in Nat \ {0} /\ Height \in Nat \ {0}
  BY ScreenAssumption, Zenon
<1>2. ASSUME NEW a \in Nat PROVE At(a) \in Nat /\ At(a + 1) = At(a) + Width
  BY <1>1 DEF At
<1>3. ASSUME NEW a \in Nat, NEW b \in Nat PROVE At(a + b) = At(a) + At(b) /\ (a < b => At(a) + Width <= At(b))
  <2>1. a < b => (b - a) * Width >= Width
    BY <1>1
  <2> QED BY <1>1, <2>1 DEF At
<1>4. Width * Height = At(Height) /\ Width * (Height - 1) = At(Height - 1)
  BY <1>1 DEF At
<1> QED BY <1>1, <1>2, <1>3, <1>4, Zenon DEF Cells

(* The size of the screen in cells, and that of all rows but the last. *)
LEMMA Sizes ==
  \E h, x \in Nat :
    /\ Cells = 0..(h - 1) /\ h = At(Height) /\ x = Width * (Height - 1) /\ h = x + Width
    /\ \A a \in Nat : a < Height => At(a) + Width <= h
<1>1. Height - 1 \in Nat /\ Height \in Nat /\ (Height - 1) + 1 = Height
  BY AtFacts
<1>2. At(Height) = At(Height - 1) + Width
  BY <1>1, AtFacts, Zenon
<1>3. PICK h, x \in Nat : h = At(Height) /\ x = At(Height - 1)
  BY <1>1, AtFacts, Zenon
<1>4. Cells = 0..(h - 1) /\ x = Width * (Height - 1) /\ h = x + Width
  BY <1>2, <1>3, AtFacts, Zenon
<1>5. ASSUME NEW a \in Nat, a < Height PROVE At(a) + Width <= h
  BY <1>1, <1>3, <1>5, AtFacts, Zenon
<1> QED BY <1>3, <1>4, <1>5, Zenon

-----------------------------------------------------------------------------
(* The loop. *)

(* What has been written is a roll of paper.  Position p of it, counted in *)
(* cells from the first line, when n characters of text have been put at   *)
(* position e, behind what screen b shows.                                 *)
Roll(b, e, text, n, p) ==
  IF e <= p /\ p < e + n THEN text[p - e + 1] ELSE IF p \in Cells THEN b[p] ELSE Blank

(* The screen shows the roll from position d on. *)
Shown(buf, d, b, e, text, n) == buf = [i \in Cells |-> Roll(b, e, text, n, i + d)]

(* line_move_up moves on by one line of the roll, when nothing was written *)
(* behind the last row.                                                    *)
LEMMA MoveUpShows ==
  ASSUME NEW buf, NEW d \in Nat, NEW b, NEW e \in Nat, NEW text, NEW n \in Nat,
         Shown(buf, d, b, e, text, n), e + n <= At(Height) + d
  PROVE  Shown(line_move_up(buf), d + Width, b, e, text, n)
<1>1. PICK h, x \in Nat : Cells = 0..(h - 1) /\ h = At(Height) /\ x = Width * (Height - 1) /\ h = x + Width
  BY Sizes, Zenon
<1>2. Cells = 0..(h - 1) /\ h = x + Width /\ e + n <= h + d /\ Width \in Nat
  BY <1>1, AtFacts, Zenon
<1>3. ASSUME NEW i \in Cells PROVE line_move_up(buf)[i] = Roll(b, e, text, n, i + (d + Width))
  <2>0. i \in 0..(h - 1)
    BY <1>2, Zenon
  <2>1. CASE i < x
    <3>1. i + Width \in 0..(h - 1) /\ (i + Width) + d = i + (d + Width)
      BY <2>0, <2>1, <1>2
    <3>2. buf[i + Width] = Roll(b, e, text, n, i + (d + Width))
      BY <3>1, <1>2, Zenon DEF Shown
    <3> QED BY <2>1, <3>2, <1>1, Zenon DEF line_move_up
  <2>2. CASE ~(i < x)
    <3>1. i + (d + Width) \notin 0..(h - 1) /\ ~(i + (d + Width) < e + n)
      BY <2>0, <2>2, <1>2
    <3>2. Roll(b, e, text, n, i + (d + Width)) = Blank
      BY <3>1, <1>2, Zenon DEF Roll
    <3> QED BY <2>2, <3>2, <1>1, Zenon DEF line_move_up
  <2> QED BY <2>1, <2>2, Zenon
<1>4. line_move_up(buf) = [i \in Cells |-> line_move_up(buf)[i]]
  BY Zenon DEF line_move_up
<1> QED BY <1>3, <1>4, Zenon DEF Shown

(* Writing one more character at the end of the roll. *)
LEMMA CharShows ==
  ASSUME NEW buf, NEW d \in Nat, NEW b, NEW e \in Nat, NEW text, NEW n \in Nat, NEW x \in Cells,
         Shown(buf, d, b, e, text, n), x + d = e + n
  PROVE  Shown([buf EXCEPT ![x] = text[n + 1]], d, b, e, text, n + 1)
<1>1. Cells \subseteq Int
  BY DEF Cells
<1> DEFINE nb == [buf EXCEPT ![x] = text[n + 1]]
<1>2. DOMAIN buf = Cells /\ \A i \in Cells : buf[i] = Roll(b, e, text, n, i + d)
  BY Zenon DEF Shown
<1>3. nb[x] = text[n + 1] /\ (\A i \in Cells : i # x => nb[i] = buf[i]) /\ DOMAIN nb = Cells
  BY <1>2, Zenon
<1>4. nb = [i \in DOMAIN nb |-> nb[i]]
  BY Zenon
<1> HIDE DEF nb
<1>5. ASSUME NEW i \in Cells PROVE nb[i] = Roll(b, e, text, n + 1, i + d)
  <2>0. i \in Int /\ x \in Int
    BY <1>1, Zenon
  <2>1. CASE i = x
    <3>1. (e + n) - e + 1 = n + 1 /\ e <= e + n /\ e + n < e + (n + 1)
      OBVIOUS
    <3>2. Roll(b, e, text, n + 1, e + n) = text[n + 1]
      BY <3>1, Zenon DEF Roll
    <3> QED BY <2>1, <3>2, <1>3, Zenon
  <2>2. CASE i # x
    <3>1. i + d < e + (n + 1) <=> i + d < e + n
      BY <2>0, <2>2
    <3>2. Roll(b, e, text, n + 1, i + d) = Roll(b, e, text, n, i + d)
      BY <3>1, Zenon DEF Roll
    <3> QED BY <2>2, <3>2, <1>2, <1>3, Zenon
  <2> QED BY <2>1, <2>2, Zenon
<1> QED BY <1>3, <1>4, <1>5, Zenon DEF Shown, nb

(* The cursor is in line l of the roll.  Lines leave the screen only when  *)
(* the cursor is in its last row.                                          *)
InLine(s, col, l, b, e, text, n) ==
  \E r, k \in Nat : \E buf :
    /\ s = [row |-> r, column |-> col, buf |-> buf]
    /\ r < Height /\ (k > 0 => r + 1 = Height) /\ r + k = l
    /\ Shown(buf, At(k), b, e, text, n)

(* new_line goes to the next line of the roll, on the screen or by moving  *)
(* the screen.                                                             *)
LEMMA NewLineGoesOn ==
  ASSUME NEW s, NEW col, NEW l \in Nat, NEW b, NEW e \in Nat, NEW text, NEW n \in Nat,
         InLine(s, col, l, b, e, text, n), e + n <= At(l + 1)
  PROVE  InLine(new_line(s), 0, l + 1, b, e, text, n)
<1>1. PICK r, k \in Nat : \E buf :
        /\ s = [row |-> r, column |-> col, buf |-> buf]
        /\ r < Height /\ (k > 0 => r + 1 = Height) /\ r + k = l
        /\ Shown(buf, At(k), b, e, text, n)
  BY Zenon DEF InLine
<1>2. PICK buf :
        /\ s = [row |-> r, column |-> col, buf |-> buf]
        /\ r < Height /\ (k > 0 => r + 1 = Height) /\ r + k = l
        /\ Shown(buf, At(k), b, e, text, n)
  BY <1>1, Zenon
<1>3. s.row = r /\ s.buf = buf
  BY <1>2, Zenon
<1>4. r < Height /\ (k > 0 => r + 1 = Height) /\ r + k = l /\ Height \in Nat
  BY <1>2, AtFacts, Zenon
<1>5. CASE r + 1 = Height
  <2>1. new_line(s) = [row |-> r, column |-> 0, buf |-> line_move_up(buf)]
    BY <1>3, <1>5, Zenon DEF new_line
  <2>2. e + n <= At(Height) + At(k)
    <3>1. l + 1 = Height + k
      BY <1>4, <1>5
    <3>2. At(Height + k) = At(Height) + At(k)
      BY <1>4, AtFacts, Zenon
    <3> QED BY <3>1, <3>2, Zenon
  <2>3. k + 1 \in Nat /\ r + (k + 1) = l + 1
    BY <1>4
  <2>4. At(k) \in Nat /\ At(k + 1) = At(k) + Width
    BY AtFacts, Zenon
  <2>5. Shown(line_move_up(buf), At(k + 1), b, e, text, n)
    BY <2>2, <2>4, <1>2, MoveUpShows, Zenon
  <2> QED BY <2>1, <2>3, <2>5, <1>4, <1>5, Zenon DEF InLine
<1>6. CASE r + 1 # Height
  <2>1. new_line(s) = [row |-> r + 1, column |-> 0, buf |-> buf]
    BY <1>3, <1>6, Zenon DEF new_line
  <2>2. r + 1 \in Nat /\ r + 1 < Height /\ (r + 1) + k = l + 1
    BY <1>4, <1>6
  <2>3. ~(k > 0)
    BY <1>4, <1>6, Zenon
  <2> QED BY <2>1, <2>2, <2>3, <1>2, Zenon DEF InLine
<1> QED BY <1>5, <1>6, Zenon

(* A state of the loop: n characters have been written, and the cursor is  *)
(* behind them.                                                            *)
OnRoll(s, b, e, text, n) ==
  \E l, col \in Nat : col < Width /\ At(l) + col = e + n /\ InLine(s, col, l, b, e, text, n)

(* What add_char does before it looks for the end of the row. *)
LEMMA CharInLine ==
  ASSUME NEW s, NEW col \in Nat, NEW l \in Nat, NEW b, NEW e \in Nat, NEW text, NEW n \in Nat,
         InLine(s, col, l, b, e, text, n), col < Width, At(l) + col = e + n
  PROVE  LET t == [s EXCEPT !.buf[s.row * Width + s.column] = text[n + 1], !.column = @ + 1] IN
         t.column = col + 1 /\ InLine(t, col + 1, l, b, e, text, n + 1)
<1>1. PICK r, k \in Nat : \E buf :
        /\ s = [row |-> r, column |-> col, buf |-> buf]
        /\ r < Height /\ (k > 0 => r + 1 = Height) /\ r + k = l
        /\ Shown(buf, At(k), b, e, text, n)
  BY Zenon DEF InLine
<1>2. PICK buf :
        /\ s = [row |-> r, column |-> col, buf |-> buf]
        /\ r < Height /\ (k > 0 => r + 1 = Height) /\ r + k = l
        /\ Shown(buf, At(k), b, e, text, n)
  BY <1>1, Zenon
<1>3. PICK h \in Nat : Cells = 0..(h - 1) /\ At(r) + Width <= h
  BY <1>2, Sizes, Zenon
<1>4. PICK a, d \in Nat : a = At(r) /\ d = At(k)
  BY AtFacts, Zenon
<1>5. a + Width <= h /\ a + d + col = e + n /\ Width \in Nat
  <2>1. At(r + k) = At(r) + At(k)
    BY AtFacts, Zenon
  <2> QED BY <2>1, <1>2, <1>3, <1>4, AtFacts, Zenon
<1>6. a + col \in 0..(h - 1) /\ (a + col) + d = e + n
  BY <1>5
<1> DEFINE nb == [buf EXCEPT ![a + col] = text[n + 1]]
<1>7. Shown(nb, d, b, e, text, n + 1)
  BY <1>2, <1>3, <1>4, <1>6, CharShows, Zenon
<1> DEFINE t == [row |-> r, column |-> col + 1, buf |-> nb]
<1>8. [s EXCEPT !.buf[s.row * Width + s.column] = text[n + 1], !.column = @ + 1] = t
  <2>1. s.row * Width + s.column = a + col /\ s.buf = buf /\ s.column = col
    BY <1>2, <1>4, Zenon DEF At
  <2> HIDE DEF nb
  <2>2. [s EXCEPT !.buf = nb, !.column = col + 1] = t
    <3>1. [s EXCEPT !.buf = nb] = [row |-> r, column |-> col, buf |-> nb]
      BY <1>2
    <3>2. [[row |-> r, column |-> col, buf |-> nb] EXCEPT !.column = col + 1] = t
      OBVIOUS
    <3> QED BY <3>1, <3>2, Zenon
  <2> QED BY <2>1, <2>2, Zenon DEF nb
<1> HIDE DEF nb
<1>9. InLine(t, col + 1, l, b, e, text, n + 1)
  BY <1>2, <1>4, <1>7, Zenon DEF InLine
<1>10. t.column = col + 1
  BY Zenon
<1> QED BY <1>8, <1>9, <1>10, Zenon

(* A character goes to the end of the roll, whether or not it is the last  *)
(* of its row and the row the last of the screen.                          *)
LEMMA CharGoesOn ==
  ASSUME NEW s, NEW b, NEW e \in Nat, NEW text, NEW n \in Nat, OnRoll(s, b, e, text, n)
  PROVE  OnRoll(add_char(s, text[n + 1]), b, e, text, n + 1)
<1>1. PICK l, col \in Nat : col < Width /\ At(l) + col = e + n /\ InLine(s, col, l, b, e, text, n)
  BY Zenon DEF OnRoll
<1> DEFINE t == [s EXCEPT !.buf[s.row * Width + s.column] = text[n + 1], !.column = @ + 1]
<1>2. t.column = col + 1 /\ InLine(t, col + 1, l, b, e, text, n + 1)
  BY <1>1, CharInLine, Zenon
<1>3. add_char(s, text[n + 1]) = IF t.column = Width THEN new_line(t) ELSE t
  BY Zenon DEF add_char
<1> HIDE DEF t
<1>4. PICK a, c \in Nat : a = At(l) /\ c = At(l + 1)
  <2>1. l + 1 \in Nat
    OBVIOUS
  <2> QED BY <2>1, AtFacts, Zenon
<1>5. a + col = e + n /\ c = a + Width /\ Width \in Nat \ {0} /\ col < Width
  BY <1>1, <1>4, AtFacts, Zenon
<1>6. n + 1 \in Nat /\ l + 1 \in Nat /\ col + 1 \in Nat /\ a + (col + 1) = e + (n + 1)
  BY <1>5
<1>7. CASE col + 1 = Width
  <2>1. e + (n + 1) <= c /\ c + 0 = e + (n + 1) /\ 0 \in Nat /\ 0 < Width
    BY <1>5, <1>6, <1>7
  <2>2. InLine(new_line(t), 0, l + 1, b, e, text, n + 1)
    BY <2>1, <1>2, <1>4, <1>6, NewLineGoesOn, Zenon
  <2>3. add_char(s, text[n + 1]) = new_line(t)
    BY <1>2, <1>3, <1>7, Zenon
  <2> QED BY <2>1, <2>2, <2>3, <1>4, <1>6, Zenon DEF OnRoll
<1>8. CASE col + 1 # Width
  <2>1. col + 1 < Width
    BY <1>5, <1>8
  <2>2. add_char(s, text[n + 1]) = t
    BY <1>2, <1>3, <1>8, Zenon
  <2> QED BY <2>1, <2>2, <1>2, <1>4, <1>6, Zenon DEF OnRoll
<1> QED BY <1>7, <1>8, Zenon

(* g is the screen after 0..k characters. *)
Steps(text, s, k, g) == g = [n \in 0..k |-> IF n = 0 THEN s ELSE add_char(g[n - 1], text[n])]

(* There is such a function for every k: take the least k for which there  *)
(* is none, and extend one for k - 1.                                      *)
LEMMA StepsExist ==
  ASSUME NEW text, NEW s, NEW k \in Nat
  PROVE  \E g : Steps(text, s, k, g)
<1> DEFINE Bad == {n \in Nat : ~ \E g : Steps(text, s, n, g)}
<1>1. SUFFICES ASSUME Bad # {} PROVE FALSE
  BY Zenon
<1>2. PICK m \in Bad : \A x \in Bad : m <= x
  <2>1. Bad \in SUBSET Nat
    BY Zenon
  <2> HIDE DEF Bad
  <2> QED BY <1>1, <2>1, HasLeast, Zenon
<1>3. m \in Nat /\ ~ \E g : Steps(text, s, m, g)
  BY <1>2, Zenon
<1>4. CASE m = 0
  <2> DEFINE g == [n \in 0..0 |-> s]
  <2>1. \A n \in 0..0 : n = 0
    OBVIOUS
  <2>2. g = [n \in 0..0 |-> IF n = 0 THEN s ELSE add_char(g[n - 1], text[n])]
    BY <2>1, Zenon
  <2> HIDE DEF g
  <2>3. Steps(text, s, 0, g)
    BY <2>2, Zenon DEF Steps
  <2> QED BY <1>3, <1>4, <2>3, Zenon
<1>5. CASE m # 0
  <2>1. m - 1 \in Nat /\ ~(m <= m - 1)
    BY <1>3, <1>5
  <2>2. PICK g : Steps(text, s, m - 1, g)
    BY <1>2, <2>1, Zenon
  <2> DEFINE h == [n \in 0..m |-> IF n = m THEN add_char(g[m - 1], text[m]) ELSE g[n]]
  <2>3. ASSUME NEW n \in 0..m PROVE h[n] = IF n = 0 THEN s ELSE add_char(h[n - 1], text[n])
    <3>1. CASE n = m
      <4>1. m - 1 \in 0..m /\ m - 1 # m /\ n # 0
        BY <1>3, <1>5, <3>1
      <4>2. h[m - 1] = g[m - 1] /\ h[m] = add_char(g[m - 1], text[m])
        BY <4>1, <3>1, Zenon
      <4> HIDE DEF h
      <4> QED BY <4>1, <4>2, <3>1, Zenon
    <3>2. CASE n # m
      <4>1. n \in 0..(m - 1)
        BY <1>3, <3>2
      <4>2. h[n] = g[n] /\ g[n] = IF n = 0 THEN s ELSE add_char(g[n - 1], text[n])
        BY <2>2, <3>2, <4>1, Zenon DEF Steps
      <4>3. n # 0 => n - 1 \in 0..m /\ n - 1 # m
        BY <1>3
      <4>4. n # 0 => h[n - 1] = g[n - 1]
        BY <4>3, Zenon
      <4> HIDE DEF h
      <4> QED BY <4>2, <4>4, Zenon
    <3> QED BY <3>1, <3>2, Zenon
  <2>4. h = [n \in 0..m |-> h[n]]
    BY Zenon
  <2> HIDE DEF h
  <2>5. Steps(text, s, m, h)
    BY <2>3, <2>4, Zenon DEF Steps
  <2> QED BY <1>3, <2>5, Zenon
<1> QED BY <1>4, <1>5, Zenon

(* So Written is what its recursive definition says. *)
LEMMA WrittenIs ==
  ASSUME NEW text, Len(text) \in Nat, NEW s
  PROVE  Steps(text, s, Len(text), Written(text, s))
<1>1. PICK g : Steps(text, s, Len(text), g)
  BY StepsExist, Zenon
<1>2. Written(text, s) =
        CHOOSE f : f = [n \in 0..Len(text) |-> IF n = 0 THEN s ELSE add_char(f[n - 1], text[n])]
  BY Zenon DEF Written
<1> QED BY <1>1, <1>2, Zenon DEF Steps

(* After any number of characters the screen is on the roll.               *)
LEMMA LoopOnRoll ==
  ASSUME NEW text, Len(text) \in Nat, NEW s, NEW b, NEW e \in Nat, OnRoll(s, b, e, text, 0)
  PROVE  OnRoll(Written(text, s)[Len(text)], b, e, text, Len(text))
<1> DEFINE w == Written(text, s)
           N == Len(text)
<1>1. Steps(text, s, N, w)
  BY WrittenIs, Zenon
<1>2. N \in Nat
  BY Zenon
<1> HIDE DEF w, N
<1> DEFINE Bad == {n \in 0..N : ~OnRoll(w[n], b, e, text, n)}
<1>3. SUFFICES ASSUME Bad # {} PROVE FALSE
  <2>1. N \in 0..N
    BY <1>2
  <2> QED BY <2>1, Zenon DEF w, N
<1>4. PICK m \in Bad : \A x \in Bad : m <= x
  <2>1. \A n \in 0..N : n \in Nat
    BY <1>2
  <2>2. Bad \in SUBSET Nat
    BY <2>1, Zenon
  <2> HIDE DEF Bad
  <2> QED BY <1>3, <2>2, HasLeast, Zenon
<1>5. m \in 0..N /\ ~OnRoll(w[m], b, e, text, m)
  BY <1>4, Zenon
<1>6. w[m] = IF m = 0 THEN s ELSE add_char(w[m - 1], text[m])
  BY <1>1, <1>5, Zenon DEF Steps
<1>7. m # 0
  BY <1>5, <1>6, Zenon
<1>8. m - 1 \in 0..N /\ m - 1 \in Nat /\ ~(m <= m - 1) /\ (m - 1) + 1 = m
  BY <1>2, <1>5, <1>7
<1>9. OnRoll(w[m - 1], b, e, text, m - 1)
  BY <1>4, <1>8, Zenon
<1>10. OnRoll(add_char(w[m - 1], text[(m - 1) + 1]), b, e, text, (m - 1) + 1)
  BY <1>8, <1>9, CharGoesOn, Zenon
<1> QED BY <1>5, <1>6, <1>7, <1>8, <1>10, Zenon

(* A text takes a line for each Width characters, and one for the rest.    *)
Lines(n) == n \div Width + 1

LEMMA PutGoesOn ==
  ASSUME NEW text, Len(text) \in Nat, NEW r \in Nat, r < Height, NEW b, b = [i \in Cells |-> b[i]]
  PROVE  /\ Lines(Len(text)) \in Nat
         /\ InLine(Put(text, [row |-> r, column |-> 0, buf |-> b]), 0, r + Lines(Len(text)),
                   b, At(r), text, Len(text))
<1> DEFINE s == [row |-> r, column |-> 0, buf |-> b]
<1>1. PICK n, e \in Nat : n = Len(text) /\ e = At(r)
  BY AtFacts, Zenon
<1>2. OnRoll(s, b, e, text, 0)
  <2>1. \A i \in Cells : i + 0 = i /\ ~(e <= i + 0 /\ i + 0 < e + 0)
    BY DEF Cells
  <2>2. At(0) = 0
    BY AtFacts DEF At
  <2>3. Shown(b, At(0), b, e, text, 0)
    <3>1. \A i \in Cells : Roll(b, e, text, 0, i + 0) = b[i]
      BY <2>1, Zenon DEF Roll
    <3> QED BY <2>2, <3>1, Zenon DEF Shown
  <2>4. ~(0 > 0) /\ r + 0 = r /\ 0 \in Nat /\ e + 0 = e
    OBVIOUS
  <2>5. InLine(s, 0, r, b, e, text, 0)
    BY <2>3, <2>4, Zenon DEF InLine
  <2>6. 0 < Width
    BY AtFacts
  <2> QED BY <2>4, <2>5, <2>6, <1>1, Zenon DEF OnRoll
<1> HIDE DEF s
<1> DEFINE t == Written(text, s)[Len(text)]
<1>3. OnRoll(t, b, e, text, n)
  BY <1>1, <1>2, LoopOnRoll, Zenon
<1>4. Put(text, s) = new_line(t)
  BY Zenon DEF Put
<1> HIDE DEF t
<1>5. PICK l, col \in Nat : col < Width /\ At(l) + col = e + n /\ InLine(t, col, l, b, e, text, n)
  BY <1>3, Zenon DEF OnRoll
<1>6. PICK a, c \in Nat : a = At(l) /\ c = At(l + 1)
  <2>1. l + 1 \in Nat
    OBVIOUS
  <2> QED BY <2>1, AtFacts, Zenon
<1>7. a + col = e + n /\ c = a + Width /\ Width \in Nat \ {0} /\ col < Width /\ a = l * Width /\ e = r * Width
  BY <1>1, <1>5, <1>6, AtFacts, Zenon DEF At
<1>8. e + n <= c
  BY <1>7
<1>9. InLine(new_line(t), 0, l + 1, b, e, text, n)
  BY <1>5, <1>6, <1>8, NewLineGoesOn, Zenon
<1>10. l >= r /\ n \div Width = l - r
  <2>1. l * Width + col = r * Width + n /\ col < Width
    BY <1>7, Zenon
  <2> QED BY <2>1, LinesBetween
<1>13. Lines(n) \in Nat /\ r + Lines(n) = l + 1
  BY <1>10 DEF Lines
<1> QED BY <1>1, <1>4, <1>9, <1>13, Zenon DEF s

-----------------------------------------------------------------------------
(* The lines. *)

(* From the cursor on the screen is as it was found, or, once lines have   *)
(* left it, blank.                                                         *)
AllFrom(r, b, v) == \A i \in Cells : i >= At(r) => b[i] = v
Background(r, b) == AllFrom(r, b, Old) \/ (r + 1 = Height /\ AllFrom(r, b, Blank))

(* The refinement mapping as operators of the screen. *)
ScreenLine(b, y) == [j \in 1..Width |-> b[(y - 1) * Width + j - 1]]
Page(r, b) == [y \in 1..r |-> ScreenLine(b, y)]
Left(r, b) == IF b[r * Width] = Old THEN Height - r ELSE 0

(* Line y of the roll when text has been written. *)
PaperLine(b, r, text, y) == [j \in 1..Width |-> Roll(b, At(r), text, Len(text), At(y - 1) + (j - 1))]

IsPaperLine(line, b, r, text, y) == line = PaperLine(b, r, text, y)

LEMMA LeftIs ==
  ASSUME NEW r \in Nat, r < Height, NEW b
  PROVE  /\ AllFrom(r, b, Old) => Left(r, b) = Height - r
         /\ AllFrom(r, b, Blank) => Left(r, b) = 0
<1>1. At(r) \in Cells /\ At(r) >= At(r)
  <2>1. PICK h \in Nat : Cells = 0..(h - 1) /\ At(r) + Width <= h
    BY Sizes, Zenon
  <2>2. PICK a \in Nat : a = At(r)
    BY AtFacts, Zenon
  <2>3. a + Width <= h /\ Width \in Nat \ {0}
    BY <2>1, <2>2, AtFacts, Zenon
  <2>4. a \in 0..(h - 1) /\ a >= a
    BY <2>3
  <2> QED BY <2>1, <2>2, <2>4, Zenon
<1>2. Old # Blank
  BY ScreenAssumption, Zenon
<1>3. Left(r, b) = IF b[At(r)] = Old THEN Height - r ELSE 0
  BY Zenon DEF Left, At
<1> QED BY <1>1, <1>2, <1>3, Zenon DEF AllFrom

(* SubSeq(s, a + 1, z) has the elements behind the first a, up to z. *)
IsPart(s, a, z) ==
  /\ Len(SubSeq(s, a + 1, z)) = z - a
  /\ SubSeq(s, a + 1, z) = [j \in 1..(z - a) |-> s[a + j]]

LEMMA PartIs ==
  ASSUME NEW S, NEW s \in Seq(S), NEW a \in Nat, NEW z \in Nat, a <= z, z <= Len(s)
  PROVE  IsPart(s, a, z)
<1> DEFINE p == SubSeq(s, a + 1, z)
<1>1. \A i \in (a + 1)..z : s[i] \in S
  OBVIOUS
<1>2. a + 1 \in Int /\ z \in Int
  OBVIOUS
<1>3. /\ p \in Seq(S) /\ Len(p) = IF a + 1 <= z THEN z - (a + 1) + 1 ELSE 0
      /\ \A i \in 1..(z - (a + 1) + 1) : p[i] = s[a + 1 + i - 1]
  BY <1>1, <1>2, SubSeqProperties
<1>4. (IF a + 1 <= z THEN z - (a + 1) + 1 ELSE 0) = z - a /\ z - (a + 1) + 1 = z - a
  OBVIOUS
<1> HIDE DEF p
<1>5. Len(p) = z - a /\ p \in Seq(S) /\ \A i \in 1..(z - a) : p[i] = s[a + 1 + i - 1]
  BY <1>3, <1>4, Zenon
<1>6. \A i \in 1..(z - a) : a + 1 + i - 1 = a + i
  OBVIOUS
<1>7. DOMAIN p = 1..(z - a) /\ p = [i \in DOMAIN p |-> p[i]]
  BY <1>5, LenProperties, Zenon
<1>8. p = [j \in 1..(z - a) |-> s[a + j]]
  BY <1>5, <1>6, <1>7, Zenon
<1> QED BY <1>5, <1>8, Zenon DEF p, IsPart

(* What a part of a text is. *)
LEMMA ChunkIs ==
  ASSUME NEW S, NEW text \in Seq(S), NEW i \in 1..Lines(Len(text))
  PROVE  /\ At(i - 1) \in Nat /\ At(i - 1) <= Len(text)
         /\ DOMAIN Paper!Chunks(text) = 1..Lines(Len(text))
         /\ Len(Paper!Chunks(text)[i]) \in Nat
         /\ \A j \in 1..Width :
              /\ j <= Len(Paper!Chunks(text)[i]) <=> At(i - 1) + (j - 1) < Len(text)
              /\ j <= Len(Paper!Chunks(text)[i]) => Paper!Chunks(text)[i][j] = text[At(i - 1) + (j - 1) + 1]
<1>1. PICK n \in Nat : n = Len(text)
  BY SMT
<1> DEFINE q == n \div Width
           m == n % Width
<1>2. Width \in Nat \ {0}
  BY AtFacts, Zenon
<1>3. q \in Nat /\ m \in 0..(Width - 1) /\ n = Width * q + m
  BY <1>2
<1> HIDE DEF q, m
<1>4. i \in 1..(q + 1)
  BY <1>1, Zenon DEF Lines, q
<1>5. PICK a \in Nat : a = At(i - 1) /\ i * Width = a + Width /\ (i - 1) * Width = a
  <2>1. i - 1 \in Nat /\ (i - 1) + 1 = i
    BY <1>3, <1>4
  <2> QED BY <2>1, AtFacts, Zenon DEF At
<1>6. a <= n
  <2>1. i - 1 <= q /\ i - 1 \in Nat
    BY <1>3, <1>4
  <2>2. (i - 1) * Width <= q * Width
    BY <2>1, <1>2, <1>3
  <2>3. q * Width = Width * q
    BY <1>2, <1>3
  <2> QED BY <2>2, <2>3, <1>2, <1>3, <1>5
<1> DEFINE z == IF a + Width < n THEN a + Width ELSE n
           c == SubSeq(text, a + 1, z)
<1>7. Paper!Chunks(text)[i] = c /\ DOMAIN Paper!Chunks(text) = 1..Lines(Len(text))
  <2>1. Paper!Chunks(text) = [x \in 1..Lines(Len(text)) |->
          SubSeq(text, (x - 1) * Width + 1, IF x * Width < Len(text) THEN x * Width ELSE Len(text))]
    BY Zenon DEF Paper!Chunks, Lines
  <2> QED BY <2>1, <1>1, <1>5, Zenon
<1>8. z \in Nat /\ a <= z /\ z <= n
  BY <1>2, <1>6
<1>9. /\ Len(c) = z - a /\ Len(c) \in Nat
      /\ \A j \in 1..(z - a) : c[j] = text[a + j]
  <2> HIDE DEF z
  <2>1. Len(c) = z - a /\ c = [j \in 1..(z - a) |-> text[a + j]]
    <3>1. IsPart(text, a, z)
      BY <1>1, <1>8, PartIs, Zenon
    <3> QED BY <3>1, Zenon DEF IsPart
  <2>2. z - a \in Nat
    BY <1>8
  <2> QED BY <2>1, <2>2, Zenon
<1>10. ASSUME NEW j \in 1..Width
       PROVE  /\ j <= z - a <=> a + (j - 1) < n
              /\ a + j = a + (j - 1) + 1
              /\ j <= z - a => j \in 1..(z - a)
  BY <1>2, <1>6, <1>8
<1> HIDE DEF z, c
<1> QED BY <1>1, <1>5, <1>6, <1>7, <1>9, <1>10, Zenon

(* The lines that Teletype adds are those of the roll behind line r. *)
LEMMA LinesAre ==
  ASSUME NEW S, NEW text \in Seq(S), NEW r \in Nat, r < Height, NEW b, Background(r, b),
         NEW i \in 1..Lines(Len(text))
  PROVE  IsPaperLine(Paper!Padded(Paper!Chunks(text)[i], IF i <= Left(r, b) THEN Old ELSE Blank), b, r, text, r + i)
<1> DEFINE c == Paper!Chunks(text)[i]
           fill == IF i <= Left(r, b) THEN Old ELSE Blank
<1>1. PICK a, e, n \in Nat : a = At(i - 1) /\ e = At(r) /\ n = Len(text)
  <2>1. At(i - 1) \in Nat
    BY ChunkIs, Zenon
  <2>2. Len(text) \in Nat
    BY LenProperties, Zenon
  <2> QED BY <2>1, <2>2, AtFacts, Zenon
<1>2. \A j \in 1..Width :
        /\ j <= Len(c) <=> a + (j - 1) < n
        /\ j <= Len(c) => c[j] = text[a + (j - 1) + 1]
  BY <1>1, ChunkIs, Zenon
<1>3. i \in Nat \ {0} /\ (r + i) - 1 = r + (i - 1) /\ i - 1 \in Nat
  <2>1. \A x : i \in 1..x => i \in Int /\ i >= 1
    OBVIOUS
  <2>2. i \in Int /\ i >= 1
    BY <2>1, Zenon
  <2> QED BY <2>2
<1>4. At((r + i) - 1) = e + a
  <2>1. At(r + (i - 1)) = At(r) + At(i - 1)
    BY <1>3, AtFacts, Zenon
  <2> QED BY <2>1, <1>1, <1>3, Zenon
<1>5. PICK h \in Nat : Cells = 0..(h - 1) /\ h = At(Height)
  BY Sizes, Zenon
<1>6. Width \in Nat \ {0} /\ Height \in Nat \ {0}
  BY AtFacts, Zenon
(* The line is on the screen, or behind it. *)
<1>7. (r + (i - 1) < Height /\ e + a + Width <= h) \/ (~(r + (i - 1) < Height) /\ h <= e + a)
  <2>1. PICK l \in Nat : l = r + (i - 1)
    BY <1>3
  <2>2. At(l) = e + a
    BY <2>1, <1>3, <1>4, Zenon
  <2>3. CASE l < Height
    <3>1. At(l) + Width <= At(Height)
      BY <2>3, <1>6, AtFacts, Zenon
    <3> QED BY <2>1, <2>2, <2>3, <3>1, <1>5, Zenon
  <2>4. CASE ~(l < Height)
    <3>1. l - Height \in Nat /\ Height + (l - Height) = l /\ Height \in Nat
      BY <2>4, <1>6
    <3>2. At(l) = At(Height) + At(l - Height) /\ At(l - Height) \in Nat
      <4>1. At(Height + (l - Height)) = At(Height) + At(l - Height) /\ At(l - Height) \in Nat
        BY <3>1, AtFacts, Zenon
      <4> QED BY <3>1, <4>1, Zenon
    <3>3. PICK g \in Nat : g = At(l - Height)
      BY <3>2, Zenon
    <3>4. e + a = h + g
      BY <2>2, <3>2, <3>3, <1>5, Zenon
    <3>5. h <= e + a
      BY <3>4
    <3> QED BY <2>1, <2>4, <3>5, Zenon
  <2> QED BY <2>3, <2>4, Zenon
<1> HIDE DEF c, fill
<1>8. ASSUME NEW j \in 1..Width
      PROVE  (IF j <= Len(c) THEN c[j] ELSE fill) = Roll(b, e, text, n, e + a + (j - 1))
  <2>1. j - 1 \in Nat /\ j - 1 < Width
    BY <1>6
  <2>2. PICK x \in Nat : x = j - 1
    BY <2>1, Zenon
  <2>3. x < Width /\ (j <= Len(c) <=> a + x < n) /\ (j <= Len(c) => c[j] = text[a + x + 1])
    BY <2>1, <2>2, <1>2, Zenon
  <2>4. CASE a + x < n
    <3>1. e <= e + a + x /\ e + a + x < e + n /\ (e + a + x) - e + 1 = a + x + 1
      BY <2>4
    <3>2. Roll(b, e, text, n, e + a + x) = text[a + x + 1]
      BY <3>1, Zenon DEF Roll
    <3> QED BY <2>2, <2>3, <2>4, <3>2, Zenon
  <2>5. CASE ~(a + x < n)
    <3>1. ~(e + a + x < e + n) /\ e + a + x >= e
      BY <2>5
    <3>2. Roll(b, e, text, n, e + a + x) = IF e + a + x \in Cells THEN b[e + a + x] ELSE Blank
      BY <3>1, Zenon DEF Roll
    <3>3. CASE r + (i - 1) < Height /\ e + a + Width <= h
      <4>1. e + a + x \in 0..(h - 1)
        BY <2>3, <3>3, <1>6
      <4>2. Roll(b, e, text, n, e + a + x) = b[e + a + x] /\ e + a + x \in Cells
        BY <3>2, <4>1, <1>5, Zenon
      <4>3. i <= Height - r /\ ~(i <= 0)
        BY <1>3, <1>6, <3>3
      <4>4. b[e + a + x] = fill
        <5>1. CASE AllFrom(r, b, Old)
          <6>1. Left(r, b) = Height - r
            BY <5>1, LeftIs, Zenon
          <6> QED BY <5>1, <6>1, <4>2, <4>3, <3>1, <1>1, Zenon DEF fill, AllFrom
        <5>2. CASE AllFrom(r, b, Blank)
          <6>1. Left(r, b) = 0
            BY <5>2, LeftIs, Zenon
          <6> QED BY <5>2, <6>1, <4>2, <4>3, <3>1, <1>1, Zenon DEF fill, AllFrom
        <5> QED BY <5>1, <5>2, Zenon DEF Background
      <4> QED BY <2>2, <2>3, <2>5, <4>2, <4>4, Zenon
    <3>4. CASE ~(r + (i - 1) < Height) /\ h <= e + a
      <4>1. e + a + x \notin 0..(h - 1)
        BY <3>4
      <4>2. Roll(b, e, text, n, e + a + x) = Blank
        BY <3>2, <4>1, <1>5, Zenon
      <4>3. ~(i <= Height - r) /\ ~(i <= 0)
        BY <1>3, <1>6, <3>4
      <4>4. fill = Blank
        <5>1. Left(r, b) = Height - r \/ Left(r, b) = 0
          BY LeftIs, Zenon DEF Background
        <5> QED BY <5>1, <4>3, Zenon DEF fill
      <4> QED BY <2>2, <2>3, <2>5, <4>2, <4>4, Zenon
    <3> QED BY <3>3, <3>4, <1>7, Zenon
  <2> QED BY <2>4, <2>5, Zenon
<1>9. PaperLine(b, r, text, r + i) = [j \in 1..Width |-> Roll(b, e, text, n, e + a + (j - 1))]
  BY <1>1, <1>4, Zenon DEF PaperLine
<1>10. Paper!Padded(c, fill) = [j \in 1..Width |-> IF j <= Len(c) THEN c[j] ELSE fill]
  BY Zenon DEF Paper!Padded
<1> QED BY <1>8, <1>9, <1>10, Zenon DEF c, fill, IsPaperLine

(* Everything on the roll, when text has been written behind the lines of  *)
(* the screen.                                                             *)
All(b, r, text) == [y \in 1..(r + Lines(Len(text))) |-> PaperLine(b, r, text, y)]

(* The lines on the screen before are the first ones of the roll. *)
LEMMA PageIs ==
  ASSUME NEW S, NEW text \in Seq(S), NEW r \in Nat, r < Height, NEW b, NEW y \in 1..r
  PROVE  IsPaperLine(ScreenLine(b, y), b, r, text, y)
<1>1. PICK a, e, n \in Nat : a = At(y - 1) /\ e = At(r) /\ n = Len(text) /\ a + Width <= e
  <2>1. y - 1 \in Nat /\ y - 1 < r
    OBVIOUS
  <2>2. Len(text) \in Nat
    BY LenProperties, Zenon
  <2> QED BY <2>1, <2>2, AtFacts, Zenon
<1>2. PICK h \in Nat : Cells = 0..(h - 1) /\ e + Width <= h
  BY <1>1, Sizes, Zenon
<1>3. Width \in Nat
  BY AtFacts, Zenon
<1>4. ASSUME NEW j \in 1..Width PROVE b[a + (j - 1)] = Roll(b, e, text, n, a + (j - 1))
  <2>1. a + (j - 1) \in 0..(h - 1) /\ ~(e <= a + (j - 1))
    <3>1. a + Width <= e /\ e + Width <= h
      BY <1>1, <1>2, Zenon
    <3> QED BY <3>1, <1>3
  <2> QED BY <2>1, <1>2, Zenon DEF Roll
<1>5. (y - 1) * Width = a
  BY <1>1, Zenon DEF At
<1>6. \A j \in 1..Width : a + j - 1 = a + (j - 1)
  BY <1>3, Zenon
<1> QED BY <1>1, <1>4, <1>5, <1>6, Zenon DEF PaperLine, ScreenLine, IsPaperLine

(* What Teletype's Write calls all. *)
LEMMA AllIs ==
  ASSUME NEW S, NEW text \in Seq(S), NEW r \in Nat, r < Height, NEW b, Background(r, b)
  PROVE  LET lines == [i \in DOMAIN Paper!Chunks(text) |->
                         Paper!Padded(Paper!Chunks(text)[i], IF i <= Left(r, b) THEN Old ELSE Blank)]
         IN  /\ Len(lines) = Lines(Len(text)) /\ Lines(Len(text)) \in Nat \ {0}
             /\ Page(r, b) \o lines = All(b, r, text)
             /\ \E T : All(b, r, text) \in Seq(T)
             /\ Len(All(b, r, text)) = r + Lines(Len(text))
<1> DEFINE lines == [i \in DOMAIN Paper!Chunks(text) |->
                       Paper!Padded(Paper!Chunks(text)[i], IF i <= Left(r, b) THEN Old ELSE Blank)]
           T == {PaperLine(b, r, text, y) : y \in Nat}
<1>1. PICK L \in Nat \ {0} : L = Lines(Len(text))
  <2>1. PICK n \in Nat : n = Len(text)
    BY LenProperties, Zenon
  <2>2. n \div Width + 1 \in Nat \ {0}
    <3>1. Width \in Nat \ {0}
      BY AtFacts, Zenon
    <3> QED BY <3>1
  <2> QED BY <2>1, <2>2, Zenon DEF Lines
<1>2. lines = [i \in 1..L |-> PaperLine(b, r, text, r + i)]
  <2>1. 1 \in 1..L
    OBVIOUS
  <2>2. DOMAIN Paper!Chunks(text) = 1..L
    BY <1>1, <2>1, ChunkIs, Zenon
  <2>3. ASSUME NEW i \in 1..L
        PROVE  IsPaperLine(Paper!Padded(Paper!Chunks(text)[i], IF i <= Left(r, b) THEN Old ELSE Blank),
                           b, r, text, r + i)
    BY <1>1, LinesAre, Zenon
  <2> QED BY <2>2, <2>3, Zenon DEF IsPaperLine
<1>3. Page(r, b) = [y \in 1..r |-> PaperLine(b, r, text, y)]
  <2>1. ASSUME NEW y \in 1..r
        PROVE  IsPaperLine(ScreenLine(b, y), b, r, text, y)
    BY PageIs, Zenon
  <2> QED BY <2>1, Zenon DEF Page, IsPaperLine
<1>4. \A i \in 1..L : r + i \in Nat
  OBVIOUS
<1>5. lines \in Seq(T) /\ Len(lines) = L
  <2> HIDE DEF lines
  <2>1. \A i \in 1..L : PaperLine(b, r, text, r + i) \in T
    BY <1>4, Zenon
  <2> HIDE DEF T
  <2> QED BY <1>2, <2>1
<1>6. Page(r, b) \in Seq(T) /\ Len(Page(r, b)) = r
  <2>1. \A y \in 1..r : PaperLine(b, r, text, y) \in T
    <3>1. \A y \in 1..r : y \in Nat
      OBVIOUS
    <3> QED BY <3>1, Zenon
  <2> HIDE DEF T
  <2> QED BY <1>3, <2>1
<1> HIDE DEF lines, T
<1> DEFINE both == Page(r, b) \o lines
<1>7. /\ both \in Seq(T) /\ Len(both) = r + L
      /\ \A y \in 1..(r + L) : both[y] = IF y <= r THEN Page(r, b)[y] ELSE lines[y - r]
  <2> DEFINE p == Page(r, b)
  <2>1. p \in Seq(T) /\ Len(p) = r /\ lines \in Seq(T) /\ Len(lines) = L
    BY <1>5, <1>6, Zenon
  <2> HIDE DEF p
  <2>2. /\ p \o lines \in Seq(T) /\ Len(p \o lines) = r + L
        /\ \A y \in 1..(r + L) : (p \o lines)[y] = IF y <= r THEN p[y] ELSE lines[y - r]
    <3>1. /\ p \o lines \in Seq(T) /\ Len(p \o lines) = Len(p) + Len(lines)
          /\ \A y \in 1..(Len(p) + Len(lines)) : (p \o lines)[y] = IF y <= Len(p) THEN p[y] ELSE lines[y - Len(p)]
      <4>1. p \in Seq(T) /\ lines \in Seq(T)
        BY <2>1, Zenon
      <4> QED BY <4>1, ConcatProperties, Zenon
    <3> QED BY <2>1, <3>1, Zenon
  <2> QED BY <2>2, Zenon DEF p
<1> HIDE DEF both
<1>8. ASSUME NEW y \in 1..(r + L) PROVE both[y] = PaperLine(b, r, text, y)
  <2>1. CASE y <= r
    <3>1. y \in 1..r
      BY <2>1
    <3> QED BY <2>1, <3>1, <1>3, <1>7, Zenon
  <2>2. CASE ~(y <= r)
    <3>1. y - r \in 1..L /\ r + (y - r) = y
      BY <2>2
    <3>2. lines[y - r] = PaperLine(b, r, text, r + (y - r))
      BY <3>1, <1>2, Zenon
    <3> QED BY <2>2, <3>1, <3>2, <1>7, Zenon
  <2> QED BY <2>1, <2>2, Zenon
<1>9. DOMAIN both = 1..(r + L) /\ both = [y \in DOMAIN both |-> both[y]]
  BY <1>7, LenProperties, Zenon
<1>10. both = All(b, r, text)
  BY <1>1, <1>8, <1>9, Zenon DEF All
<1> QED BY <1>1, <1>5, <1>7, <1>10, Zenon DEF both, lines

-----------------------------------------------------------------------------
(* The refinement. *)

(* Row r2 of screen buf is where the cursor is after a call, and the       *)
(* screen shows the roll from line k on.                                   *)
After(r2, buf, k, r, b, text) ==
  /\ r2 < Height /\ (k > 0 => r2 + 1 = Height) /\ r2 + k = r + Lines(Len(text))
  /\ Shown(buf, At(k), b, At(r), text, Len(text))

(* The lines that can be seen of all that were written, and how many are   *)
(* still as they were found when n more have been written.                 *)
AreLast(page, all) == page = IF Len(all) < Height THEN all ELSE SubSeq(all, Len(all) - Height + 2, Len(all))
Fewer(left, n) == IF n < left THEN left - n ELSE 0

(* Behind the cursor nothing has been written. *)
LEMMA BackgroundIs ==
  ASSUME NEW S, NEW text \in Seq(S), NEW r \in Nat, r < Height, NEW b, Background(r, b),
         NEW r2 \in Nat, NEW k \in Nat, NEW buf, After(r2, buf, k, r, b, text)
  PROVE  \/ k = 0 /\ AllFrom(r, b, Old) /\ AllFrom(r2, buf, Old)
         \/ k > 0 /\ AllFrom(r2, buf, Blank)
<1>1. PICK n, L \in Nat : n = Len(text) /\ L = Lines(n) /\ L >= 1
  <2>1. PICK n \in Nat : n = Len(text)
    BY LenProperties, Zenon
  <2>2. Width \in Nat \ {0}
    BY AtFacts, Zenon
  <2>3. n \div Width + 1 \in Nat /\ n \div Width + 1 >= 1
    BY <2>2
  <2> QED BY <2>1, <2>3, Zenon DEF Lines
<1>2. /\ r2 < Height /\ (k > 0 => r2 + 1 = Height) /\ r2 + k = r + L
      /\ Shown(buf, At(k), b, At(r), text, n)
  BY <1>1, Zenon DEF After
<1>3. Height \in Nat /\ Width \in Nat \ {0}
  BY AtFacts, Zenon
<1>4. PICK h \in Nat : Cells = 0..(h - 1) /\ h = At(Height)
  BY Sizes, Zenon
<1>5. PICK d, e, g, a \in Nat : d = At(k) /\ e = At(r) /\ g = At(L) /\ a = At(r2)
  BY AtFacts, Zenon
<1>6. a + d = e + g
  <2>1. At(r2 + k) = At(r2) + At(k) /\ At(r + L) = At(r) + At(L)
    BY AtFacts, Zenon
  <2> QED BY <2>1, <1>2, <1>5, Zenon
<1>7. n < g
  <2>1. n = Width * (n \div Width) + (n % Width) /\ n % Width < Width /\ n \div Width \in Nat
    BY <1>3
  <2>2. PICK q \in Nat : q = n \div Width
    BY <2>1, Zenon
  <2>3. L = q + 1
    BY <2>2, <1>1, Zenon DEF Lines
  <2>4. g = (q + 1) * Width
    BY <2>3, <1>5, Zenon DEF At
  <2>5. (q + 1) * Width = Width * q + Width
    BY <1>3
  <2> QED BY <2>1, <2>2, <2>4, <2>5, <1>3
<1>8. ASSUME NEW i \in Cells, i >= a
      PROVE  buf[i] = IF i + d \in Cells THEN b[i + d] ELSE Blank
  <2>1. i \in 0..(h - 1)
    BY <1>4, Zenon
  <2>2. ~(i + d < e + n)
    BY <2>1, <1>6, <1>7, <1>8
  <2>3. buf[i] = Roll(b, e, text, n, i + d)
    BY <1>2, <1>5, Zenon DEF Shown
  <2> QED BY <2>2, <2>3, Zenon DEF Roll
<1>9. CASE k = 0
  <2>1. d = 0
    BY <1>5, <1>9, <1>3 DEF At
  <2>2. r2 = r + L /\ r + 1 # Height
    BY <1>1, <1>2, <1>3, <1>9
  <2>3. AllFrom(r, b, Old)
    BY <2>2, Zenon DEF Background
  <2>4. ASSUME NEW i \in Cells, i >= a PROVE buf[i] = Old
    <3>1. i \in 0..(h - 1)
      BY <1>4, Zenon
    <3>2. i + d = i /\ i >= e
      BY <3>1, <2>1, <2>4, <1>6
    <3> QED BY <3>2, <2>3, <2>4, <1>5, <1>8, Zenon DEF AllFrom
  <2> QED BY <1>5, <1>9, <2>3, <2>4, Zenon DEF AllFrom
<1>10. CASE k # 0
  <2>1. k > 0
    BY <1>10
  <2>2. a + Width = h /\ d >= Width
    <3>1. r2 + 1 = Height /\ 0 \in Nat /\ 0 < k
      BY <2>1, <1>2, Zenon
    <3>2. At(r2 + 1) = At(r2) + Width /\ At(0) + Width <= At(k)
      BY <3>1, AtFacts, Zenon
    <3>3. At(0) = 0
      BY <1>3 DEF At
    <3>4. 0 + Width <= d /\ h = a + Width
      BY <3>1, <3>2, <3>3, <1>4, <1>5, Zenon
    <3> QED BY <3>4, <1>3
  <2>3. ASSUME NEW i \in Cells, i >= a PROVE buf[i] = Blank
    <3>1. i \in 0..(h - 1)
      BY <1>4, Zenon
    <3>2. i + d \notin 0..(h - 1)
      BY <3>1, <2>2, <2>3, <1>3
    <3> QED BY <3>2, <1>4, <1>8, <2>3, Zenon
  <2> QED BY <2>1, <2>3, <1>5, Zenon DEF AllFrom
<1> QED BY <1>9, <1>10, Zenon

HasLines(all, n) == n \in Nat /\ Len(all) = n /\ \E T : all \in Seq(T)

(* The lines above the cursor are the last of everything written. *)
LEMMA PageAfter ==
  ASSUME NEW text, Lines(Len(text)) \in Nat, NEW r \in Nat, r < Height, NEW b,
         NEW r2 \in Nat, NEW k \in Nat, NEW buf, After(r2, buf, k, r, b, text),
         HasLines(All(b, r, text), r + Lines(Len(text)))
  PROVE  AreLast(Page(r2, buf), All(b, r, text))
<1> DEFINE all == All(b, r, text)
<1>0. PICK T : all \in Seq(T) /\ Len(all) = r + Lines(Len(text))
  BY Zenon DEF HasLines
<1>1. PICK L \in Nat : L = Lines(Len(text))
  BY Zenon
<1>2. /\ r2 < Height /\ (k > 0 => r2 + 1 = Height) /\ r2 + k = r + L
      /\ Shown(buf, At(k), b, At(r), text, Len(text))
  BY <1>1, Zenon DEF After
<1>3. Height \in Nat /\ Width \in Nat \ {0}
  BY AtFacts, Zenon
<1>4. PICK h \in Nat : Cells = 0..(h - 1) /\ \A a \in Nat : a < Height => At(a) + Width <= h
  BY Sizes, Zenon
<1>5. ASSUME NEW y \in 1..r2 PROVE ScreenLine(buf, y) = PaperLine(b, r, text, k + y)
  <2>1. y - 1 \in Nat /\ y - 1 < Height /\ (k + y) - 1 = (y - 1) + k
    BY <1>2, <1>3
  <2>2. PICK a, d \in Nat : a = At(y - 1) /\ d = At(k) /\ At((k + y) - 1) = a + d /\ a + Width <= h
    <3>1. At(y - 1) \in Nat /\ At(k) \in Nat /\ At((y - 1) + k) = At(y - 1) + At(k)
      BY <2>1, AtFacts, Zenon
    <3> QED BY <2>1, <3>1, <1>4, Zenon
  <2>3. ASSUME NEW j \in 1..Width PROVE a + j - 1 \in 0..(h - 1) /\ (a + j - 1) + d = (a + d) + (j - 1)
    <3>1. a + Width <= h
      BY <2>2, Zenon
    <3> QED BY <3>1, <1>3
  <2>4. \A j \in 1..Width : buf[a + j - 1] = Roll(b, At(r), text, Len(text), (a + d) + (j - 1))
    BY <2>2, <2>3, <1>2, <1>4, Zenon DEF Shown
  <2>5. (y - 1) * Width = a
    BY <2>2, Zenon DEF At
  <2> QED BY <2>2, <2>4, <2>5, Zenon DEF ScreenLine, PaperLine
<1>6. \A y \in 1..r2 : k + y \in 1..(r + L)
  BY <1>2
<1>7. Page(r2, buf) = [y \in 1..r2 |-> all[k + y]]
  <2>1. \A y \in 1..r2 : all[k + y] = PaperLine(b, r, text, k + y)
    BY <1>1, <1>6, Zenon DEF All
  <2> QED BY <2>1, <1>5, Zenon DEF Page
<1> SUFFICES AreLast(Page(r2, buf), all)
  BY Zenon
<1> HIDE DEF all
<1>8. PICK z \in Nat : z = Len(all) /\ z = r2 + k /\ k <= z /\ z - k = r2
  <2>1. r2 + k \in Nat /\ k <= r2 + k /\ (r2 + k) - k = r2
    OBVIOUS
  <2> QED BY <2>1, <1>0, <1>1, <1>2, Zenon
<1>9. CASE z < Height
  <2>1. k = 0 /\ r2 = z
    BY <1>2, <1>3, <1>8, <1>9
  <2>2. \A y \in 1..r2 : 0 + y = y
    OBVIOUS
  <2>3. all = [y \in 1..r2 |-> all[y]]
    <3>1. DOMAIN all = 1..r2 /\ all = [y \in DOMAIN all |-> all[y]]
      BY <1>0, <1>8, <2>1, LenProperties, Zenon
    <3> QED BY <3>1, Zenon
  <2> QED BY <1>7, <1>8, <1>9, <2>1, <2>2, <2>3, Zenon DEF AreLast
<1>10. CASE ~(z < Height)
  <2>1. z - Height + 2 = k + 1
    <3>1. r2 < Height /\ (k > 0 => r2 + 1 = Height) /\ z = r2 + k
      BY <1>2, <1>8, Zenon
    <3> QED BY <3>1, <1>3, <1>10
  <2>2. z <= Len(all)
    BY <1>8
  <2>3. IsPart(all, k, z)
    BY <1>0, <1>8, <2>2, PartIs, Zenon
  <2> QED BY <1>7, <1>8, <1>10, <2>1, <2>3, Zenon DEF IsPart, AreLast
<1> QED BY <1>9, <1>10, Zenon

(* As many lines as were written are no longer as they were found. *)
LEMMA LeftAfter ==
  ASSUME NEW S, NEW text \in Seq(S), NEW r \in Nat, r < Height, NEW b, Background(r, b),
         NEW r2 \in Nat, NEW k \in Nat, NEW buf, After(r2, buf, k, r, b, text),
         NEW L \in Nat \ {0}, L = Lines(Len(text))
  PROVE  Left(r2, buf) = Fewer(Left(r, b), L) /\ Background(r2, buf)
<1>1. r2 < Height /\ (k > 0 => r2 + 1 = Height) /\ r2 + k = r + L
  BY Zenon DEF After
<1>2. Height \in Nat
  BY AtFacts, Zenon
<1>3. CASE k = 0 /\ AllFrom(r, b, Old) /\ AllFrom(r2, buf, Old)
  <2>1. Left(r, b) = Height - r /\ Left(r2, buf) = Height - r2
    BY <1>1, <1>3, LeftIs, Zenon
  <2>2. L < Height - r /\ Height - r2 = (Height - r) - L
    BY <1>1, <1>2, <1>3
  <2> QED BY <2>1, <2>2, <1>3, Zenon DEF Background, Fewer
<1>4. CASE k > 0 /\ AllFrom(r2, buf, Blank)
  <2>1. (Left(r, b) = Height - r \/ Left(r, b) = 0) /\ Left(r2, buf) = 0
    BY <1>1, <1>4, LeftIs, Zenon DEF Background
  <2>2. ~(L < Height - r) /\ ~(L < 0)
    BY <1>1, <1>2, <1>4
  <2> QED BY <2>1, <2>2, <1>1, <1>4, Zenon DEF Background, Fewer
<1> QED BY <1>3, <1>4, BackgroundIs, Zenon

-----------------------------------------------------------------------------
(* Between calls the cursor is at the start of a row, and what is behind   *)
(* it has not been written to.                                             *)
IInv ==
  /\ row \in Nat /\ row < Height /\ column = 0
  /\ t_buffer = [i \in Cells |-> t_buffer[i]]
  /\ Background(row, t_buffer)

(* A call that writes a text is a step of Teletype. *)
LEMMA WriteRefines ==
  ASSUME IInv, NEW S, NEW text \in Seq(S), Shows(Put(text, Cursor))
  PROVE  IInv' /\ Paper!Write(text)
<1> DEFINE r == row
           b == t_buffer
           lines == [i \in DOMAIN Paper!Chunks(text) |->
                       Paper!Padded(Paper!Chunks(text)[i], IF i <= Left(r, b) THEN Old ELSE Blank)]
           all == Page(r, b) \o lines
<1>1. r \in Nat /\ r < Height /\ Background(r, b) /\ Cursor = [row |-> r, column |-> 0, buf |-> b]
  BY Zenon DEF IInv, Cursor
<1>2. PICK r2 \in Nat, k \in Nat : \E buf :
        row' = r2 /\ column' = 0 /\ t_buffer' = buf /\ After(r2, buf, k, r, b, text)
  <2>1. b = [i \in Cells |-> b[i]]
    BY Zenon DEF IInv
  <2>2. InLine(Put(text, Cursor), 0, r + Lines(Len(text)), b, At(r), text, Len(text))
    <3>1. Len(text) \in Nat
      BY LenProperties, Zenon
    <3> QED BY <1>1, <2>1, <3>1, PutGoesOn, Zenon
  <2>3. PICK r2 \in Nat, k \in Nat : \E buf :
          Put(text, Cursor) = [row |-> r2, column |-> 0, buf |-> buf] /\ After(r2, buf, k, r, b, text)
    BY <2>2, Zenon DEF InLine, After
  <2>4. PICK buf : Put(text, Cursor) = [row |-> r2, column |-> 0, buf |-> buf] /\ After(r2, buf, k, r, b, text)
    BY <2>3, Zenon
  <2>5. row' = r2 /\ column' = 0 /\ t_buffer' = buf
    BY <2>4 DEF Shows
  <2> QED BY <2>4, <2>5, Zenon
<1>3. PICK buf : row' = r2 /\ column' = 0 /\ t_buffer' = buf /\ After(r2, buf, k, r, b, text)
  BY <1>2, Zenon
<1> HIDE DEF r, b
<1>4. /\ Len(lines) = Lines(Len(text)) /\ Lines(Len(text)) \in Nat \ {0}
      /\ all = All(b, r, text)
      /\ \E T : All(b, r, text) \in Seq(T)
      /\ Len(All(b, r, text)) = r + Lines(Len(text))
  BY <1>1, AllIs, Zenon
<1> HIDE DEF lines
<1>5. AreLast(Page(r2, buf), all)
  <2>1. Lines(Len(text)) \in Nat
    BY <1>4, Zenon
  <2>2. r + Lines(Len(text)) \in Nat
    BY <1>1, <2>1
  <2>3. HasLines(All(b, r, text), r + Lines(Len(text)))
    BY <1>4, <2>2, Zenon DEF HasLines
  <2>4. AreLast(Page(r2, buf), All(b, r, text))
    <3>1. r \in Nat /\ r < Height /\ After(r2, buf, k, r, b, text)
      BY <1>1, <1>3, Zenon
    <3> QED BY <3>1, <2>1, <2>3, PageAfter, Zenon
  <2> QED BY <2>4, <1>4, Zenon
<1>6. Left(r2, buf) = Fewer(Left(r, b), Len(lines)) /\ Background(r2, buf)
  <2>1. Len(lines) \in Nat \ {0} /\ Len(lines) = Lines(Len(text))
    BY <1>4, Zenon
  <2> QED BY <1>1, <1>3, <2>1, LeftAfter, Zenon
<1>7. IInv'
  <2>1. r2 < Height /\ buf = [i \in Cells |-> buf[i]]
    BY <1>3, Zenon DEF After, Shown
  <2> QED BY <1>3, <1>6, <2>1, Zenon DEF IInv
<1>8. Paper!Write(text)
  BY <1>3, <1>5, <1>6, Zenon DEF Paper!Write, Page, ScreenLine, Row, Left, AreLast, Fewer, lines, r, b
<1> QED BY <1>7, <1>8, Zenon

(* Every step writes one text, so it is a step of Teletype. *)
LEMMA WriteRefinesNext ==
  ASSUME IInv, Next
  PROVE  IInv' /\ Paper!Next
<1> DEFINE all == Texts \cup {PanicText} \cup {Digits(v) : v \in Numbers}
<1>1. Texts \subseteq Seq(Nat) /\ PanicText \in Seq(Nat)
  BY ScreenAssumption, Zenon
<1>2. \A v : \E S : Digits(v) \in Seq(S)
  <2>1. SUFFICES ASSUME NEW v PROVE \E S : Digits(v) \in Seq(S)
    BY Zenon
  <2> DEFINE D(i) == 48 + ((v \div Base^(i - 1)) % Base)
             S == {D(i) : i \in 1..(Width - 1)}
  <2>2. Width - 1 \in Nat
    BY AtFacts
  <2>3. \A i \in 1..(Width - 1) : D(i) \in S
    BY Zenon
  <2>4. Digits(v) = [i \in 1..(Width - 1) |-> D(i)]
    BY Zenon DEF Digits
  <2> HIDE DEF D, S
  <2>5. Digits(v) \in Seq(S)
    BY <2>2, <2>3, <2>4
  <2> QED BY <2>5, Zenon
<1>3. PICK text : text \in all /\ Shows(Put(text, Cursor))
  BY Zenon DEF Next, WriteLine, CallPanic, WriteLong, PanicLine
<1>4. PICK S : text \in Seq(S)
  BY <1>1, <1>2, <1>3, Zenon
<1>5. IInv' /\ Paper!Write(text)
  BY <1>3, <1>4, WriteRefines, Zenon
<1> QED BY <1>3, <1>5, Zenon DEF Paper!Next


(* The invariant holds of every state. *)
LEMMA Invariance == Spec => []IInv
<1>1. Init => IInv
  <2>1. 0 \in Nat /\ 0 < Height
    BY AtFacts
  <2>2. SUFFICES ASSUME Init PROVE IInv
    BY Zenon
  <2>3. t_buffer = [i \in Cells |-> Old] /\ row = 0 /\ column = 0
    BY <2>2, Zenon DEF Init
  <2>4. \A i \in Cells : t_buffer[i] = Old
    BY <2>3, Zenon
  <2>5. t_buffer = [i \in Cells |-> t_buffer[i]]
    BY <2>3, <2>4, Zenon
  <2> QED BY <2>1, <2>3, <2>4, <2>5, Zenon DEF IInv, Background, AllFrom
<1>2. IInv /\ [Next]_vars => IInv'
  <2>1. ASSUME IInv, Next PROVE IInv'
    BY <2>1, WriteRefinesNext, Zenon
  <2>2. ASSUME IInv, UNCHANGED vars PROVE IInv'
    BY <2>2, Zenon DEF vars, IInv
  <2> QED BY <2>1, <2>2, Zenon
<1> QED BY <1>1, <1>2, PTL DEF Spec

(* What the screen shows between calls is the end of all that was written, *)
(* cut into lines of the screen's width: the terminal implements Teletype, *)
(* for every size of the screen, texts of every length and both lines of a *)
(* panic.  Wrapping in add_char, the new line behind each text and the     *)
(* scrolling of line_move_up lose, repeat and displace nothing.            *)
THEOREM ScreenIsTeletype == Spec => ShowsTheEnd
<1>1. Init => Paper!Init
  <2>1. SUFFICES ASSUME Init PROVE Paper!Init
    BY Zenon
  <2>2. row = 0 /\ t_buffer = [i \in Cells |-> Old]
    BY <2>1, Zenon DEF Init
  <2>3. [r \in 1..0 |-> Row(r - 1)] = <<>>
    OBVIOUS
  <2>4. 0 \in Nat /\ 0 < Height /\ Height - 0 = Height
    BY AtFacts
  <2>5. AllFrom(0, t_buffer, Old)
    BY <2>2, Zenon DEF AllFrom
  <2>6. Left(0, t_buffer) = Height
    BY <2>4, <2>5, LeftIs, Zenon
  <2> QED BY <2>2, <2>3, <2>6, Zenon DEF Paper!Init, Left
<1>2. IInv /\ [Next]_vars => [Paper!Next]_<<[r \in 1..row |-> Row(r - 1)],
                                         IF t_buffer[row * Width] = Old THEN Height - row ELSE 0>>
  <2>1. ASSUME IInv, Next PROVE Paper!Next
    BY <2>1, WriteRefinesNext, Zenon
  <2>2. ASSUME UNCHANGED vars
        PROVE  UNCHANGED <<[r \in 1..row |-> Row(r - 1)],
                           IF t_buffer[row * Width] = Old THEN Height - row ELSE 0>>
    BY <2>2, Zenon DEF vars, Row
  <2> QED BY <2>1, <2>2, Zenon
<1> QED BY <1>1, <1>2, Invariance, PTL DEF Spec, ShowsTheEnd, Paper!Spec
=============================================================================
