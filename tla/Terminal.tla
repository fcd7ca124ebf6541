------------------------------ MODULE Terminal ------------------------------
(***************************************************************************)
(* The text screen, Kernel/src/graphic/terminal.c, and CallPanic, which    *)
(* ends in it.  A call runs to its end: handlers write only when they      *)
(* panic, and exceptions do not arise inside these functions.              *)
(***************************************************************************)
EXTENDS Integers, Sequences

CONSTANTS
  Width, Height,   \* 80 and 25
  Old, Blank,      \* a cell's content before boot, and ' ' in the color
  Base,            \* 10
  Texts,           \* what WriteLine is called with
  Numbers,         \* what WriteLong is called with
  PanicText        \* "KERNEL PANIC!"

(* There is a screen, texts are made of character codes, and a cell nobody *)
(* wrote to can be told from a cleared one.                                *)
ASSUME ScreenAssumption ==
  /\ Width \in Nat \ {0} /\ Height \in Nat \ {0}
  /\ Texts \subseteq Seq(Nat) /\ PanicText \in Seq(Nat)
  /\ Old # Blank

VARIABLES
  row, column,
  t_buffer,        \* cell -> character
  halted           \* "no", "panic" after CallPanic's first line, "hang"

vars == <<row, column, t_buffer, halted>>
Cells == 0..(Width * Height - 1)

Init ==
  /\ row = 0 /\ column = 0
  /\ t_buffer = [i \in Cells |-> Old]
  /\ halted = "no"

(* The functions, on records of the three variables. *)
line_move_up(b) ==
  [i \in Cells |-> IF i < Width * (Height - 1) THEN b[i + Width] ELSE Blank]

new_line(s) ==
  IF s.row + 1 = Height
  THEN [row |-> s.row, column |-> 0, buf |-> line_move_up(s.buf)]
  ELSE [row |-> s.row + 1, column |-> 0, buf |-> s.buf]

(* Faulty variant: the line is only broken by the next character. *)
Badadd_char(s, c) ==
  LET t == IF s.column = Width THEN new_line(s) ELSE s IN
  [t EXCEPT !.buf[t.row * Width + t.column] = c, !.column = @ + 1]

add_char(s, c) ==
  LET t == [s EXCEPT !.buf[s.row * Width + s.column] = c, !.column = @ + 1] IN
  IF t.column = Width THEN new_line(t) ELSE t

Cursor == [row |-> row, column |-> column, buf |-> t_buffer]

(* The loop: the screen after each number of characters. *)
Written(text, s) ==
  LET after[n \in 0..Len(text)] == IF n = 0 THEN s ELSE add_char(after[n - 1], text[n])
  IN  after

Put(text, s) == new_line(Written(text, s)[Len(text)])
Shows(s) == row' = s.row /\ column' = s.column /\ t_buffer' = s.buf

WriteLine(text) == halted = "no" /\ Shows(Put(text, Cursor)) /\ UNCHANGED halted

(* Width - 1 digits, the units first. *)
Digits(val) == [i \in 1..(Width - 1) |-> 48 + ((val \div Base^(i - 1)) % Base)]
WriteLong(val) == halted = "no" /\ Shows(Put(Digits(val), Cursor)) /\ UNCHANGED halted

(* CallPanic: two lines, then hlt for ever. *)
CallPanic(text) == halted = "no" /\ Shows(Put(text, Cursor)) /\ halted' = "panic"
PanicLine == halted = "panic" /\ Shows(Put(PanicText, Cursor)) /\ halted' = "hang"

Next ==
  \/ \E text \in Texts : WriteLine(text) \/ CallPanic(text)
  \/ \E val \in Numbers : WriteLong(val)
  \/ PanicLine

Spec == Init /\ [][Next]_vars

-----------------------------------------------------------------------------
(* Between calls the cursor is at the start of a row on the screen, so no  *)
(* write leaves the buffer.                                                *)
TypeOK ==
  /\ row \in 0..(Height - 1) /\ column = 0
  /\ DOMAIN t_buffer = Cells
  /\ halted \in {"no", "panic", "hang"}

Row(r) == [j \in 1..Width |-> t_buffer[r * Width + j - 1]]

Paper == INSTANCE Teletype WITH
  page  <- [r \in 1..row |-> Row(r - 1)],
  left  <- IF t_buffer[row * Width] = Old THEN Height - row ELSE 0,
  Texts <- Texts \cup {PanicText} \cup {Digits(v) : v \in Numbers}

(* What the screen shows is the end of all that was written, cut into      *)
(* lines: wrapping in add_char, the new line of WriteLine and scrolling    *)
(* never lose, repeat or displace a character, a panic's two lines         *)
(* included.                                                               *)
ShowsTheEnd == Paper!Spec
=============================================================================
