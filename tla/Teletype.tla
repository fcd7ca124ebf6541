------------------------------ MODULE Teletype ------------------------------
(***************************************************************************)
(* What the text screen promises: everything written is one long page, cut *)
(* into lines of the screen's width, of which the last ones can be seen.   *)
(***************************************************************************)
EXTENDS Integers, Sequences

CONSTANTS
  Width, Height,
  Old, Blank,     \* a cell nobody wrote to, and a cleared one
  Texts           \* what callers write

VARIABLES
  page,   \* the complete lines on the screen, each Width cells
  left    \* lines from the cursor on that nobody has cleared yet

(* A text takes a line for each Width characters and one for the rest,     *)
(* which may be empty.                                                     *)
Chunks(text) ==
  [i \in 1..(Len(text) \div Width + 1) |-> SubSeq(text, (i - 1) * Width + 1, IF i * Width < Len(text) THEN i * Width ELSE Len(text))]

Padded(chunk, fill) == [j \in 1..Width |-> IF j <= Len(chunk) THEN chunk[j] ELSE fill]

Init == page = <<>> /\ left = Height

Write(text) ==
  LET lines == [i \in DOMAIN Chunks(text) |-> Padded(Chunks(text)[i], IF i <= left THEN Old ELSE Blank)]
      all   == page \o lines
  IN  /\ page' = IF Len(all) < Height THEN all ELSE SubSeq(all, Len(all) - Height + 2, Len(all))
      /\ left' = IF Len(lines) < left THEN left - Len(lines) ELSE 0

Next == \E text \in Texts : Write(text)

Spec == Init /\ [][Next]_<<page, left>>
=============================================================================
