----------------------------- MODULE MCTerminal -----------------------------
(* A screen of 3 by 3.  Texts of all lengths up to two lines and one       *)
(* character, each with two different contents.                            *)
EXTENDS Terminal

MCTexts == {[i \in 1..n |-> IF i % 2 = k THEN 97 ELSE 98] : n \in 0..(2 * Width + 1), k \in 0..1}
MCPanicText == <<75, 80, 33, 33>>
=============================================================================
