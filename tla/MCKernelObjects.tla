--------------------------- MODULE MCKernelObjects ---------------------------
(* Caches of one to five words and that of threads; pages of six words.    *)
EXTENDS KernelObjects

MCBlockSize == <<1, 2, 3, 4, 5, 7>>

(* An empty name, a short one, and names that come from the caches of      *)
(* activities, processors and processes, of nobody else, and of none.      *)
MCNames == {[words |-> 0, rest |-> FALSE], [words |-> 0, rest |-> TRUE]}
             \cup {[words |-> w, rest |-> TRUE] : w \in 1..6}

MCCores == {<<>>, <<1>>, <<2, 1>>}

PageSymmetry == Permutations(SlabPages)
==============================================================================
