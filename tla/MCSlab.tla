------------------------------- MODULE MCSlab -------------------------------
(* Small instances of Slab: three caches, two pages of four objects. *)
EXTENDS Slab, TLC

MCBlockSize == <<1, 4, 1>>

(* Slab pages differ in nothing but their names. *)
PageSymmetry == Permutations(SlabPages)
=============================================================================
