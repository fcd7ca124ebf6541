---------------------------- MODULE MCPageFrames ----------------------------
EXTENDS PageFrames

MCSize == [k \in 0..MaxOrder |-> 2^k]

(* For blocks of 16 frames.  Of the first entry [10, 70) the whole blocks  *)
(* are 1, 2 and 3, and the loop takes 1 and 2.  The second map has one     *)
(* loaded block below the kernel, which is block 3, and one right behind   *)
(* it.  The third one starts below LowLimit.                               *)
MCMaps ==
  { << [start |-> 10, end |-> 70] >>,
    << [start |-> 16, end |-> 48], [start |-> 64, end |-> 97] >>,
    << [start |-> 0, end |-> 60] >> }

(* For blocks of 8 frames whose descriptors fill two: an entry without a   *)
(* whole block, with one that is loaded, and with several, of which the    *)
(* first has no room for the descriptors of the second.                    *)
MCSmallMaps == { << [start |-> a, end |-> b] >> : a \in 8..12, b \in {24, 30, 32, 40, 56} }
=============================================================================
