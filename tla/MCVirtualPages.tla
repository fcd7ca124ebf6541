--------------------------- MODULE MCVirtualPages ---------------------------
(* Small instances of VirtualPages: words of 8 bits, a 4-bit int. *)
EXTENDS VirtualPages
=============================================================================
