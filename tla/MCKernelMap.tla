---------------------------- MODULE MCKernelMap ----------------------------
(* Small instances of KernelMap: tables of two entries, the low frames     *)
(* mapped a second time, and the range of the frame descriptors.           *)
EXTENDS KernelMap

MCWindows == {[phys |-> 0, virt |-> 6, amount |-> 3], [phys |-> 2, virt |-> 10, amount |-> 1]}
=============================================================================
