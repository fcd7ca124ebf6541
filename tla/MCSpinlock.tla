----------------------------- MODULE MCSpinlock -----------------------------
(* Four CPUs on one lock: enough for a CPU in each of the four places at   *)
(* once, and for two CPUs that both saw the word at 0 before either xchg.  *)
EXTENDS Spinlock
=============================================================================
