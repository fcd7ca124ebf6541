---------------------------- MODULE AbstractLock ----------------------------
(***************************************************************************)
(* What callers of AcquireLock and ReleaseLock (Kernel/include/utils/      *)
(* spinlock.h) rely on: a CPU asks for the lock, at some later point it    *)
(* owns it, nobody else owns it meanwhile, and the owner gives it back.    *)
(***************************************************************************)

CONSTANT CPUs           \* the processors that call the lock

VARIABLES waiting,      \* CPUs inside AcquireLock
          holder        \* the CPUs that own the lock: none or one

vars == <<waiting, holder>>

Init == waiting = {} /\ holder = {}

Request(c) ==
  /\ c \notin waiting \cup holder
  /\ waiting' = waiting \cup {c}
  /\ UNCHANGED holder

Grant(c) ==
  /\ c \in waiting
  /\ holder = {}
  /\ holder' = {c}
  /\ waiting' = waiting \ {c}

Release(c) ==
  /\ holder = {c}
  /\ holder' = {}
  /\ UNCHANGED waiting

Next == \E c \in CPUs : Request(c) \/ Grant(c) \/ Release(c)

Spec == Init /\ [][Next]_vars

=============================================================================
