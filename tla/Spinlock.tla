------------------------------ MODULE Spinlock ------------------------------
(***************************************************************************)
(* The test-and-set lock of Kernel/include/utils/spinlock.h, one machine   *)
(* instruction that touches the lock word per step.                        *)
(*                                                                         *)
(* xchg with a memory operand is atomic on x86, and so is each load that   *)
(* the "pause; cmpl $0" loop makes.  The registers lv and ulv are folded   *)
(* into the program counter: lv is 1 whenever the xchg of AcquireLock is   *)
(* about to execute (a failed xchg loads the 1 that it found).             *)
(***************************************************************************)

EXTENDS Naturals

CONSTANT Processors     \* the CPUs that call the lock

VARIABLES lock,         \* the word: 0 is free, 1 is taken
          at            \* where each CPU is

lockVars == <<lock, at>>

(* "out"      outside AcquireLock ... ReleaseLock                          *)
(* "exchange" at label 1, about to execute xchg                            *)
(* "spin"     at label 2, in the pause/cmpl loop                           *)
(* "inside"   past label 3: AcquireLock has returned                       *)
PC == {"out", "exchange", "spin", "inside"}

(* A spinlock_t is a zeroed word: InitLock assigns to its own parameter    *)
(* and leaves the word alone (spinlock.h:5-8), so 0 comes from the memory  *)
(* the lock lies in.                                                       *)
LockInit ==
  /\ lock = 0
  /\ at = [c \in Processors |-> "out"]

(* The call of AcquireLock: lockVal = 1. *)
Acquire(c) ==
  /\ at[c] = "out"
  /\ at' = [at EXCEPT ![c] = "exchange"]
  /\ UNCHANGED lock

(* Faulty variant: the test of lv is dropped, a CPU that finds the lock    *)
(* taken enters as well.                                                   *)
BadExchangeNoTest(c) ==
  /\ at[c] = "exchange"
  /\ lock' = 1
  /\ at' = [at EXCEPT ![c] = "inside"]

(* xchg, test, jz 3f: the word becomes 1, and its old value decides. *)
Exchange(c) ==
  /\ at[c] = "exchange"
  /\ lock' = 1
  /\ at' = [at EXCEPT ![c] = IF lock = 0 THEN "inside" ELSE "spin"]

(* cmpl $0: back to the xchg once the word was seen to be 0; jnz 2b loops  *)
(* without changing anything.                                              *)
Spin(c) ==
  /\ at[c] = "spin"
  /\ lock = 0
  /\ at' = [at EXCEPT ![c] = "exchange"]
  /\ UNCHANGED lock

(* Faulty variant: ReleaseLock stores 1. *)
BadReleaseKeepsWord(c) ==
  /\ at[c] = "inside"
  /\ lock' = 1
  /\ at' = [at EXCEPT ![c] = "out"]

(* ReleaseLock: xchg of 0 into the word. *)
Release(c) ==
  /\ at[c] = "inside"
  /\ lock' = 0
  /\ at' = [at EXCEPT ![c] = "out"]

LockStep(c) == Acquire(c) \/ Exchange(c) \/ Spin(c) \/ Release(c)

LockNext == \E c \in Processors : LockStep(c)

(* A CPU keeps executing instructions once it called AcquireLock, and the  *)
(* code between the two calls is a few straight-line statements that end.  *)
(* Nothing forces a CPU to call AcquireLock.                               *)
LockFairness ==
  \A c \in Processors : WF_lockVars(Exchange(c)) /\ WF_lockVars(Spin(c)) /\ WF_lockVars(Release(c))

LockSpec == LockInit /\ [][LockNext]_lockVars /\ LockFairness

-----------------------------------------------------------------------------

LockTypeOK ==
  /\ lock \in {0, 1}
  /\ at \in [Processors -> PC]

(* At most one CPU is between AcquireLock and ReleaseLock, the promise     *)
(* that PM_AllocatePages, PM_ExpandPage and __slab_GetPartialPage rest on. *)
MutualExclusion ==
  \A c, d \in Processors : at[c] = "inside" /\ at[d] = "inside" => c = d

(* The word is 1 exactly while some CPU is inside: ReleaseLock cannot      *)
(* free a lock that another CPU has taken meanwhile, and a failed xchg     *)
(* (which stores 1 as well) cannot leave a free lock looking taken.        *)
WordMatchesHolder == lock = 1 <=> \E c \in Processors : at[c] = "inside"

(* If CPUs wait, one of them gets in (not: each of them, the lock is not   *)
(* fair).  A lost wake-up or a word left at 1 would break this.            *)
SomeWaiterEnters ==
  (\E c \in Processors : at[c] \in {"exchange", "spin"})
     ~> (\E c \in Processors : at[c] = "inside")

(* The xchg loop implements the abstract lock. *)
Abs == INSTANCE AbstractLock WITH
         CPUs    <- Processors,
         waiting <- {c \in Processors : at[c] \in {"exchange", "spin"}},
         holder  <- {c \in Processors : at[c] = "inside"}

ImplementsLock == Abs!Spec

=============================================================================
