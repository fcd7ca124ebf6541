---------------------------- MODULE KernelObjects ----------------------------
(***************************************************************************)
(* What the kernel keeps in slab objects: the processors' structures       *)
(* (arch/x86_64/smp.c, cpu.c), processes, threads and activities           *)
(* (src/proc/), composed with the allocator of module Slab.                *)
(*                                                                         *)
(* Every object has one word (8 bytes), so a structure lies over several   *)
(* objects, and the free list runs through the words of structures.  Sizes *)
(* are in words: every block size is a multiple of 8.  A structure is cut  *)
(* down to its first word, which the free list reads, and the words whose  *)
(* values are followed.  A word that holds a number other than 0, or text, *)
(* is Wild as a pointer.                                                   *)
(***************************************************************************)
EXTENDS Slab, TLC

CONSTANTS
  ActivitySize, CoreSize, ProcessSize,   \* sizeof the structures
  Names,          \* names of processes: [words, rest], see strcpy
  ByteObjects,    \* 32: objects whose addresses differ in the low byte only
  Cores,          \* what g_Processors may hold, in order: a set of sequences
  ProcessLimit,   \* how many processes are created at most
  ThreadLimit     \* how many threads are created at most

VARIABLES
  num,         \* object -> its word as a number
  pc,          \* where the kernel is
  ptr,         \* what the last allocation returned
  cores,       \* processors SMP_Initialize has not come to
  cpus,        \* id -> cpus[id]
  gs,          \* what SetCPULocal put into the GS base
  proc,        \* newProc
  ownActivity, \* was activity NULL?
  text,        \* the name the process is given
  name,        \* result of the allocation of a name
  nextPid,     \* currentProcessId
  kernelNext,  \* g_kernelProcess.m_NextThreadId
  parent,      \* whose thread is created: 0 for the kernel, or a count of processes
  tid,         \* value of m_NextThreadId++
  thread,      \* newThread
  threads      \* <<parent, thread>> for each CreateThread that returned (history)

slabVars   == <<cpuFreelist, cpuPage, slabCache, freelist, inuse, word, given, again, writes, dirty, state>>
smpVars    == <<cores, cpus, gs>>
procVars   == <<proc, ownActivity, text, name, nextPid>>
threadVars == <<kernelNext, parent, tid, thread, threads>>
objVars    == <<slabVars, num, pc, ptr, smpVars, procVars, threadVars>>

ObjInit ==
  /\ Init
  /\ num = [o \in Objects |-> 0]
  /\ pc = "smp" /\ ptr = NULL
  /\ cores \in Cores
  /\ cpus = <<>> /\ gs = NULL
  /\ proc = NULL /\ ownActivity = FALSE /\ text = (CHOOSE t \in Names : TRUE) /\ name = NULL /\ nextPid = 0
  /\ kernelNext = 0 /\ parent = 0 /\ tid = 0 /\ thread = NULL /\ threads = <<>>

-----------------------------------------------------------------------------
(* What a call that takes its object from cache c returns. *)
Takes(c) == ptr' = IF cpuFreelist[c] # NULL THEN cpuFreelist[c] ELSE cpuFreelist'[c]

(* KernelAllocateObject; the code goes on at next with its result.  An     *)
(* uninitialised cache may give anything.                                  *)
Alloc(size, next) ==
  /\ KM_Allocate(size)
  /\ IF KM_FindCache(size) # {} THEN \E c \in KM_FindCache(size) : Takes(c)
                                ELSE ptr' \in Pointer
  /\ pc' = next
  /\ UNCHANGED num

AllocStruct(next) ==
  /\ KM_AllocateStruct
  /\ Takes(Struct)
  /\ pc' = next
  /\ UNCHANGED num

Pointing(p) == <<p, 0>>
Number(n)   == <<IF n = 0 THEN NULL ELSE Wild, n>>
Text        == <<Wild, 1>>

(* Words from address a on.  What is written through a pointer that is no  *)
(* object's address, or over the end of a page, faults or changes memory   *)
(* that is not followed: nothing is said of what comes then.               *)
Write(a, words) ==
  LET covers(o) == o[1] = a[1] /\ o[2] - a[2] \in 0..(Len(words) - 1)
      new(o)    == words[o[2] - a[2] + 1] IN
  /\ IF a \in Objects /\ a[2] + Len(words) <= ObjectsPerPage
     THEN /\ word' = [o \in Objects |-> IF covers(o) THEN new(o)[1] ELSE word[o]]
          /\ num'  = [o \in Objects |-> IF covers(o) THEN new(o)[2] ELSE num[o]]
          /\ writes' = 1 /\ dirty' = dirty \cup {a[1]}
          /\ UNCHANGED state
     ELSE state' \in {"fault", "astray"} /\ UNCHANGED <<word, num, writes, dirty>>
  /\ UNCHANGED <<cpuFreelist, cpuPage, slabCache, freelist, inuse, given, again, ptr>>

Field(a, k) == <<a[1], a[2] + k>>

(* What a word is once its low bytes were overwritten: by a 0 only, or by  *)
(* text and a 0.                                                           *)
Ended(w, rest) ==
  IF rest THEN (IF w \in Objects THEN Objects \cup {Wild} ELSE {Wild}) \X {1}
  ELSE IF w \in Objects THEN {Pointing(<<w[1], w[2] - (w[2] % ByteObjects)>>)}
  ELSE {Pointing(NULL)} \cup (IF w = Wild THEN {Text} ELSE {})

(* strcpy: whole words of text, then a word of which the low bytes are     *)
(* written, the rest of the text if any and the final 0.                   *)
strcpy(a, t) ==
  LET end == Field(a, t.words) IN
  IF a \in Objects /\ end \in Objects
  THEN \E last \in Ended(word[end], t.rest) : Write(a, [i \in 1..t.words |-> Text] \o <<last>>)
  ELSE Write(Wild, <<>>)

-----------------------------------------------------------------------------
(* SMP_Initialize: the boot processor's structure, {self, id}. *)
SmpAllocate ==
  /\ pc = "smp"
  /\ Alloc(CoreSize, "smp_fill")
  /\ UNCHANGED <<smpVars, procVars, threadVars>>

(* *cpus[0] = {...} and SetCPULocal, which sets self and the GS base. *)
SmpFill ==
  /\ pc = "smp_fill"
  /\ cpus' = (0 :> ptr)
  /\ gs' = ptr
  /\ Write(ptr, <<Pointing(ptr), Number(0)>>)
  /\ pc' = "smp_next"
  /\ UNCHANGED <<cores, procVars, threadVars>>

SmpNext ==
  /\ pc = "smp_next"
  /\ IF cores = <<>> THEN pc' = "ready" /\ UNCHANGED <<slabVars, num, ptr>>
                     ELSE Alloc(CoreSize, "smp_id")
  /\ UNCHANGED <<smpVars, procVars, threadVars>>

(* __smp_InitializeProcessor: only the id is written. *)
__smp_InitializeProcessor ==
  /\ pc = "smp_id"
  /\ cpus' = (Head(cores) :> ptr) @@ cpus
  /\ Write(Field(ptr, 1), <<Number(Head(cores))>>)
  /\ cores' = Tail(cores)
  /\ pc' = "smp_next"
  /\ UNCHANGED <<gs, procVars, threadVars>>

-----------------------------------------------------------------------------
(* CreateProcessEx, for a file or an activity of the caller's or none.     *)
CreateProcessEx(own, t) ==
  /\ pc = "ready"
  /\ nextPid < ProcessLimit
  /\ Alloc(ProcessSize, "proc_name")
  /\ proc' = ptr' /\ ownActivity' = own /\ text' = t
  /\ UNCHANGED <<smpVars, name, nextPid, threadVars>>

(* The name is allocated while the initial value of *newProc is put        *)
(* together, from the cache of its length, and m_ProcessId is taken from   *)
(* GetNextPID.                                                             *)
ProcessName ==
  /\ pc = "proc_name"
  /\ Alloc(text.words, "proc_fill")
  /\ name' = ptr'
  /\ nextPid' = nextPid + 1
  /\ UNCHANGED <<smpVars, proc, ownActivity, text, threadVars>>

(* m_Name, m_NextThreadId, m_MainThread. *)
ProcessFill ==
  /\ pc = "proc_fill"
  /\ Write(proc, <<Pointing(name), Number(0), Pointing(NULL)>>)
  /\ pc' = "proc_copy"
  /\ UNCHANGED <<smpVars, procVars, threadVars>>

(* strcpy(newProc->m_Name, name) *)
ProcessCopy ==
  /\ pc = "proc_copy"
  /\ strcpy(word[proc], text)
  /\ pc' = IF ownActivity THEN "activity" ELSE "thread"
  /\ UNCHANGED <<smpVars, procVars, threadVars>>

(* NewActivity(newProc->m_Name): the name that was copied, unless its own  *)
(* text has replaced the pointer.  ptr is the activity from here on.       *)
NewActivity ==
  /\ pc = "activity"
  /\ Alloc(ActivitySize, "activity_name")
  /\ text' \in IF word[proc] = name THEN {text} ELSE Names
  /\ UNCHANGED <<smpVars, proc, ownActivity, name, nextPid, threadVars>>

(* strlen faults where nothing is mapped. *)
ActivityName ==
  /\ pc = "activity_name"
  /\ IF word[proc] \in Objects
     THEN /\ KM_Allocate(text.words)
          /\ name' \in IF KM_FindCache(text.words) = {} THEN Pointer
                       ELSE {IF cpuFreelist[c] # NULL THEN cpuFreelist[c] ELSE cpuFreelist'[c] :
                               c \in KM_FindCache(text.words)}
          /\ UNCHANGED <<num, ptr>>
     ELSE Write(Wild, <<>>) /\ UNCHANGED name
  /\ pc' = "activity_fill"
  /\ UNCHANGED <<smpVars, proc, ownActivity, text, nextPid, threadVars>>

ActivityFill ==
  /\ pc = "activity_fill"
  /\ Write(ptr, <<Pointing(name)>>)
  /\ pc' = "activity_copy"
  /\ UNCHANGED <<smpVars, procVars, threadVars>>

ActivityCopy ==
  /\ pc = "activity_copy"
  /\ strcpy(word[ptr], text)
  /\ pc' = "thread"
  /\ UNCHANGED <<smpVars, procVars, threadVars>>

-----------------------------------------------------------------------------
(* CreateThread: for the new process, or for PR_GetKernelProcess() by      *)
(* anybody.                                                                *)
CreateThread ==
  /\ pc \in {"thread", "ready"}
  /\ Len(threads) < ThreadLimit
  /\ parent' = IF pc = "thread" THEN nextPid ELSE 0
  /\ AllocStruct("thread_take")
  /\ thread' = ptr'
  /\ UNCHANGED <<smpVars, procVars, kernelNext, tid, threads>>

(* proc->m_NextThreadId++, evaluated twice. *)
TakeNumber ==
  /\ pc \in {"thread_take", "thread_retake"}
  /\ IF parent = 0
     THEN /\ tid' = kernelNext /\ kernelNext' = kernelNext + 1
          /\ UNCHANGED <<slabVars, num, ptr>>
     ELSE /\ tid' = num[Field(proc, 1)]
          /\ Write(Field(proc, 1), <<Number(tid' + 1)>>)
          /\ UNCHANGED kernelNext
  /\ pc' = IF pc = "thread_take" THEN "thread_fill" ELSE "thread_id"
  /\ UNCHANGED <<smpVars, procVars, parent, thread, threads>>

(* *newThread = {...}: listnode, then m_ThreadId. *)
ThreadFill ==
  /\ pc = "thread_fill"
  /\ Write(thread, <<Pointing(NULL), Number(tid)>>)
  /\ pc' = "thread_retake"
  /\ UNCHANGED <<smpVars, procVars, threadVars>>

(* newThread->m_ThreadId, once more. *)
ThreadId ==
  /\ pc = "thread_id"
  /\ Write(Field(thread, 1), <<Number(tid)>>)
  /\ threads' = Append(threads, <<parent, thread>>)
  /\ pc' = IF parent = 0 THEN "ready" ELSE "main"
  /\ UNCHANGED <<smpVars, procVars, kernelNext, parent, tid, thread>>

(* m_MainThread = CreateThread(newProc), which has no return statement. *)
MainThread ==
  /\ pc = "main"
  /\ \E v \in Pointer : Write(Field(proc, 2), <<Pointing(v)>>)
  /\ pc' = "ready"
  /\ UNCHANGED <<smpVars, procVars, threadVars>>

-----------------------------------------------------------------------------
ObjNext ==
  /\ state = "run"
  /\ \/ SmpAllocate \/ SmpFill \/ SmpNext \/ __smp_InitializeProcessor
     \/ \E own \in BOOLEAN, t \in Names : CreateProcessEx(own, t)
     \/ ProcessName \/ ProcessFill \/ ProcessCopy
     \/ NewActivity \/ ActivityName \/ ActivityFill \/ ActivityCopy
     \/ CreateThread \/ TakeNumber \/ ThreadFill \/ ThreadId \/ MainThread

ObjSpec == ObjInit /\ [][ObjNext]_objVars

-----------------------------------------------------------------------------
(* Every variable has its type, as long as memory is followed. *)
ObjTypeOK ==
  /\ word \in [Objects -> Pointer]
  /\ num \in [Objects -> Nat]
  /\ {ptr, gs, proc, name, thread} \subseteq Pointer
  /\ text \in Names
  /\ state = "run" => \A i \in DOMAIN cpus : cpus[i] \in Objects

(* "Thread ID, not duplicated in same progress": two threads of one        *)
(* process have different numbers.                                         *)
ThreadIdsDistinct ==
  state = "run" =>
    \A i, j \in DOMAIN threads :
      i # j /\ threads[i][1] = threads[j][1]
        => num[Field(threads[i][2], 1)] # num[Field(threads[j][2], 1)]
==============================================================================
