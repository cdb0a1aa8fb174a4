---------------------------- MODULE IpcLifecycle ----------------------------
(***************************************************************************)
(* The System V objects from start to end of a run (ipc/ipc.c, shm.c,      *)
(* sem.c, mq.c and main.c): main looks for the objects of a crashed run    *)
(* under the same keys, removes them, creates its own with IPC_EXCL, and   *)
(* removes those at the end.  Runs may be started while others are alive   *)
(* and main may be killed between any two system calls.                    *)
(*                                                                         *)
(* A run creates each object at most once, so the run stands for the id    *)
(* the kernel gave it: IPC_RMID on an id removes the object only while the *)
(* object under the key is still that one.                                 *)
(***************************************************************************)
EXTENDS Integers, FiniteSets, FiniteSetsExt

CONSTANTS
  Runs,            \* the processes executing main
  None,            \* no object, no run
  QueueCount,      \* number of message queues (5), created and removed in order
  MaxCrashes       \* bound: SIGKILLs

ASSUME LifecycleAssumption ==
  /\ IsFiniteSet(Runs)
  /\ None \notin Runs
  /\ QueueCount \in Nat \ {0}
  /\ MaxCrashes \in Nat

VARIABLES
  shm,        \* run that created the segment under shm_key, or None
  main_pid,   \* its field of that name: a run, or None for 0
  sem,        \* run that created the semaphore set, or None
  mq,         \* queue -> run that created it, or None
  pc,         \* where each run is
  stale,      \* the segment ipc_cleanup_stale found abandoned
  made,       \* message queues this run has created so far
  rival,      \* history: another run was alive when this one looked
  overlap,    \* history: a run began while another one was still starting
  crashes

vars == <<shm, main_pid, sem, mq, pc, stale, made, rival, overlap, crashes>>

Queues == 1..QueueCount

Cleaning == {"clean_mq", "clean_sem", "clean_shm"}
Creating == {"create_shm", "create_sem", "create_mq", "store_pid"}
Removing == {"destroy_mq", "destroy_sem", "destroy_shm"}

\* kill(pid, 0) finds the process.
Alive(r) == pc[r] \notin {"off", "failed", "exited", "crashed"}

Starting(r) == pc[r] \in Cleaning \cup Creating

Init ==
  /\ shm = None /\ main_pid = None /\ sem = None
  /\ mq = [q \in Queues |-> None]
  /\ pc = [r \in Runs |-> "off"]
  /\ stale = [r \in Runs |-> None]
  /\ made = [r \in Runs |-> 0]
  /\ rival = [r \in Runs |-> FALSE]
  /\ overlap = FALSE
  /\ crashes = 0

Goto(r, from, to) == pc[r] = from /\ pc' = [pc EXCEPT ![r] = to]
-----------------------------------------------------------------------------
(* ipc_cleanup_stale. *)

\* Mutant of InUse: a segment without a pid counts as used.
InUseOrNew == main_pid = None \/ Alive(main_pid)

\* Mutant of InUse: the process is not looked for.
NeverInUse == FALSE

\* The stored main_pid is a living process.
InUse == main_pid # None /\ Alive(main_pid)

\* Is there a segment, and is its main process dead?
CheckStale(r) ==
  /\ Goto(r, "off", IF shm = None \/ InUse THEN "create_shm" ELSE "clean_mq")
  /\ stale' = [stale EXCEPT ![r] = shm]
  /\ rival' = [rival EXCEPT ![r] = \E s \in Runs : Alive(s)]
  /\ overlap' = (overlap \/ \E s \in Runs : Starting(s))
  /\ UNCHANGED <<shm, main_pid, sem, mq, made, crashes>>

\* The queues and the semaphores are looked up by their keys ...
CleanQueues(r) ==
  /\ Goto(r, "clean_mq", "clean_sem")
  /\ mq' = [q \in Queues |-> None]
  /\ UNCHANGED <<shm, main_pid, sem, stale, made, rival, overlap, crashes>>

CleanSemaphores(r) ==
  /\ Goto(r, "clean_sem", "clean_shm")
  /\ sem' = None
  /\ UNCHANGED <<shm, main_pid, mq, stale, made, rival, overlap, crashes>>

\* IPC_RMID on the segment run s created.
RemoveSegment(s) ==
  /\ shm' = IF shm = s THEN None ELSE shm
  /\ main_pid' = IF shm = s THEN None ELSE main_pid

\* ... the segment by the id it had before.
CleanSegment(r) ==
  /\ Goto(r, "clean_shm", "create_shm")
  /\ RemoveSegment(stale[r])
  /\ UNCHANGED <<sem, mq, stale, made, rival, overlap, crashes>>
-----------------------------------------------------------------------------
(* ipc_create. *)

\* The new segment is all zero: its main_pid is no process.
CreateSegment(r) ==
  /\ \/ shm = None /\ Goto(r, "create_shm", "create_sem") /\ shm' = r
     \/ shm # None /\ Goto(r, "create_shm", "destroy_mq") /\ UNCHANGED shm
  /\ UNCHANGED <<main_pid, sem, mq, stale, made, rival, overlap, crashes>>

CreateSemaphores(r) ==
  /\ \/ sem = None /\ Goto(r, "create_sem", "create_mq") /\ sem' = r
     \/ sem # None /\ Goto(r, "create_sem", "destroy_mq") /\ UNCHANGED sem
  /\ UNCHANGED <<shm, main_pid, mq, stale, made, rival, overlap, crashes>>

\* Mutant of CreateQueue: on failure the objects created so far are left behind.
CreateQueueNoUndo(r) ==
  LET q == made[r] + 1 IN
  /\ pc[r] = "create_mq"
  /\ \/ /\ mq[q] = None
        /\ mq' = [mq EXCEPT ![q] = r]
        /\ made' = [made EXCEPT ![r] = q]
        /\ Goto(r, "create_mq", IF q = QueueCount THEN "store_pid" ELSE "create_mq")
     \/ /\ mq[q] # None
        /\ Goto(r, "create_mq", "failed")
        /\ UNCHANGED <<mq, made>>
  /\ UNCHANGED <<shm, main_pid, sem, stale, rival, overlap, crashes>>

\* One queue after the other.
CreateQueue(r) ==
  LET q == made[r] + 1 IN
  /\ pc[r] = "create_mq"
  /\ \/ /\ mq[q] = None
        /\ mq' = [mq EXCEPT ![q] = r]
        /\ made' = [made EXCEPT ![r] = q]
        /\ Goto(r, "create_mq", IF q = QueueCount THEN "store_pid" ELSE "create_mq")
     \/ /\ mq[q] # None
        /\ Goto(r, "create_mq", "destroy_mq")
        /\ UNCHANGED <<mq, made>>
  /\ UNCHANGED <<shm, main_pid, sem, stale, rival, overlap, crashes>>

\* Everything exists: main stores its pid, if the segment under the key is still
\* its own, and spawns the workers.
StorePid(r) ==
  /\ Goto(r, "store_pid", "running")
  /\ main_pid' = IF shm = r THEN r ELSE main_pid
  /\ UNCHANGED <<shm, sem, mq, stale, made, rival, overlap, crashes>>
-----------------------------------------------------------------------------
(* The end of a run, and what ipc_create undoes when it fails. *)

\* The day is over, or main's SIGTERM handler begins its cleanup.
BeginDestroy(r) ==
  /\ Goto(r, "running", "destroy_mq")
  /\ UNCHANGED <<shm, main_pid, sem, mq, stale, made, rival, overlap, crashes>>

\* The queues first, one after the other.
DestroyQueue(r) ==
  LET own == {q \in Queues : mq[q] = r} IN
  /\ \/ /\ own # {} /\ pc[r] = "destroy_mq"
        /\ mq' = [mq EXCEPT ![Min(own)] = None]
        /\ UNCHANGED pc
     \/ own = {} /\ Goto(r, "destroy_mq", "destroy_sem") /\ UNCHANGED mq
  /\ UNCHANGED <<shm, main_pid, sem, stale, made, rival, overlap, crashes>>

\* Mutant of DestroySemaphores: the segment goes and the semaphores stay.
DestroySegmentInstead(r) ==
  /\ Goto(r, "destroy_sem", "destroy_shm")
  /\ RemoveSegment(r)
  /\ UNCHANGED <<sem, mq, stale, made, rival, overlap, crashes>>

\* Then the semaphores.
DestroySemaphores(r) ==
  /\ Goto(r, "destroy_sem", "destroy_shm")
  /\ sem' = IF sem = r THEN None ELSE sem
  /\ UNCHANGED <<shm, main_pid, mq, stale, made, rival, overlap, crashes>>

\* The segment last: it is what the next run looks for.
DestroySegment(r) ==
  /\ Goto(r, "destroy_shm", IF made[r] = QueueCount THEN "exited" ELSE "failed")
  /\ RemoveSegment(r)
  /\ UNCHANGED <<sem, mq, stale, made, rival, overlap, crashes>>

\* SIGKILL, or any signal before the handlers are installed.
Crash(r) ==
  /\ crashes < MaxCrashes
  /\ Alive(r)
  /\ pc' = [pc EXCEPT ![r] = "crashed"]
  /\ crashes' = crashes + 1
  /\ UNCHANGED <<shm, main_pid, sem, mq, stale, made, rival, overlap>>

AllEnded == (\A r \in Runs : pc[r] # "off" /\ ~Alive(r)) /\ UNCHANGED vars

Step(r) ==
  \/ CheckStale(r) \/ CleanQueues(r) \/ CleanSemaphores(r) \/ CleanSegment(r)
  \/ CreateSegment(r) \/ CreateSemaphores(r) \/ CreateQueue(r) \/ StorePid(r)
  \/ BeginDestroy(r) \/ DestroyQueue(r) \/ DestroySemaphores(r) \/ DestroySegment(r)

Next == (\E r \in Runs : Step(r) \/ Crash(r)) \/ AllEnded

Spec == Init /\ [][Next]_vars
-----------------------------------------------------------------------------
(* Properties. *)

Objects(r) == {q \in Queues : mq[q] = r} \cup (IF sem = r THEN {"sem"} ELSE {})
              \cup (IF shm = r THEN {"shm"} ELSE {})

\* Types; only the creator of the segment under the key is ever stored in it
\* (ipc.c:95-138, main.c:196-198).
TypeOK ==
  /\ shm \in Runs \cup {None}
  /\ main_pid \in {None, shm}
  /\ sem \in Runs \cup {None}
  /\ mq \in [Queues -> Runs \cup {None}]
  /\ pc \in [Runs -> Cleaning \cup Creating \cup Removing
                      \cup {"off", "running", "failed", "exited", "crashed"}]
  /\ stale \in [Runs -> Runs \cup {None}]
  /\ made \in [Runs -> 0..QueueCount]
  /\ rival \in [Runs -> BOOLEAN]
  /\ overlap \in BOOLEAN
  /\ crashes \in 0..MaxCrashes

\* Whatever a crash leaves behind can be found again: ipc_cleanup_stale only
\* looks for the segment, so no queue and no semaphore set may exist without it
\* (ipc.c:27-83; the order of creation and removal is what keeps this true), as
\* long as no two runs were starting at once.
LeftoversFindable ==
  ~overlap /\ shm = None => sem = None /\ \A q \in Queues : mq[q] = None

\* A run fails to create its objects only if another run was alive when it
\* looked: after a crash, wherever it happened, the next run succeeds
\* (tests/test15_sigkill_recovery.sh:12), as long as no two runs were starting at
\* once.
CrashRecovered == ~overlap => \A r \in Runs : pc[r] = "failed" => rival[r]

\* The objects of a run that is serving tourists are all its own and all there:
\* no other run has removed them as stale or created its own in their place
\* (ipc.c:49-54, "Process still exists - resources are in use").  The segment of
\* a run that has not stored its pid yet looks abandoned, so this holds only as
\* long as no two runs were starting at once.
RunningIntact ==
  ~overlap => \A r \in Runs : pc[r] = "running" =>
    shm = r /\ main_pid = r /\ sem = r /\ \A q \in Queues : mq[q] = r

\* A run that ended by itself, or failed to start, leaves no object behind
\* (ipc.c:183-195, also on the way out of a failed ipc_create), even if runs
\* start at the same time.
NothingLeaks == \A r \in Runs : pc[r] \in {"failed", "exited"} => Objects(r) = {}
=============================================================================
