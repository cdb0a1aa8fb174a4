------------------------- MODULE IpcLifecycleProofs -------------------------
(***************************************************************************)
(* Proofs about the System V objects: for any number of runs, queues and   *)
(* crashes, no run that ends leaves an object behind; and as long as no    *)
(* two runs start at once, leftovers of a crash are always found, the next *)
(* run recovers from them, and the objects of a running simulation are     *)
(* never touched.                                                          *)
(***************************************************************************)
EXTENDS IpcLifecycle, TLAPS

-----------------------------------------------------------------------------
(* What holds however the runs overlap *)

\* An object exists only from the step that creates it to the step of the same
\* run that removes it, unless the run crashes in between.
OwnersAlive ==
  \A r \in Runs :
    /\ shm = r => pc[r] \in {"create_sem", "create_mq", "store_pid", "running", "destroy_mq",
                             "destroy_sem", "destroy_shm", "crashed"}
    /\ sem = r => pc[r] \in {"create_mq", "store_pid", "running", "destroy_mq", "destroy_sem",
                             "crashed"}
    /\ \A q \in Queues :
         mq[q] = r => /\ pc[r] \in {"create_mq", "store_pid", "running", "destroy_mq", "crashed"}
                      /\ q <= made[r]

\* The queues are created in order, all of them before main stores its pid.
QueuesInOrder ==
  \A r \in Runs :
    /\ pc[r] = "create_mq" => made[r] < QueueCount
    /\ pc[r] \in {"store_pid", "running"} => made[r] = QueueCount
    /\ pc[r] \in {"off", "create_shm", "create_sem"} \cup Cleaning => made[r] = 0

Always == TypeOK /\ OwnersAlive /\ QueuesInOrder

-----------------------------------------------------------------------------
(* What holds while no two runs start at once *)

OneStarting == \A r, s \in Runs : Starting(r) /\ Starting(s) => r = s

\* All objects belong to the run that owns the segment.
OneOwner == sem \in {None, shm} /\ \A q \in Queues : mq[q] \in {None, shm}

\* The cleanup is not disturbed, and does not disturb a running simulation.
CleanupAlone ==
  \A r \in Runs :
    /\ pc[r] \in Cleaning => \A s \in Runs : pc[s] # "running"
    /\ pc[r] \in {"clean_sem", "clean_shm"} => \A q \in Queues : mq[q] = None
    /\ pc[r] = "clean_shm" => sem = None

\* A run has what it has created so far.
CreationIntact ==
  \A r \in Runs :
    /\ pc[r] \in {"create_sem", "create_mq", "store_pid", "running"} => shm = r
    /\ pc[r] \in {"create_mq", "store_pid", "running"} =>
         sem = r /\ \A q \in Queues : q <= made[r] => mq[q] = r
    /\ pc[r] = "running" => main_pid = r

\* A run that saw no other one alive stays alone until it has started, finds what
\* a crash left, and does not fail.
AloneSucceeds ==
  \A r \in Runs : ~rival[r] =>
    /\ Starting(r) => \A s \in Runs : Alive(s) => s = r
    /\ pc[r] \in Cleaning => shm = stale[r]
    /\ pc[r] = "create_shm" => shm = None
    /\ pc[r] \in Removing => made[r] = QueueCount
    /\ pc[r] # "failed"

Quiet == OneStarting /\ OneOwner /\ CleanupAlone /\ CreationIntact /\ AloneSucceeds

LifecycleInv == Always /\ (~overlap => Quiet)

-----------------------------------------------------------------------------
(* The steps keep it *)

\* The steps are the steps of a run, or change nothing.
LEMMA OfARun ==
  ASSUME [Next]_vars
  PROVE  (\E r \in Runs : Step(r) \/ Crash(r)) \/ UNCHANGED vars
BY DEF Next, AllEnded

\* Types: only the creator of the segment stores its pid in it (main.c:196-198).
LEMMA TypeNext ==
  ASSUME TypeOK, QueuesInOrder,
         NEW r \in Runs, Step(r) \/ Crash(r)
  PROVE  TypeOK'
<1>1. CASE CheckStale(r)
  BY <1>1, LifecycleAssumption DEF CheckStale, Goto, TypeOK, Queues, Cleaning, Creating,
     Removing
<1>2. CASE CleanQueues(r)
  BY <1>2, LifecycleAssumption DEF CleanQueues, Goto, TypeOK, Queues, Cleaning, Creating,
     Removing
<1>3. CASE CleanSemaphores(r)
  BY <1>3, LifecycleAssumption DEF CleanSemaphores, Goto, TypeOK, Queues, Cleaning, Creating,
     Removing
<1>4. CASE CleanSegment(r)
  BY <1>4, LifecycleAssumption DEF CleanSegment, Goto, RemoveSegment, TypeOK, Queues, Cleaning,
     Creating, Removing
<1>5. CASE CreateSegment(r)
  BY <1>5, LifecycleAssumption DEF CreateSegment, Goto, TypeOK, Queues, Cleaning, Creating,
     Removing
<1>6. CASE CreateSemaphores(r)
  BY <1>6, LifecycleAssumption DEF CreateSemaphores, Goto, TypeOK, Queues, Cleaning, Creating,
     Removing
<1>7. CASE CreateQueue(r)
  <2>1. made[r] \in Nat /\ made[r] + 1 \in 0..QueueCount
    BY <1>7, LifecycleAssumption DEF CreateQueue, TypeOK, QueuesInOrder
  <2>2. made' \in [Runs -> 0..QueueCount] /\ mq' \in [Queues -> Runs \cup {None}]
    BY <1>7, <2>1 DEF CreateQueue, TypeOK
  <2>3. pc' \in [Runs -> Cleaning \cup Creating \cup Removing
                         \cup {"off", "running", "failed", "exited", "crashed"}]
    BY <1>7 DEF CreateQueue, Goto, TypeOK, Creating, Removing
  <2>4. QED
    BY <1>7, <2>2, <2>3 DEF CreateQueue, TypeOK
<1>8. CASE StorePid(r)
  BY <1>8, LifecycleAssumption DEF StorePid, Goto, TypeOK, Queues, Cleaning, Creating, Removing
<1>9. CASE BeginDestroy(r)
  BY <1>9, LifecycleAssumption DEF BeginDestroy, Goto, TypeOK, Queues, Cleaning, Creating,
     Removing
<1>10. CASE DestroyQueue(r)
  BY <1>10, LifecycleAssumption DEF DestroyQueue, Goto, TypeOK, Queues, Cleaning, Creating,
     Removing
<1>11. CASE DestroySemaphores(r)
  BY <1>11, LifecycleAssumption DEF DestroySemaphores, Goto, TypeOK, Queues, Cleaning,
     Creating, Removing
<1>12. CASE DestroySegment(r)
  BY <1>12, LifecycleAssumption DEF DestroySegment, Goto, RemoveSegment, TypeOK, Queues,
     Cleaning, Creating, Removing
<1>13. CASE Crash(r)
  BY <1>13, LifecycleAssumption DEF Crash, TypeOK, Queues, Cleaning, Creating, Removing
<1>14. QED
  BY <1>1, <1>2, <1>3, <1>4, <1>5, <1>6, <1>7, <1>8, <1>9, <1>10, <1>11, <1>12, <1>13 DEF Step

\* A run creates before it serves, and removes before it ends.
LEMMA OwnersNext ==
  ASSUME TypeOK, OwnersAlive, QueuesInOrder,
         NEW r \in Runs, Step(r) \/ Crash(r)
  PROVE  OwnersAlive'
<1>1. CASE CheckStale(r)
  BY <1>1, LifecycleAssumption DEF CheckStale, Goto, OwnersAlive, QueuesInOrder, TypeOK,
     Queues, Cleaning, Creating, Removing
<1>2. CASE CleanQueues(r)
  BY <1>2, LifecycleAssumption DEF CleanQueues, Goto, OwnersAlive, QueuesInOrder, TypeOK,
     Queues, Cleaning, Creating, Removing
<1>3. CASE CleanSemaphores(r)
  BY <1>3, LifecycleAssumption DEF CleanSemaphores, Goto, OwnersAlive, QueuesInOrder, TypeOK,
     Queues, Cleaning, Creating, Removing
<1>4. CASE CleanSegment(r)
  BY <1>4, LifecycleAssumption DEF CleanSegment, Goto, RemoveSegment, OwnersAlive,
     QueuesInOrder, TypeOK, Queues, Cleaning, Creating, Removing
<1>5. CASE CreateSegment(r)
  BY <1>5, LifecycleAssumption DEF CreateSegment, Goto, OwnersAlive, QueuesInOrder, TypeOK,
     Queues, Cleaning, Creating, Removing
<1>6. CASE CreateSemaphores(r)
  BY <1>6, LifecycleAssumption DEF CreateSemaphores, Goto, OwnersAlive, QueuesInOrder, TypeOK,
     Queues, Cleaning, Creating, Removing
<1>7. CASE CreateQueue(r)
  BY <1>7, LifecycleAssumption DEF CreateQueue, Goto, OwnersAlive, QueuesInOrder, TypeOK,
     Queues, Cleaning, Creating, Removing
<1>8. CASE StorePid(r)
  BY <1>8, LifecycleAssumption DEF StorePid, Goto, OwnersAlive, QueuesInOrder, TypeOK, Queues,
     Cleaning, Creating, Removing
<1>9. CASE BeginDestroy(r)
  BY <1>9, LifecycleAssumption DEF BeginDestroy, Goto, OwnersAlive, QueuesInOrder, TypeOK,
     Queues, Cleaning, Creating, Removing
<1>10. CASE DestroyQueue(r)
  BY <1>10, LifecycleAssumption DEF DestroyQueue, Goto, OwnersAlive, QueuesInOrder, TypeOK,
     Queues, Cleaning, Creating, Removing
<1>11. CASE DestroySemaphores(r)
  BY <1>11, LifecycleAssumption DEF DestroySemaphores, Goto, OwnersAlive, QueuesInOrder,
     TypeOK, Queues, Cleaning, Creating, Removing
<1>12. CASE DestroySegment(r)
  BY <1>12, LifecycleAssumption DEF DestroySegment, Goto, RemoveSegment, OwnersAlive,
     QueuesInOrder, TypeOK, Queues, Cleaning, Creating, Removing
<1>13. CASE Crash(r)
  BY <1>13, LifecycleAssumption DEF Crash, OwnersAlive, QueuesInOrder, TypeOK, Queues,
     Cleaning, Creating, Removing, Alive
<1>14. QED
  BY <1>1, <1>2, <1>3, <1>4, <1>5, <1>6, <1>7, <1>8, <1>9, <1>10, <1>11, <1>12, <1>13 DEF Step

\* mq_create_all creates the queues one after the other.
LEMMA OrderNext ==
  ASSUME TypeOK, QueuesInOrder,
         NEW r \in Runs, Step(r) \/ Crash(r)
  PROVE  QueuesInOrder'
<1>1. CASE CheckStale(r)
  BY <1>1, LifecycleAssumption DEF CheckStale, Goto, QueuesInOrder, TypeOK, Queues, Cleaning,
     Creating, Removing
<1>2. CASE CleanQueues(r)
  BY <1>2, LifecycleAssumption DEF CleanQueues, Goto, QueuesInOrder, TypeOK, Queues, Cleaning,
     Creating, Removing
<1>3. CASE CleanSemaphores(r)
  BY <1>3, LifecycleAssumption DEF CleanSemaphores, Goto, QueuesInOrder, TypeOK, Queues,
     Cleaning, Creating, Removing
<1>4. CASE CleanSegment(r)
  BY <1>4, LifecycleAssumption DEF CleanSegment, Goto, RemoveSegment, QueuesInOrder, TypeOK,
     Queues, Cleaning, Creating, Removing
<1>5. CASE CreateSegment(r)
  BY <1>5, LifecycleAssumption DEF CreateSegment, Goto, QueuesInOrder, TypeOK, Queues,
     Cleaning, Creating, Removing
<1>6. CASE CreateSemaphores(r)
  BY <1>6, LifecycleAssumption DEF CreateSemaphores, Goto, QueuesInOrder, TypeOK, Queues,
     Cleaning, Creating, Removing
<1>7. CASE CreateQueue(r)
  BY <1>7, LifecycleAssumption DEF CreateQueue, Goto, QueuesInOrder, TypeOK, Queues, Cleaning,
     Creating, Removing
<1>8. CASE StorePid(r)
  BY <1>8, LifecycleAssumption DEF StorePid, Goto, QueuesInOrder, TypeOK, Queues, Cleaning,
     Creating, Removing
<1>9. CASE BeginDestroy(r)
  BY <1>9, LifecycleAssumption DEF BeginDestroy, Goto, QueuesInOrder, TypeOK, Queues, Cleaning,
     Creating, Removing
<1>10. CASE DestroyQueue(r)
  BY <1>10, LifecycleAssumption DEF DestroyQueue, Goto, QueuesInOrder, TypeOK, Queues,
     Cleaning, Creating, Removing
<1>11. CASE DestroySemaphores(r)
  BY <1>11, LifecycleAssumption DEF DestroySemaphores, Goto, QueuesInOrder, TypeOK, Queues,
     Cleaning, Creating, Removing
<1>12. CASE DestroySegment(r)
  BY <1>12, LifecycleAssumption DEF DestroySegment, Goto, RemoveSegment, QueuesInOrder, TypeOK,
     Queues, Cleaning, Creating, Removing
<1>13. CASE Crash(r)
  BY <1>13, LifecycleAssumption DEF Crash, QueuesInOrder, TypeOK, Queues, Cleaning, Creating,
     Removing
<1>14. QED
  BY <1>1, <1>2, <1>3, <1>4, <1>5, <1>6, <1>7, <1>8, <1>9, <1>10, <1>11, <1>12, <1>13 DEF Step

\* A run that begins to start sees every other one that has not finished.
LEMMA OneStartingNext ==
  ASSUME Always, Quiet, ~overlap, ~overlap',
         NEW r \in Runs, Step(r) \/ Crash(r)
  PROVE  OneStarting'
<1>1. CASE CheckStale(r)
  BY <1>1 DEF CheckStale, Goto, Always, TypeOK, Quiet, OneStarting, Starting, Cleaning,
     Creating, Removing
<1>2. CASE CleanQueues(r)
  BY <1>2 DEF CleanQueues, Goto, Always, TypeOK, Quiet, OneStarting, Starting, Cleaning,
     Creating, Removing
<1>3. CASE CleanSemaphores(r)
  BY <1>3 DEF CleanSemaphores, Goto, Always, TypeOK, Quiet, OneStarting, Starting, Cleaning,
     Creating, Removing
<1>4. CASE CleanSegment(r)
  BY <1>4 DEF CleanSegment, Goto, RemoveSegment, Always, TypeOK, Quiet, OneStarting, Starting,
     Cleaning, Creating, Removing
<1>5. CASE CreateSegment(r)
  BY <1>5 DEF CreateSegment, Goto, Always, TypeOK, Quiet, OneStarting, Starting, Cleaning,
     Creating, Removing
<1>6. CASE CreateSemaphores(r)
  BY <1>6 DEF CreateSemaphores, Goto, Always, TypeOK, Quiet, OneStarting, Starting, Cleaning,
     Creating, Removing
<1>7. CASE CreateQueue(r)
  BY <1>7 DEF CreateQueue, Goto, Always, TypeOK, Quiet, OneStarting, Starting, Cleaning,
     Creating, Removing
<1>8. CASE StorePid(r)
  BY <1>8 DEF StorePid, Goto, Always, TypeOK, Quiet, OneStarting, Starting, Cleaning, Creating,
     Removing
<1>9. CASE BeginDestroy(r)
  BY <1>9 DEF BeginDestroy, Goto, Always, TypeOK, Quiet, OneStarting, Starting, Cleaning,
     Creating, Removing
<1>10. CASE DestroyQueue(r)
  BY <1>10 DEF DestroyQueue, Goto, Always, TypeOK, Quiet, OneStarting, Starting, Cleaning,
     Creating, Removing
<1>11. CASE DestroySemaphores(r)
  BY <1>11 DEF DestroySemaphores, Goto, Always, TypeOK, Quiet, OneStarting, Starting, Cleaning,
     Creating, Removing
<1>12. CASE DestroySegment(r)
  BY <1>12 DEF DestroySegment, Goto, RemoveSegment, Always, TypeOK, Quiet, OneStarting,
     Starting, Cleaning, Creating, Removing
<1>13. CASE Crash(r)
  BY <1>13 DEF Crash, Always, TypeOK, Quiet, OneStarting, Starting, Cleaning, Creating,
     Removing
<1>14. QED
  BY <1>1, <1>2, <1>3, <1>4, <1>5, <1>6, <1>7, <1>8, <1>9, <1>10, <1>11, <1>12, <1>13 DEF Step

\* Only the owner of the segment creates, and the segment goes last.
LEMMA OneOwnerNext ==
  ASSUME Always, Quiet, ~overlap, ~overlap',
         NEW r \in Runs, Step(r) \/ Crash(r)
  PROVE  OneOwner'
<1>1. CASE CheckStale(r)
  BY <1>1, LifecycleAssumption DEF CheckStale, Goto, Always, TypeOK, OwnersAlive, Quiet,
     OneOwner, Queues
<1>2. CASE CleanQueues(r)
  BY <1>2, LifecycleAssumption DEF CleanQueues, Goto, Always, TypeOK, OwnersAlive, Quiet,
     OneOwner, Queues
<1>3. CASE CleanSemaphores(r)
  BY <1>3, LifecycleAssumption DEF CleanSemaphores, Goto, Always, TypeOK, OwnersAlive, Quiet,
     OneOwner, Queues
<1>4. CASE CleanSegment(r)
  BY <1>4, LifecycleAssumption DEF CleanSegment, Goto, RemoveSegment, Always, TypeOK,
     OwnersAlive, Quiet, OneOwner, Queues, CleanupAlone
<1>5. CASE CreateSegment(r)
  BY <1>5, LifecycleAssumption DEF CreateSegment, Goto, Always, TypeOK, OwnersAlive, Quiet,
     OneOwner, Queues
<1>6. CASE CreateSemaphores(r)
  BY <1>6, LifecycleAssumption DEF CreateSemaphores, Goto, Always, TypeOK, OwnersAlive, Quiet,
     OneOwner, Queues, CreationIntact
<1>7. CASE CreateQueue(r)
  BY <1>7, LifecycleAssumption DEF CreateQueue, Goto, Always, TypeOK, OwnersAlive, Quiet,
     OneOwner, Queues, CreationIntact
<1>8. CASE StorePid(r)
  BY <1>8, LifecycleAssumption DEF StorePid, Goto, Always, TypeOK, OwnersAlive, Quiet,
     OneOwner, Queues
<1>9. CASE BeginDestroy(r)
  BY <1>9, LifecycleAssumption DEF BeginDestroy, Goto, Always, TypeOK, OwnersAlive, Quiet,
     OneOwner, Queues
<1>10. CASE DestroyQueue(r)
  BY <1>10, LifecycleAssumption DEF DestroyQueue, Goto, Always, TypeOK, OwnersAlive, Quiet,
     OneOwner, Queues
<1>11. CASE DestroySemaphores(r)
  BY <1>11, LifecycleAssumption DEF DestroySemaphores, Goto, Always, TypeOK, OwnersAlive,
     Quiet, OneOwner, Queues
<1>12. CASE DestroySegment(r)
  BY <1>12, LifecycleAssumption DEF DestroySegment, Goto, RemoveSegment, Always, TypeOK,
     OwnersAlive, Quiet, OneOwner, Queues
<1>13. CASE Crash(r)
  BY <1>13, LifecycleAssumption DEF Crash, Always, TypeOK, OwnersAlive, Quiet, OneOwner, Queues
<1>14. QED
  BY <1>1, <1>2, <1>3, <1>4, <1>5, <1>6, <1>7, <1>8, <1>9, <1>10, <1>11, <1>12, <1>13 DEF Step

\* A running simulation is in use, and nobody creates while another run cleans.
LEMMA CleanupNext ==
  ASSUME Always, Quiet, ~overlap, ~overlap',
         NEW r \in Runs, Step(r) \/ Crash(r)
  PROVE  CleanupAlone'
<1>1. CASE CheckStale(r)
  BY <1>1, LifecycleAssumption DEF CheckStale, Goto, Always, TypeOK, Quiet, CleanupAlone,
     OneStarting, Starting, Queues, Cleaning, Creating, Removing, CreationIntact, InUse, Alive
<1>2. CASE CleanQueues(r)
  BY <1>2, LifecycleAssumption DEF CleanQueues, Goto, Always, TypeOK, Quiet, CleanupAlone,
     OneStarting, Starting, Queues, Cleaning, Creating, Removing
<1>3. CASE CleanSemaphores(r)
  BY <1>3, LifecycleAssumption DEF CleanSemaphores, Goto, Always, TypeOK, Quiet, CleanupAlone,
     OneStarting, Starting, Queues, Cleaning, Creating, Removing
<1>4. CASE CleanSegment(r)
  BY <1>4, LifecycleAssumption DEF CleanSegment, Goto, RemoveSegment, Always, TypeOK, Quiet,
     CleanupAlone, OneStarting, Starting, Queues, Cleaning, Creating, Removing
<1>5. CASE CreateSegment(r)
  BY <1>5, LifecycleAssumption DEF CreateSegment, Goto, Always, TypeOK, Quiet, CleanupAlone,
     OneStarting, Starting, Queues, Cleaning, Creating, Removing
<1>6. CASE CreateSemaphores(r)
  BY <1>6, LifecycleAssumption DEF CreateSemaphores, Goto, Always, TypeOK, Quiet, CleanupAlone,
     OneStarting, Starting, Queues, Cleaning, Creating, Removing
<1>7. CASE CreateQueue(r)
  BY <1>7, LifecycleAssumption DEF CreateQueue, Goto, Always, TypeOK, Quiet, CleanupAlone,
     OneStarting, Starting, Queues, Cleaning, Creating, Removing
<1>8. CASE StorePid(r)
  BY <1>8, LifecycleAssumption DEF StorePid, Goto, Always, TypeOK, Quiet, CleanupAlone,
     OneStarting, Starting, Queues, Cleaning, Creating, Removing
<1>9. CASE BeginDestroy(r)
  BY <1>9, LifecycleAssumption DEF BeginDestroy, Goto, Always, TypeOK, Quiet, CleanupAlone,
     OneStarting, Starting, Queues, Cleaning, Creating, Removing
<1>10. CASE DestroyQueue(r)
  BY <1>10, LifecycleAssumption DEF DestroyQueue, Goto, Always, TypeOK, Quiet, CleanupAlone,
     OneStarting, Starting, Queues, Cleaning, Creating, Removing
<1>11. CASE DestroySemaphores(r)
  BY <1>11, LifecycleAssumption DEF DestroySemaphores, Goto, Always, TypeOK, Quiet,
     CleanupAlone, OneStarting, Starting, Queues, Cleaning, Creating, Removing
<1>12. CASE DestroySegment(r)
  BY <1>12, LifecycleAssumption DEF DestroySegment, Goto, RemoveSegment, Always, TypeOK, Quiet,
     CleanupAlone, OneStarting, Starting, Queues, Cleaning, Creating, Removing
<1>13. CASE Crash(r)
  BY <1>13, LifecycleAssumption DEF Crash, Always, TypeOK, Quiet, CleanupAlone, OneStarting,
     Starting, Queues, Cleaning, Creating, Removing
<1>14. QED
  BY <1>1, <1>2, <1>3, <1>4, <1>5, <1>6, <1>7, <1>8, <1>9, <1>10, <1>11, <1>12, <1>13 DEF Step

\* Nobody removes what a run that starts or serves has created.
LEMMA CreationNext ==
  ASSUME Always, Quiet, ~overlap, ~overlap',
         NEW r \in Runs, Step(r) \/ Crash(r)
  PROVE  CreationIntact'
<1>1. CASE CheckStale(r)
  BY <1>1, LifecycleAssumption DEF CheckStale, Goto, Always, TypeOK, OwnersAlive,
     QueuesInOrder, Quiet, OneOwner, CleanupAlone, CreationIntact, OneStarting, Starting,
     Queues, Cleaning, Creating, Removing
<1>2. CASE CleanQueues(r)
  BY <1>2, LifecycleAssumption DEF CleanQueues, Goto, Always, TypeOK, OwnersAlive,
     QueuesInOrder, Quiet, OneOwner, CleanupAlone, CreationIntact, OneStarting, Starting,
     Queues, Cleaning, Creating, Removing
<1>3. CASE CleanSemaphores(r)
  BY <1>3, LifecycleAssumption DEF CleanSemaphores, Goto, Always, TypeOK, OwnersAlive,
     QueuesInOrder, Quiet, OneOwner, CleanupAlone, CreationIntact, OneStarting, Starting,
     Queues, Cleaning, Creating, Removing
<1>4. CASE CleanSegment(r)
  BY <1>4, LifecycleAssumption DEF CleanSegment, Goto, RemoveSegment, Always, TypeOK,
     OwnersAlive, QueuesInOrder, Quiet, OneOwner, CleanupAlone, CreationIntact, OneStarting,
     Starting, Queues, Cleaning, Creating, Removing
<1>5. CASE CreateSegment(r)
  BY <1>5, LifecycleAssumption DEF CreateSegment, Goto, Always, TypeOK, OwnersAlive,
     QueuesInOrder, Quiet, OneOwner, CleanupAlone, CreationIntact, OneStarting, Starting,
     Queues, Cleaning, Creating, Removing
<1>6. CASE CreateSemaphores(r)
  BY <1>6, LifecycleAssumption DEF CreateSemaphores, Goto, Always, TypeOK, OwnersAlive,
     QueuesInOrder, Quiet, OneOwner, CleanupAlone, CreationIntact, OneStarting, Starting,
     Queues, Cleaning, Creating, Removing
<1>7. CASE CreateQueue(r)
  BY <1>7, LifecycleAssumption DEF CreateQueue, Goto, Always, TypeOK, OwnersAlive,
     QueuesInOrder, Quiet, OneOwner, CleanupAlone, CreationIntact, OneStarting, Starting,
     Queues, Cleaning, Creating, Removing
<1>8. CASE StorePid(r)
  BY <1>8, LifecycleAssumption DEF StorePid, Goto, Always, TypeOK, OwnersAlive, QueuesInOrder,
     Quiet, OneOwner, CleanupAlone, CreationIntact, OneStarting, Starting, Queues, Cleaning,
     Creating, Removing
<1>9. CASE BeginDestroy(r)
  BY <1>9, LifecycleAssumption DEF BeginDestroy, Goto, Always, TypeOK, OwnersAlive,
     QueuesInOrder, Quiet, OneOwner, CleanupAlone, CreationIntact, OneStarting, Starting,
     Queues, Cleaning, Creating, Removing
<1>10. CASE DestroyQueue(r)
  BY <1>10, LifecycleAssumption DEF DestroyQueue, Goto, Always, TypeOK, OwnersAlive,
     QueuesInOrder, Quiet, OneOwner, CleanupAlone, CreationIntact, OneStarting, Starting,
     Queues, Cleaning, Creating, Removing
<1>11. CASE DestroySemaphores(r)
  BY <1>11, LifecycleAssumption DEF DestroySemaphores, Goto, Always, TypeOK, OwnersAlive,
     QueuesInOrder, Quiet, OneOwner, CleanupAlone, CreationIntact, OneStarting, Starting,
     Queues, Cleaning, Creating, Removing
<1>12. CASE DestroySegment(r)
  BY <1>12, LifecycleAssumption DEF DestroySegment, Goto, RemoveSegment, Always, TypeOK,
     OwnersAlive, QueuesInOrder, Quiet, OneOwner, CleanupAlone, CreationIntact, OneStarting,
     Starting, Queues, Cleaning, Creating, Removing
<1>13. CASE Crash(r)
  BY <1>13, LifecycleAssumption DEF Crash, Always, TypeOK, OwnersAlive, QueuesInOrder, Quiet,
     OneOwner, CleanupAlone, CreationIntact, OneStarting, Starting, Queues, Cleaning, Creating,
     Removing
<1>14. QED
  BY <1>1, <1>2, <1>3, <1>4, <1>5, <1>6, <1>7, <1>8, <1>9, <1>10, <1>11, <1>12, <1>13 DEF Step

\* A step of a living run r, other than its first look around, concerns only r: while
\* r lives, a run without rivals is r itself or has started already.
LEMMA AloneFrame ==
  ASSUME TypeOK, AloneSucceeds, NEW r \in Runs, Alive(r), NEW x, pc' = [pc EXCEPT ![r] = x],
         UNCHANGED <<stale, rival>>, \A s \in Runs \ {r} : made'[s] = made[s],
         x \in Cleaning \cup Creating => Starting(r),
         ~rival[r] => /\ x \in Cleaning => shm' = stale[r]
                      /\ x = "create_shm" => shm' = None
                      /\ x \in Removing => made'[r] = QueueCount
                      /\ x # "failed"
  PROVE  AloneSucceeds'
<1>1. pc'[r] = x /\ \A s \in Runs \ {r} : pc'[s] = pc[s]
  BY DEF TypeOK
<1>2. \A s \in Runs : (Alive(s))' => Alive(s)
  BY <1>1 DEF Alive
<1>3. ASSUME NEW s \in Runs \ {r}, ~rival[s]
      PROVE  /\ ~(Starting(s))'
             /\ pc'[s] \in Removing => made'[s] = QueueCount
             /\ pc'[s] # "failed"
  <2>1. ~Starting(s)
    BY <1>3 DEF AloneSucceeds
  <2>2. QED
    BY <1>1, <1>3, <2>1 DEF AloneSucceeds, Starting
<1>4. ASSUME NEW s \in Runs \ {r}
      PROVE  ~(Starting(s))' => pc'[s] \notin Cleaning /\ pc'[s] # "create_shm"
  BY DEF Starting, Creating
<1>5. ASSUME ~rival[r], (Starting(r))', NEW s \in Runs, (Alive(s))'
      PROVE  s = r
  BY <1>1, <1>2, <1>5 DEF AloneSucceeds, Starting
<1>6. QED
  BY <1>1, <1>3, <1>4, <1>5 DEF AloneSucceeds

\* A run without rivals finds what a crash left, and then nothing in its way.
LEMMA AloneNext ==
  ASSUME Always, Quiet, ~overlap, ~overlap',
         NEW r \in Runs, Step(r) \/ Crash(r)
  PROVE  AloneSucceeds'
<1>1. CASE CheckStale(r)
  <2>1. \A s \in Runs : ~Starting(s)
    BY <1>1 DEF CheckStale, Always, TypeOK
  <2>2. rival'[r] = (\E s \in Runs : Alive(s)) /\ stale'[r] = shm /\ shm' = shm
        /\ pc'[r] = (IF shm = None \/ InUse THEN "create_shm" ELSE "clean_mq")
    BY <1>1 DEF CheckStale, Goto, Always, TypeOK
  <2>3. \A s \in Runs \ {r} : pc'[s] = pc[s] /\ rival'[s] = rival[s] /\ stale'[s] = stale[s]
    BY <1>1 DEF CheckStale, Goto, Always, TypeOK
  <2>4. InUse => \E s \in Runs : Alive(s)
    BY DEF InUse, Always, TypeOK
  <2>5. ASSUME ~rival'[r]
        PROVE  /\ \A s \in Runs : (Alive(s))' => s = r
               /\ pc'[r] \in Cleaning => shm' = stale'[r]
               /\ pc'[r] = "create_shm" => shm' = None
               /\ pc'[r] \notin Removing /\ pc'[r] # "failed"
    BY <2>2, <2>3, <2>4, <2>5 DEF Alive, Cleaning, Removing
  <2>6. ASSUME NEW s \in Runs \ {r}, ~rival'[s]
        PROVE  /\ ~(Starting(s))'
               /\ pc'[s] \in Removing => made'[s] = QueueCount
               /\ pc'[s] # "failed"
    <3>1. made' = made
      BY <1>1 DEF CheckStale
    <3>2. QED
      BY <2>1, <2>3, <2>6, <3>1 DEF Starting, Quiet, AloneSucceeds
  <2>7. ASSUME NEW s \in Runs \ {r}
        PROVE  (~Starting(s))' => pc'[s] \notin Cleaning /\ pc'[s] # "create_shm"
    BY DEF Starting, Creating
  <2>8. QED
    BY <2>5, <2>6, <2>7 DEF AloneSucceeds
<1>2. /\ TypeOK /\ QueuesInOrder /\ AloneSucceeds /\ LifecycleAssumption
      /\ \A x \in {"clean_mq", "clean_sem", "clean_shm", "create_shm", "create_sem", "create_mq",
                   "store_pid"} : pc[r] = x => Starting(r)
  BY LifecycleAssumption DEF Always, Quiet, Starting, Cleaning, Creating
<1>3. CASE CleanQueues(r)
  BY <1>2, <1>3, AloneFrame DEF CleanQueues, Goto, Alive, AloneSucceeds, Cleaning, Removing
<1>4. CASE CleanSemaphores(r)
  BY <1>2, <1>4, AloneFrame DEF CleanSemaphores, Goto, Alive, AloneSucceeds, Cleaning, Removing
<1>5. CASE CleanSegment(r)
  <2>1. ~rival[r] => shm' = None
    BY <1>2, <1>5 DEF CleanSegment, Goto, RemoveSegment, AloneSucceeds, Cleaning
  <2>2. QED
    BY <1>2, <1>5, <2>1, AloneFrame DEF CleanSegment, Goto, Alive, Cleaning, Removing
<1>6. CASE CreateSegment(r)
  <2>1. ~rival[r] => shm = None
    BY <1>2, <1>6 DEF CreateSegment, Goto, AloneSucceeds
  <2>2. QED
    BY <1>2, <1>6, <2>1, AloneFrame DEF CreateSegment, Goto, Alive, Cleaning, Creating, Removing
<1>7. CASE CreateSemaphores(r)
  <2>1. sem = None
    <3>1. shm = r /\ sem # r
      BY <1>7 DEF CreateSemaphores, Goto, Always, OwnersAlive, Quiet, CreationIntact
    <3>2. QED
      BY <3>1 DEF Quiet, OneOwner
  <2>2. QED
    BY <1>2, <1>7, <2>1, AloneFrame DEF CreateSemaphores, Goto, Alive, Cleaning, Removing
<1>8. CASE CreateQueue(r)
  <2>1. /\ made[r] \in Nat /\ made[r] < QueueCount /\ QueueCount \in Nat
        /\ pc[r] = "create_mq" /\ made \in [Runs -> 0..QueueCount]
    BY <1>2, <1>8 DEF CreateQueue, TypeOK, QueuesInOrder
  <2>2. made[r] + 1 \in Queues /\ ~(made[r] + 1 <= made[r])
    BY <2>1 DEF Queues
  <2>3. mq[made[r] + 1] = None
    <3>1. shm = r /\ mq[made[r] + 1] # r
      BY <2>1, <2>2 DEF Always, OwnersAlive, Quiet, CreationIntact
    <3>2. QED
      BY <2>2, <3>1 DEF Quiet, OneOwner
  <2>4. PICK x \in {"store_pid", "create_mq"} : pc' = [pc EXCEPT ![r] = x]
    BY <1>8, <2>3 DEF CreateQueue, Goto
  <2>5. UNCHANGED <<stale, rival>> /\ \A s \in Runs \ {r} : made'[s] = made[s]
    BY <1>8, <2>1, <2>3 DEF CreateQueue
  <2>6. QED
    BY <1>2, <2>1, <2>4, <2>5, AloneFrame DEF Alive, Cleaning, Removing
<1>9. CASE StorePid(r)
  BY <1>2, <1>9, AloneFrame DEF StorePid, Goto, Alive, Cleaning, Creating, Removing
<1>10. CASE BeginDestroy(r)
  <2>1. made[r] = QueueCount
    BY <1>2, <1>10 DEF BeginDestroy, Goto, QueuesInOrder
  <2>2. QED
    BY <1>2, <1>10, <2>1, AloneFrame DEF BeginDestroy, Goto, Alive, Cleaning, Creating, Removing
<1>11. CASE DestroyQueue(r)
  <2>1. pc[r] = "destroy_mq" /\ UNCHANGED <<shm, stale, rival, made>>
    BY <1>11 DEF DestroyQueue, Goto
  <2>2. PICK x \in {"destroy_mq", "destroy_sem"} : pc' = [pc EXCEPT ![r] = x]
    BY <1>2, <1>11 DEF DestroyQueue, Goto, TypeOK
  <2>3. ~rival[r] => made[r] = QueueCount
    BY <1>2, <2>1 DEF AloneSucceeds, Removing
  <2>4. QED
    BY <1>2, <2>1, <2>2, <2>3, AloneFrame DEF Alive, Cleaning, Creating, Removing
<1>12. CASE DestroySemaphores(r)
  <2>1. ~rival[r] => made[r] = QueueCount
    BY <1>2, <1>12 DEF DestroySemaphores, Goto, AloneSucceeds, Removing
  <2>2. QED
    BY <1>2, <1>12, <2>1, AloneFrame DEF DestroySemaphores, Goto, Alive, Cleaning,
       Creating, Removing
<1>13. CASE DestroySegment(r)
  <2>1. ~rival[r] => made[r] = QueueCount
    BY <1>2, <1>13 DEF DestroySegment, Goto, AloneSucceeds, Removing
  <2>2. QED
    BY <1>2, <1>13, <2>1, AloneFrame DEF DestroySegment, Goto, Alive, Cleaning, Creating, Removing
<1>14. CASE Crash(r)
  BY <1>2, <1>14, AloneFrame DEF Crash, Alive, Cleaning, Creating, Removing
<1>15. QED
  BY <1>1, <1>3, <1>4, <1>5, <1>6, <1>7, <1>8, <1>9, <1>10, <1>11, <1>12, <1>13, <1>14 DEF Step

\* Together, for a step during which no two runs start at once.
LEMMA QuietNext ==
  ASSUME Always, Quiet, ~overlap, ~overlap', NEW r \in Runs, Step(r) \/ Crash(r)
  PROVE  Quiet'
<1>1. OneStarting'
  BY OneStartingNext
<1>2. OneOwner'
  BY OneOwnerNext
<1>3. CleanupAlone'
  BY CleanupNext
<1>4. CreationIntact'
  BY CreationNext
<1>5. AloneSucceeds'
  BY AloneNext
<1>6. QED
  BY <1>1, <1>2, <1>3, <1>4, <1>5 DEF Quiet

\* Once runs have overlapped, they have.
LEMMA OverlapStays ==
  ASSUME TypeOK, overlap, NEW r \in Runs, Step(r) \/ Crash(r)
  PROVE  overlap'
BY DEF TypeOK, Step, CheckStale, CleanQueues, CleanSemaphores, CleanSegment, CreateSegment,
   CreateSemaphores, CreateQueue, StorePid, BeginDestroy, DestroyQueue, DestroySemaphores,
   DestroySegment, Crash

\* A state in which nothing changes.
LEMMA LifecycleStutter ==
  ASSUME LifecycleInv, UNCHANGED vars
  PROVE  LifecycleInv'
<1>1. Always'
  BY DEF LifecycleInv, vars, Always, TypeOK, OwnersAlive, QueuesInOrder
<1>2. ~overlap' => Quiet'
  BY DEF LifecycleInv, vars, Quiet, OneStarting, Starting, OneOwner, CleanupAlone,
     CreationIntact, AloneSucceeds, Alive
<1>3. QED
  BY <1>1, <1>2 DEF LifecycleInv

-----------------------------------------------------------------------------
(* Theorems *)

\* The invariant holds at the start.
LEMMA LifecycleInit == Init => LifecycleInv
<1> SUFFICES ASSUME Init PROVE LifecycleInv
  OBVIOUS
<1>1. TypeOK
  <2>1. crashes \in 0..MaxCrashes /\ made \in [Runs -> 0..QueueCount]
    BY LifecycleAssumption DEF Init
  <2>2. /\ shm \in Runs \cup {None} /\ main_pid \in {None, shm} /\ sem \in Runs \cup {None}
        /\ mq \in [Queues -> Runs \cup {None}] /\ stale \in [Runs -> Runs \cup {None}]
        /\ rival \in [Runs -> BOOLEAN] /\ overlap \in BOOLEAN
    BY DEF Init
  <2>3. pc \in [Runs -> Cleaning \cup Creating \cup Removing
                        \cup {"off", "running", "failed", "exited", "crashed"}]
    BY DEF Init
  <2>4. QED
    BY <2>1, <2>2, <2>3 DEF TypeOK
<1>2. OwnersAlive /\ QueuesInOrder
  BY LifecycleAssumption DEF Init, OwnersAlive, QueuesInOrder, Cleaning
<1>3. OneStarting /\ OneOwner /\ CleanupAlone
  BY DEF Init, OneStarting, Starting, OneOwner, CleanupAlone, Cleaning, Creating
<1>4. CreationIntact /\ AloneSucceeds
  BY DEF Init, CreationIntact, AloneSucceeds, Starting, Cleaning, Creating, Removing
<1>5. QED
  BY <1>1, <1>2, <1>3, <1>4 DEF LifecycleInv, Always, Quiet

\* The inductive invariant: an object exists only between the two steps of its run
\* that create and remove it; and without overlap, all objects belong to one run,
\* the cleanup meets nobody, and a run without rivals gets what it needs
\* (ipc.c, main.c).
THEOREM LifecycleInvariant == Spec => []LifecycleInv
<1>1. LifecycleInv /\ [Next]_vars => LifecycleInv'
  <2> SUFFICES ASSUME LifecycleInv, [Next]_vars PROVE LifecycleInv'
    OBVIOUS
  <2>1. CASE UNCHANGED vars
    BY <2>1, LifecycleStutter
  <2>2. CASE \E r \in Runs : Step(r) \/ Crash(r)
    <3>1. PICK r \in Runs : Step(r) \/ Crash(r)
      BY <2>2
    <3>2. Always /\ TypeOK /\ OwnersAlive /\ QueuesInOrder
      BY DEF LifecycleInv, Always
    <3>3. TypeOK'
      BY <3>1, <3>2, TypeNext
    <3>4. OwnersAlive'
      BY <3>1, <3>2, OwnersNext
    <3>5. QueuesInOrder'
      BY <3>1, <3>2, OrderNext
    <3>6. ASSUME ~overlap' PROVE Quiet'
      <4>1. ~overlap
        BY <3>1, <3>2, <3>6, OverlapStays
      <4>2. Quiet
        BY <4>1 DEF LifecycleInv
      <4>3. QED
        BY <3>1, <3>2, <3>6, <4>1, <4>2, QuietNext
    <3>7. QED
      BY <3>3, <3>4, <3>5, <3>6 DEF LifecycleInv, Always
  <2>3. QED
    BY <2>1, <2>2, OfARun
<1>2. QED
  BY <1>1, LifecycleInit, PTL DEF Spec

\* A run that ended by itself, or failed to start, leaves no object behind, even if
\* runs start at the same time (ipc.c:183-195).
THEOREM NothingLeaksHolds == Spec => []NothingLeaks
<1>1. LifecycleInv => NothingLeaks
  <2> SUFFICES ASSUME LifecycleInv, NEW r \in Runs, pc[r] \in {"failed", "exited"}
               PROVE  Objects(r) = {}
    BY DEF NothingLeaks
  <2>1. shm # r /\ sem # r /\ \A q \in Queues : mq[q] # r
    BY DEF LifecycleInv, Always, OwnersAlive
  <2>2. QED
    BY <2>1 DEF Objects
<1>2. QED
  BY <1>1, LifecycleInvariant, PTL

\* Without the segment there is no semaphore set and no queue, so whatever a crash
\* leaves is found (ipc.c:27-83).
THEOREM LeftoversFindableHolds == Spec => []LeftoversFindable
<1>1. LifecycleInv => LeftoversFindable
  BY DEF LifecycleInv, Quiet, OneOwner, LeftoversFindable
<1>2. QED
  BY <1>1, LifecycleInvariant, PTL

\* After a crash, wherever it happened, the next run succeeds
\* (tests/test15_sigkill_recovery.sh:12).
THEOREM CrashRecoveredHolds == Spec => []CrashRecovered
<1>1. LifecycleInv => CrashRecovered
  BY DEF LifecycleInv, Quiet, AloneSucceeds, CrashRecovered
<1>2. QED
  BY <1>1, LifecycleInvariant, PTL

\* The objects of a run that is serving tourists are all its own and all there
\* (ipc.c:49-54).
THEOREM RunningIntactHolds == Spec => []RunningIntact
<1>1. LifecycleInv => RunningIntact
  <2> SUFFICES ASSUME LifecycleInv, ~overlap, NEW r \in Runs, pc[r] = "running"
               PROVE  shm = r /\ main_pid = r /\ sem = r /\ \A q \in Queues : mq[q] = r
    BY DEF RunningIntact
  <2>1. made[r] = QueueCount
    BY DEF LifecycleInv, Always, QueuesInOrder
  <2>2. QED
    BY <2>1, LifecycleAssumption DEF LifecycleInv, Quiet, CreationIntact, Queues
<1>2. QED
  BY <1>1, LifecycleInvariant, PTL
=============================================================================
