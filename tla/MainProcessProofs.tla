------------------------- MODULE MainProcessProofs --------------------------
(***************************************************************************)
(* Proofs about main: for any set of workers, any order of forking them    *)
(* and any number of kills and stops, the generator comes after every      *)
(* worker is ready, and nothing is left when main ends.                    *)
(***************************************************************************)
EXTENDS MainProcess, FiniteSetTheorems, TLAPS

ChildPCs == Unborn \cup {"init", "ready", "head", "on_mq", "on_sem", "armed", "nap", "last",
                         "zombie", "reaped"}

\* The part of the types the proofs need.
MainTypes ==
  /\ cpc \in [Children -> ChildPCs]
  /\ worker_ready \in Nat
  /\ posted \in SUBSET Workers

\* A worker signals ready once.
ReadyOnce == \A w \in posted : cpc[w] \notin Unborn \cup {"init", "ready"}

\* The semaphore holds no more than what was posted.
ReadyCounted == worker_ready <= Cardinality(posted)

\* The generator is forked only behind the barrier.
BehindBarrier == mpc = "generator" \/ cpc["generator"] \notin Unborn => posted = Workers

Gone(c) == cpc[c] \in Unborn \cup {"reaped"}

\* Nobody is left when waitpid reports no child, and nobody is forked later.
NobodyLeft ==
  /\ mpc \in {"report", "done"} => \A c \in Children : Gone(c)
  /\ mpc = "done" => ipc = {}

MainInv == MainTypes /\ ReadyOnce /\ ReadyCounted /\ BehindBarrier /\ NobodyLeft

-----------------------------------------------------------------------------
(* What a step can be *)

\* main goes on, to where neither the generator nor the end is next.
MainElsewhere == mpc' = mpc \/ mpc' \notin {"generator", "report", "done"}

\* A step of main that concerns no child.
QuietStep ==
  /\ UNCHANGED <<cpc, worker_ready, posted>>
  /\ MainElsewhere
  /\ ipc' \subseteq ipc

\* A step of child c, or its end, or its being reaped.
ChildStep(c) ==
  /\ cpc[c] \notin Unborn \cup {"reaped"}
  /\ \E p \in ChildPCs \ (Unborn \cup {"init"}) :
       cpc' = [cpc EXCEPT ![c] = p] /\ (p = "ready" => cpc[c] = "init")
  /\ UNCHANGED <<worker_ready, posted, ipc>>
  /\ MainElsewhere

\* Worker w signals ready.
ReadyStep(w) ==
  /\ cpc[w] = "ready" /\ cpc' = [cpc EXCEPT ![w] = "head"]
  /\ worker_ready' = worker_ready + 1
  /\ posted' = posted \cup {w}
  /\ UNCHANGED <<mpc, ipc>>

\* waitpid says that there is no child.
NoChildStep ==
  /\ ChildrenLeft = {} /\ mpc' = "report"
  /\ UNCHANGED <<cpc, worker_ready, posted, ipc>>

\* The steps of main that only go on.
LEMMA MainSteps ==
  ASSUME MainStep
  PROVE  \/ QuietStep \/ SpawnWorker \/ WaitWorkersReady \/ SpawnGenerator
         \/ NoChildStep \/ DestroyIpc \/ \E c \in Children : ChildStep(c)
<1> USE DEF MainAt, mainKeeps, childVars, boundVars, sharedVars, QuietStep, MainElsewhere
<1>1. CASE CheckSpawned \/ BarrierFails \/ LoopTest \/ CheckTime \/ GoToSleep \/ AlarmRings
  BY <1>1 DEF CheckSpawned, BarrierFails, LoopTest, CheckTime, GoToSleep, AlarmRings
<1>2. CASE StopRunning \/ TermChildren \/ RemoveQueues \/ RemoveSemaphores
  BY <1>2 DEF StopRunning, TermChildren, RemoveQueues, RemoveSemaphores
<1>3. Reap /\ UNCHANGED <<worker_ready, posted, ipc>> /\ MainElsewhere
        => \E c \in Children : ChildStep(c)
  BY DEF Reap, Zombies, ChildStep, ChildPCs, Unborn
<1>4. CASE ReapZombies
  BY <1>3, <1>4 DEF ReapZombies
<1>5. CASE WaitForWorkers
  BY <1>3, <1>5 DEF WaitForWorkers, NoChildStep
<1>6. QED
  BY <1>1, <1>2, <1>4, <1>5 DEF MainStep

\* The steps of a worker.
LEMMA WorkerSteps ==
  ASSUME NEW w \in Workers, WorkerStep(w) \/ WorkerReturns(w) \/ WorkerSignal(w) \/ Kill(w)
  PROVE  \/ QuietStep \/ ReadyStep(w) \/ ChildStep(w)
<1> USE DEF ChildAt, Exit, childRest, mainRest, sharedVars, MainElsewhere, ChildStep, ChildPCs,
        Unborn
<1>1. CASE WorkerInit(w)
  BY <1>1 DEF WorkerInit
<1>2. CASE WorkerReady(w)
  BY <1>2 DEF WorkerReady, ReadyStep
<1>3. CASE WorkerHead(w)
  BY <1>3 DEF WorkerHead, SleepsIn
<1>4. CASE WorkerReturns(w)
  BY <1>4 DEF WorkerReturns
<1>5. CASE WorkerCallFails(w)
  BY <1>5 DEF WorkerCallFails
<1>6. CASE WorkerSleeps(w) \/ WorkerAlarm(w)
  BY <1>6 DEF WorkerSleeps, WorkerAlarm
<1>7. CASE WorkerSignal(w)
  BY <1>7 DEF WorkerSignal, QuietStep
<1>8. CASE Kill(w)
  BY <1>8 DEF Kill, Alive
<1>9. QED
  BY <1>1, <1>2, <1>3, <1>4, <1>5, <1>6, <1>7, <1>8 DEF WorkerStep

\* Every step is one of these, or a stop of the whole group.
LEMMA StepKinds ==
  ASSUME [Next]_vars
  PROVE  \/ QuietStep \/ SpawnWorker \/ WaitWorkersReady \/ SpawnGenerator
         \/ NoChildStep \/ DestroyIpc \/ Stop
         \/ \E c \in Children : ChildStep(c)
         \/ \E w \in Workers : ReadyStep(w)
<1> USE DEF sharedVars, mainVars, childVars, boundVars, QuietStep, MainElsewhere
<1>1. CASE MainStep
  BY <1>1, MainSteps
<1>2. CASE Sigchld \/ Interrupt \/ HandlerStep \/ DayOver
  BY <1>2 DEF Sigchld, Interrupt, HandlerStep, DayOver
<1>3. CASE \E w \in Workers : WorkerStep(w) \/ WorkerReturns(w) \/ WorkerSignal(w) \/ Kill(w)
  BY <1>3, WorkerSteps DEF Children
<1>4. CASE GeneratorExits
  BY <1>4 DEF GeneratorExits, Exit, childRest, mainRest, ChildStep, Children, ChildPCs, Unborn
<1>5. CASE UNCHANGED vars
  BY <1>5 DEF vars
<1>6. QED
  BY <1>1, <1>2, <1>3, <1>4, <1>5 DEF Next, Finished

-----------------------------------------------------------------------------
(* The steps keep the invariant *)

\* The workers are finitely many, and the generator is none of them.
LEMMA WorkersFinite ==
  /\ IsFiniteSet(Workers) /\ "generator" \notin Workers
  /\ \A i \in DOMAIN SpawnOrder : SpawnOrder[i] \in Workers
<1> DEFINE Names == {"time_server", "cashier", "lower", "upper"}
<1>1. SpawnOrder \in Seq(Names)
  BY MainAssumption
<1>2. Workers \subseteq Names /\ \A i \in DOMAIN SpawnOrder : SpawnOrder[i] \in Workers
  BY <1>1 DEF Workers, ToSet
<1>3. IsFiniteSet(Names)
  <2>1. IsFiniteSet({"time_server"})
    BY FS_Singleton
  <2>2. IsFiniteSet({"time_server"} \cup {"cashier"})
    BY <2>1, FS_AddElement
  <2>3. IsFiniteSet(({"time_server"} \cup {"cashier"}) \cup {"lower"})
    BY <2>2, FS_AddElement
  <2>4. IsFiniteSet((({"time_server"} \cup {"cashier"}) \cup {"lower"}) \cup {"upper"})
    BY <2>3, FS_AddElement
  <2>5. Names = (({"time_server"} \cup {"cashier"}) \cup {"lower"}) \cup {"upper"}
    OBVIOUS
  <2>6. QED
    BY <2>4, <2>5
<1>4. IsFiniteSet(Workers)
  BY <1>2, <1>3, FS_Subset
<1>5. QED
  BY <1>2, <1>4

\* What has been posted is finite.
LEMMA PostedFinite ==
  ASSUME MainTypes
  PROVE  /\ IsFiniteSet(posted) /\ Cardinality(posted) \in Nat
         /\ Cardinality(Workers) \in Nat
         /\ Cardinality(posted) >= Cardinality(Workers) => posted = Workers
<1>1. IsFiniteSet(posted) /\ Cardinality(posted) <= Cardinality(Workers)
      /\ (Cardinality(Workers) = Cardinality(posted) => Workers = posted)
  BY WorkersFinite, FS_Subset DEF MainTypes
<1>2. Cardinality(posted) \in Nat /\ Cardinality(Workers) \in Nat
  BY <1>1, WorkersFinite, FS_CardinalityType
<1>3. QED
  BY <1>1, <1>2

\* A step that concerns no child.
LEMMA QuietKeeps ==
  ASSUME MainInv, QuietStep
  PROVE  MainInv'
BY DEF MainInv, QuietStep, MainElsewhere, MainTypes, ReadyOnce, ReadyCounted, BehindBarrier,
   NobodyLeft, Gone

\* A child that moves was there, and stays until it is reaped.
LEMMA ChildKeeps ==
  ASSUME MainInv, NEW c \in Children, ChildStep(c)
  PROVE  MainInv'
<1> USE DEF MainInv, ChildStep, MainElsewhere
<1>1. MainTypes' /\ ReadyCounted'
  BY DEF MainTypes, ReadyCounted
<1>2. ReadyOnce'
  BY DEF MainTypes, ReadyOnce, Children
<1>3. BehindBarrier'
  BY DEF MainTypes, BehindBarrier, Children
<1>4. NobodyLeft'
  BY DEF MainTypes, NobodyLeft, Gone
<1>5. QED
  BY <1>1, <1>2, <1>3, <1>4

\* Signalling ready moves the worker on, so it does it once.
LEMMA ReadyKeeps ==
  ASSUME MainInv, NEW w \in Workers, ReadyStep(w)
  PROVE  MainInv'
<1> USE DEF MainInv, ReadyStep
<1>1. MainTypes' /\ ReadyOnce'
  BY DEF MainTypes, ReadyOnce, ChildPCs, Unborn, Children
<1>2. w \notin posted
  BY DEF ReadyOnce
<1>3. Cardinality(posted)' = Cardinality(posted) + 1
  BY <1>2, PostedFinite, FS_AddElement
<1>4. ReadyCounted'
  BY <1>3, PostedFinite DEF MainTypes, ReadyCounted
<1>5. BehindBarrier'
  BY WorkersFinite DEF MainTypes, BehindBarrier, Children
<1>6. NobodyLeft'
  BY DEF MainTypes, NobodyLeft, Gone, Children, Unborn
<1>7. QED
  BY <1>1, <1>4, <1>5, <1>6

\* Workers are forked before anybody is ready, the generator after everybody is.
LEMMA ForkKeeps ==
  ASSUME MainInv, SpawnWorker \/ SpawnGenerator
  PROVE  MainInv'
<1>1. CASE SpawnWorker
  <2>1. PICK w \in Workers : cpc[w] = "none" /\ Fork(w)
    BY <1>1, WorkersFinite DEF SpawnWorker
  <2>2. mpc = "spawn" /\ mpc' \in {"spawn", "check"}
        /\ UNCHANGED <<worker_ready, posted, ipc>>
    BY <1>1 DEF SpawnWorker, MainAt, sharedVars, boundVars
  <2>3. MainTypes' /\ ReadyCounted'
    BY <2>1, <2>2 DEF MainInv, MainTypes, ReadyCounted, Fork, ChildPCs, Unborn
  <2>4. w \notin posted
    BY <2>1 DEF MainInv, ReadyOnce, Unborn
  <2>5. ReadyOnce'
    BY <2>1, <2>2, <2>4 DEF MainInv, MainTypes, ReadyOnce, Fork, Children
  <2>6. BehindBarrier' /\ NobodyLeft'
    BY <2>1, <2>2, WorkersFinite DEF MainInv, MainTypes, BehindBarrier, NobodyLeft, Fork,
       Children
  <2>7. QED
    BY <2>3, <2>5, <2>6 DEF MainInv
<1>2. CASE SpawnGenerator
  <2>1. mpc = "generator" /\ mpc' = "loop" /\ Fork("generator")
        /\ UNCHANGED <<worker_ready, posted, ipc>>
    BY <1>2 DEF SpawnGenerator, MainAt, boundVars
  <2>2. posted = Workers
    BY <2>1 DEF MainInv, BehindBarrier
  <2>3. MainTypes' /\ ReadyCounted'
    BY <2>1 DEF MainInv, MainTypes, ReadyCounted, Fork, ChildPCs, Unborn
  <2>4. ReadyOnce'
    BY <2>1, WorkersFinite DEF MainInv, MainTypes, ReadyOnce, Fork
  <2>5. BehindBarrier' /\ NobodyLeft'
    BY <2>1, <2>2 DEF BehindBarrier, NobodyLeft
  <2>6. QED
    BY <2>3, <2>4, <2>5 DEF MainInv
<1>3. QED
  BY <1>1, <1>2

\* The barrier's semop takes one post of every worker: they have all posted.
LEMMA BarrierKeeps ==
  ASSUME MainInv, WaitWorkersReady
  PROVE  MainInv'
<1>1. /\ worker_ready >= Cardinality(Workers)
      /\ worker_ready' = worker_ready - Cardinality(Workers)
      /\ mpc' = "generator" /\ UNCHANGED <<cpc, posted, ipc>>
  BY DEF WaitWorkersReady, MainAt, childVars, boundVars
<1>2. Cardinality(posted) \in Nat /\ Cardinality(Workers) \in Nat /\ worker_ready \in Nat
      /\ worker_ready <= Cardinality(posted)
  BY PostedFinite DEF MainInv, MainTypes, ReadyCounted
<1>3. posted = Workers
  BY <1>1, <1>2, PostedFinite DEF MainInv
<1>4. worker_ready' \in Nat /\ worker_ready' <= Cardinality(posted)
  BY <1>1, <1>2
<1>5. QED
  BY <1>1, <1>3, <1>4 DEF MainInv, MainTypes, ReadyOnce, ReadyCounted, BehindBarrier, NobodyLeft

\* The end: no child left, no object left.
LEMMA EndKeeps ==
  ASSUME MainInv, NoChildStep \/ DestroyIpc
  PROVE  MainInv'
<1>1. CASE NoChildStep
  <2>1. \A c \in Children : Gone(c)
    BY <1>1 DEF NoChildStep, ChildrenLeft, Zombies, Alive, Gone, MainInv, MainTypes, ChildPCs
  <2>2. QED
    BY <1>1, <2>1 DEF NoChildStep, MainInv, MainTypes, ReadyOnce, ReadyCounted, BehindBarrier,
       NobodyLeft, Gone
<1>2. CASE DestroyIpc
  BY <1>2 DEF DestroyIpc, MainAt, childVars, boundVars, MainInv, MainTypes, ReadyOnce,
     ReadyCounted, BehindBarrier, NobodyLeft, Gone
<1>3. QED
  BY <1>1, <1>2

\* A stop of the group sends the waiters on a semaphore back to their loop conditions.
LEMMA StopKeeps ==
  ASSUME MainInv, Stop
  PROVE  MainInv'
<1>1. /\ cpc' = [c \in Children |-> IF cpc[c] = "on_sem" THEN "head" ELSE cpc[c]]
      /\ mpc' \in {mpc, "loop"} /\ UNCHANGED <<worker_ready, posted, ipc>>
  BY DEF Stop
<1>2. MainTypes' /\ ReadyOnce' /\ ReadyCounted'
  BY <1>1 DEF MainInv, MainTypes, ReadyOnce, ReadyCounted, ChildPCs, Unborn, Children
<1>3. BehindBarrier'
  BY <1>1 DEF MainInv, BehindBarrier, Unborn, Children
<1>4. NobodyLeft'
  BY <1>1 DEF MainInv, NobodyLeft, Gone, Unborn
<1>5. QED
  BY <1>2, <1>3, <1>4 DEF MainInv

-----------------------------------------------------------------------------
(* Theorems *)

\* The invariant holds at the start.
LEMMA MainInit == Init => MainInv
<1> SUFFICES ASSUME Init PROVE MainInv
  OBVIOUS
<1>1. MainTypes /\ ReadyOnce
  BY DEF Init, MainTypes, ReadyOnce, ChildPCs, Unborn
<1>2. ReadyCounted
  BY FS_EmptySet DEF Init, ReadyCounted
<1>3. BehindBarrier /\ NobodyLeft
  BY DEF Init, BehindBarrier, NobodyLeft, Children, Unborn
<1>4. QED
  BY <1>1, <1>2, <1>3 DEF MainInv

\* The inductive invariant: what the barrier's semaphore holds was posted by as many
\* different workers, and after the last waitpid nobody is forked (main.c, sync.c).
THEOREM MainInvariant == Spec => []MainInv
<1>1. MainInv /\ [Next]_vars => MainInv'
  <2> SUFFICES ASSUME MainInv, [Next]_vars PROVE MainInv'
    OBVIOUS
  <2>1. QED
    BY StepKinds, QuietKeeps, ChildKeeps, ReadyKeeps, ForkKeeps, BarrierKeeps, EndKeeps,
       StopKeeps
<1>2. QED
  BY <1>1, MainInit, PTL DEF Spec

\* When main ends, no child, no zombie and no System V object is left
\* (main.c:262-277).
THEOREM NothingOutlivesMainHolds == Spec => []NothingOutlivesMain
<1>1. MainInv => NothingOutlivesMain
  BY DEF MainInv, NobodyLeft, Gone, NothingOutlivesMain
<1>2. QED
  BY <1>1, MainInvariant, PTL

\* The generator comes after every worker has signalled ready (main.c:223-238).
THEOREM BarrierHoldsAlways == Spec => []BarrierHolds
<1>1. MainInv => BarrierHolds
  BY DEF MainInv, BehindBarrier, BarrierHolds
<1>2. QED
  BY <1>1, MainInvariant, PTL
=============================================================================
