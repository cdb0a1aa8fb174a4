---------------------------- MODULE MainProcess ----------------------------
(***************************************************************************)
(* The life of the simulation seen from main (main.c, lifecycle/): it      *)
(* forks the workers, waits at the startup barrier, forks the generator,   *)
(* looks at the clock once a second and shuts everything down.             *)
(*                                                                         *)
(* A worker is reduced to what its life depends on: which kind of call it  *)
(* sleeps in and when it reads the flags that end it.  The generator is a  *)
(* child that ends some time after the queues and the semaphores are gone; *)
(* that it does is what Generator shows.  The five queues are removed in   *)
(* one step.                                                               *)
(***************************************************************************)
EXTENDS Integers, Sequences, FiniteSets, SequencesExt

CONSTANTS
  SpawnOrder,      \* the workers in the order main forks them
  MaxFaults        \* bound: workers killed from outside, and job-control stops
                   \* of the group long enough for an alarm to expire

ASSUME MainAssumption ==
  /\ SpawnOrder \in Seq({"time_server", "cashier", "lower", "upper"})
  /\ IsInjective(SpawnOrder)
  /\ "time_server" \in ToSet(SpawnOrder)
  /\ MaxFaults \in Nat

VARIABLES
  \* --- System V objects and SharedState -----------------------------------
  ipc,              \* the objects that exist: "mq", "sem", "shm"
  worker_ready,     \* SEM_WORKER_READY
  running,
  closing,
  day_over,         \* time_is_simulation_over, which the time server brings about
  \* --- main ---------------------------------------------------------------
  mpc,              \* where main is
  handler,          \* the object its SIGTERM/SIGINT handler removes next
  g_running,        \* main's flag
  g_child_exited,
  sigchld,          \* a SIGCHLD for main is pending
  alarm,            \* alarm(1) has not expired yet
  \* --- its children -------------------------------------------------------
  cpc,              \* child -> where it is
  wrun,             \* workers whose own g_running is still set
  walarm,           \* workers whose ualarm has not expired yet
  signalled,        \* workers with a SIGTERM or SIGINT pending
  \* --- history and bounds -------------------------------------------------
  posted,           \* history: workers that have signalled ready
  interrupted,      \* main has caught its SIGTERM or SIGINT
  killed,           \* workers killed from outside
  stops

sharedVars == <<ipc, worker_ready, running, closing, day_over>>
mainVars   == <<mpc, handler, g_running, g_child_exited, sigchld, alarm>>
childVars  == <<cpc, wrun, walarm, signalled>>
boundVars  == <<posted, interrupted, killed, stops>>

vars == <<sharedVars, mainVars, childVars, boundVars>>

Objects == {"mq", "sem", "shm"}

Workers == ToSet(SpawnOrder)

Children == Workers \cup {"generator"}

\* No process: not forked, or fork has failed.
Unborn == {"none", "failed"}

Alive(c) == cpc[c] \notin Unborn \cup {"zombie", "reaped"}

Init ==
  /\ ipc = Objects /\ worker_ready = 0
  /\ running = TRUE /\ closing = FALSE /\ day_over = FALSE
  /\ mpc = "spawn" /\ handler = "none"
  /\ g_running = TRUE /\ g_child_exited = FALSE /\ sigchld = FALSE /\ alarm = FALSE
  /\ cpc = [c \in Children |-> "none"]
  /\ wrun = Workers /\ walarm = {} /\ signalled = {}
  /\ posted = {} /\ interrupted = FALSE /\ killed = {} /\ stops = 0
-----------------------------------------------------------------------------
(* Startup. *)

\* main does not run while its signal handler does.
MainAt(from, to) == handler = "none" /\ mpc = from /\ mpc' = to

mainKeeps == <<handler, g_running, g_child_exited, sigchld>>

\* fork succeeds or fails.
Fork(c) == \E pc \in {"init", "failed"} : cpc' = [cpc EXCEPT ![c] = pc]

\* spawn_worker for the next one.
SpawnWorker ==
  \E i \in DOMAIN SpawnOrder :
    /\ cpc[SpawnOrder[i]] = "none"
    /\ \A j \in 1..(i - 1) : cpc[SpawnOrder[j]] # "none"
    /\ MainAt("spawn", IF i = Len(SpawnOrder) THEN "check" ELSE "spawn")
    /\ Fork(SpawnOrder[i])
    /\ UNCHANGED <<sharedVars, mainKeeps, alarm, wrun, walarm, signalled, boundVars>>

\* Mutant of CheckSpawned: main goes on with the workers it has.
CheckSpawnedIgnored ==
  /\ MainAt("check", "barrier")
  /\ UNCHANGED <<sharedVars, mainKeeps, alarm, childVars, boundVars>>

\* One failed fork and the simulation does not start.
CheckSpawned ==
  LET ok == \A w \in Workers : cpc[w] # "failed" IN
  /\ MainAt("check", IF ok THEN "barrier" ELSE "loop")
  /\ running' = ok
  /\ UNCHANGED <<ipc, worker_ready, closing, day_over, mainKeeps, alarm, childVars, boundVars>>

\* Mutant of WaitWorkersReady: one worker too few.
WaitOneReadyLess ==
  /\ "sem" \in ipc /\ worker_ready >= Cardinality(Workers) - 1
  /\ MainAt("barrier", "generator")
  /\ worker_ready' = 0
  /\ UNCHANGED <<ipc, running, closing, day_over, mainKeeps, alarm, childVars, boundVars>>

\* ipc_wait_workers_ready: one semop for all of them.
WaitWorkersReady ==
  /\ "sem" \in ipc /\ worker_ready >= Cardinality(Workers)
  /\ MainAt("barrier", "generator")
  /\ worker_ready' = worker_ready - Cardinality(Workers)
  /\ UNCHANGED <<ipc, running, closing, day_over, mainKeeps, alarm, childVars, boundVars>>

\* The semaphores are gone: the signal handler has run.
BarrierFails ==
  /\ "sem" \notin ipc
  /\ MainAt("barrier", "loop")
  /\ running' = FALSE
  /\ UNCHANGED <<ipc, worker_ready, closing, day_over, mainKeeps, alarm, childVars, boundVars>>

\* g_running is not looked at here: a signal caught since the barrier does not
\* keep main from forking the generator.
SpawnGenerator ==
  /\ MainAt("generator", "loop")
  /\ Fork("generator")
  /\ running' = (cpc'["generator"] # "failed")
  /\ UNCHANGED <<ipc, worker_ready, closing, day_over, mainKeeps, alarm, wrun, walarm,
                 signalled, boundVars>>
-----------------------------------------------------------------------------
(* The loop. *)

LoopTest ==
  /\ MainAt("loop", IF g_running /\ running THEN "reap" ELSE "stop")
  /\ UNCHANGED <<sharedVars, mainKeeps, alarm, childVars, boundVars>>

Zombies == {c \in Children : cpc[c] = "zombie"}

\* waitpid takes one of the children that have ended.
Reap == \E c \in Zombies : cpc' = [cpc EXCEPT ![c] = "reaped"]

\* Mutant of ReapZombies: one child for every SIGCHLD.
ReapOneZombie ==
  /\ \/ MainAt("reap", IF g_child_exited THEN "waitpid" ELSE "time")
        /\ g_child_exited' = FALSE /\ UNCHANGED cpc
     \/ MainAt("waitpid", "time") /\ Reap /\ UNCHANGED g_child_exited
     \/ MainAt("waitpid", "time") /\ Zombies = {} /\ UNCHANGED <<g_child_exited, cpc>>
  /\ UNCHANGED <<sharedVars, handler, g_running, sigchld, alarm, wrun, walarm, signalled,
                 boundVars>>

\* reap_zombies: the flag is cleared first, then waitpid takes one child after
\* the other.  Which child it was makes no difference.
ReapZombies ==
  /\ \/ MainAt("reap", IF g_child_exited THEN "waitpid" ELSE "time")
        /\ g_child_exited' = FALSE /\ UNCHANGED cpc
     \/ MainAt("waitpid", "waitpid") /\ Reap /\ UNCHANGED g_child_exited
     \/ MainAt("waitpid", "time") /\ Zombies = {} /\ UNCHANGED <<g_child_exited, cpc>>
  /\ UNCHANGED <<sharedVars, handler, g_running, sigchld, alarm, wrun, walarm, signalled,
                 boundVars>>

\* The end of the day, or an alarm for the next look at the clock.
CheckTime ==
  /\ MainAt("time", IF day_over THEN "stop" ELSE "armed")
  /\ closing' = day_over
  /\ alarm' = ~day_over
  /\ UNCHANGED <<ipc, worker_ready, running, day_over, mainKeeps, childVars, boundVars>>

\* pause is a call of its own: a signal handled before it does not end it.
GoToSleep ==
  /\ MainAt("armed", "pause")
  /\ UNCHANGED <<sharedVars, mainKeeps, alarm, childVars, boundVars>>

AlarmRings ==
  /\ alarm
  /\ MainAt("pause", "loop")
  /\ alarm' = FALSE
  /\ UNCHANGED <<sharedVars, mainKeeps, childVars, boundVars>>
-----------------------------------------------------------------------------
(* Shutdown. *)

StopRunning ==
  /\ MainAt("stop", "term")
  /\ running' = FALSE
  /\ UNCHANGED <<ipc, worker_ready, closing, day_over, mainKeeps, alarm, childVars, boundVars>>

\* shutdown_workers: SIGTERM to every pid greater than zero ...
TermChildren ==
  /\ MainAt("term", "rm_mq")
  /\ signalled' = signalled \cup {w \in Workers : Alive(w)}
  /\ UNCHANGED <<sharedVars, mainKeeps, alarm, cpc, wrun, walarm, boundVars>>

\* ... then the queues ...
RemoveQueues ==
  /\ MainAt("rm_mq", "rm_sem")
  /\ ipc' = ipc \ {"mq"}
  /\ UNCHANGED <<worker_ready, running, closing, day_over, mainKeeps, alarm, childVars,
                 boundVars>>

\* Mutant of RemoveSemaphores: only the queues are removed.
RemoveSemaphoresForgotten ==
  /\ MainAt("rm_sem", "wait")
  /\ UNCHANGED <<sharedVars, mainKeeps, alarm, childVars, boundVars>>

\* ... then the semaphores.
RemoveSemaphores ==
  /\ MainAt("rm_sem", "wait")
  /\ ipc' = ipc \ {"sem"}
  /\ UNCHANGED <<worker_ready, running, closing, day_over, mainKeeps, alarm, childVars,
                 boundVars>>

ChildrenLeft == {c \in Children : Alive(c)} \cup Zombies

\* Mutant of WaitForWorkers: the first child that has ended is enough.
WaitForOneWorker ==
  /\ \/ MainAt("wait", "report") /\ Reap
     \/ MainAt("wait", "report") /\ ChildrenLeft = {} /\ UNCHANGED cpc
  /\ UNCHANGED <<sharedVars, mainKeeps, alarm, wrun, walarm, signalled, boundVars>>

\* wait_for_workers blocks in waitpid until no child is left.
WaitForWorkers ==
  /\ \/ MainAt("wait", "wait") /\ Reap
     \/ MainAt("wait", "report") /\ ChildrenLeft = {} /\ UNCHANGED cpc
  /\ UNCHANGED <<sharedVars, mainKeeps, alarm, wrun, walarm, signalled, boundVars>>

\* The report is written and ipc_destroy removes what is left.
DestroyIpc ==
  /\ MainAt("report", "done")
  /\ ipc' = {}
  /\ UNCHANGED <<worker_ready, running, closing, day_over, mainKeeps, alarm, childVars,
                 boundVars>>

MainStep ==
  \/ SpawnWorker \/ CheckSpawned \/ WaitWorkersReady \/ BarrierFails \/ SpawnGenerator
  \/ LoopTest \/ ReapZombies \/ CheckTime \/ GoToSleep \/ AlarmRings
  \/ StopRunning \/ TermChildren \/ RemoveQueues \/ RemoveSemaphores
  \/ WaitForWorkers \/ DestroyIpc
-----------------------------------------------------------------------------
(* Signals for main. *)

AtBarrier == mpc = "barrier" /\ worker_ready < Cardinality(Workers)

\* sigchld_handler.  It ends pause; in the barrier, semop is not restarted and
\* main gives up, unless the signal was handled just before the call.
Sigchld ==
  /\ sigchld /\ handler = "none" /\ mpc # "done"
  /\ sigchld' = FALSE
  /\ g_child_exited' = TRUE
  /\ \/ mpc' = (IF mpc = "pause" THEN "loop" ELSE mpc) /\ UNCHANGED running
     \/ AtBarrier /\ mpc' = "loop" /\ running' = FALSE
  /\ UNCHANGED <<ipc, worker_ready, closing, day_over, handler, g_running, alarm, childVars,
                 boundVars>>

\* SIGTERM for main alone, or Ctrl-C for the whole group.
Interrupt ==
  /\ ~interrupted /\ mpc # "done"
  /\ interrupted' = TRUE
  /\ g_running' = FALSE
  /\ handler' = "mq"
  /\ signalled' \in {signalled, {w \in Workers : Alive(w)}}
  /\ UNCHANGED <<sharedVars, mpc, g_child_exited, sigchld, alarm, cpc, wrun, walarm, posted,
                 killed, stops>>

AfterRemoving == [mq |-> "sem", sem |-> "shm", shm |-> "none"]

\* ipc_cleanup_signal_safe: the queues, the semaphores, the segment.
HandlerStep ==
  /\ handler # "none"
  /\ ipc' = ipc \ {handler}
  /\ handler' = AfterRemoving[handler]
  /\ mpc' = IF handler = "shm" /\ mpc = "pause" THEN "loop" ELSE mpc
  /\ UNCHANGED <<worker_ready, running, closing, day_over, g_running, g_child_exited,
                 sigchld, alarm, childVars, boundVars>>
-----------------------------------------------------------------------------
(* The children. *)

ChildAt(c, from, to) == cpc[c] = from /\ cpc' = [cpc EXCEPT ![c] = to]

\* It returns from its main function: main gets SIGCHLD.
Exit(c) ==
  /\ cpc' = [cpc EXCEPT ![c] = "zombie"]
  /\ sigchld' = TRUE
  /\ signalled' = signalled \ {c}

GoesOn == UNCHANGED <<sigchld, signalled>>

mainRest == <<mpc, handler, g_running, g_child_exited, alarm>>

childRest == <<mainRest, interrupted, killed, stops>>

\* A worker installs its own signal handlers; until then it has main's, which
\* clears a flag the worker does not read.
WorkerInit(w) ==
  /\ ChildAt(w, "init", "ready") /\ GoesOn
  /\ UNCHANGED <<sharedVars, wrun, walarm, posted, childRest>>

\* ipc_signal_worker_ready, or the semaphores are gone already.
WorkerReady(w) ==
  /\ cpc[w] = "ready"
  /\ IF "sem" \in ipc
     THEN /\ ChildAt(w, "ready", "head") /\ GoesOn
          /\ worker_ready' = worker_ready + 1
          /\ posted' = posted \cup {w}
     ELSE Exit(w) /\ UNCHANGED <<worker_ready, posted>>
  /\ UNCHANGED <<ipc, running, closing, day_over, wrun, walarm, childRest>>

\* Where a worker may sleep in its loop: the time server waits for its timer,
\* the others in a queue or on a semaphore, an initiator of an emergency for an
\* alarm it has set.
SleepsIn(w) == CASE w = "time_server" -> {"nap"}
                 [] w = "cashier"     -> {"on_mq", "on_sem"}
                 [] OTHER             -> {"on_mq", "on_sem", "armed"}

LoopCondition(w) == w \in wrun /\ running /\ (w = "cashier" => ~closing)

\* The loop condition.  The lower worker sends a chair it has begun to load on
\* its way, for which it may have to wait.
WorkerHead(w) ==
  /\ \/ /\ LoopCondition(w) /\ GoesOn
        /\ \E pc \in SleepsIn(w) :
             /\ ChildAt(w, "head", pc)
             /\ walarm' = IF pc = "armed" THEN walarm \cup {w} ELSE walarm
     \/ /\ ~LoopCondition(w) /\ UNCHANGED walarm
        /\ \/ cpc[w] = "head" /\ Exit(w)
           \/ w = "lower" /\ ChildAt(w, "head", "last") /\ GoesOn
  /\ UNCHANGED <<sharedVars, wrun, posted, childRest>>

\* What it waited for has come.
WorkerReturns(w) ==
  /\ \/ "mq" \in ipc /\ ChildAt(w, "on_mq", "head") /\ GoesOn
     \/ "sem" \in ipc /\ ChildAt(w, "on_sem", "head") /\ GoesOn
     \/ "sem" \in ipc /\ cpc[w] = "last" /\ Exit(w)
  /\ UNCHANGED <<sharedVars, wrun, walarm, posted, childRest>>

\* The object it waits for is gone: EIDRM ends the loop, EINVAL and every failed
\* semop lead back to the loop condition.
WorkerCallFails(w) ==
  /\ \/ /\ "mq" \notin ipc
        /\ \/ ChildAt(w, "on_mq", "head") /\ GoesOn
           \/ cpc[w] = "on_mq" /\ Exit(w)
           \/ w = "lower" /\ ChildAt(w, "on_mq", "last") /\ GoesOn
     \/ /\ "sem" \notin ipc
        /\ \/ ChildAt(w, "on_sem", "head") /\ GoesOn
           \/ cpc[w] = "last" /\ Exit(w)
  /\ UNCHANGED <<sharedVars, wrun, walarm, posted, childRest>>

WorkerSleeps(w) ==
  /\ ChildAt(w, "armed", "nap") /\ GoesOn
  /\ UNCHANGED <<sharedVars, wrun, walarm, posted, childRest>>

\* The time server's timer rings again and again, a ualarm once.
WorkerAlarm(w) ==
  /\ w = "time_server" \/ w \in walarm
  /\ ChildAt(w, "nap", "head") /\ GoesOn
  /\ walarm' = walarm \ {w}
  /\ UNCHANGED <<sharedVars, wrun, posted, childRest>>

\* The signal handler.  It interrupts a call that has begun; a signal handled
\* just before the call does not.
WorkerSignal(w) ==
  /\ w \in signalled
  /\ wrun' = IF cpc[w] = "init" THEN wrun ELSE wrun \ {w}
  /\ \/ /\ cpc[w] \in {"on_mq", "on_sem", "nap"}
        /\ cpc' = [cpc EXCEPT ![w] = "head"]
        /\ walarm' = walarm \ {w}
        /\ signalled' = signalled \ {w} /\ UNCHANGED sigchld
     \/ cpc[w] = "last" /\ Exit(w) /\ UNCHANGED walarm
     \/ /\ cpc[w] # "nap"
        /\ signalled' = signalled \ {w} /\ UNCHANGED <<cpc, walarm, sigchld>>
  /\ UNCHANGED <<sharedVars, posted, childRest>>

WorkerStep(w) ==
  \/ WorkerInit(w) \/ WorkerReady(w) \/ WorkerHead(w) \/ WorkerCallFails(w)
  \/ WorkerSleeps(w) \/ WorkerAlarm(w)

\* The time server has brought the simulated time to the end of the day.
DayOver ==
  /\ cpc["time_server"] \in {"head", "nap"} /\ ~day_over
  /\ day_over' = TRUE
  /\ UNCHANGED <<ipc, worker_ready, running, closing, mainVars, childVars, boundVars>>

\* The generator has forked its last tourist and all tourists have gone ...
GeneratorExits ==
  /\ cpc["generator"] = "init" /\ Exit("generator")
  /\ UNCHANGED <<sharedVars, wrun, walarm, posted, childRest>>

\* ... which it is sure to get to once nobody can wait for anything any more.
GeneratorMustExit == ~running /\ ipc \cap {"mq", "sem"} = {} /\ GeneratorExits
-----------------------------------------------------------------------------
(* From outside. *)

\* SIGKILL for a worker (the generator may end at any time anyway).
Kill(w) ==
  /\ Cardinality(killed) + stops < MaxFaults
  /\ Alive(w)
  /\ killed' = killed \cup {w}
  /\ Exit(w)
  /\ UNCHANGED <<sharedVars, mainRest, wrun, walarm, posted, interrupted, stops>>

\* The group is stopped and continued.  An alarm that was set expires meanwhile;
\* its signal is handled before the pause it was meant for.  semop comes back
\* with EINTR: the barrier gives up, a worker tries again; msgrcv goes on.
Stop ==
  /\ Cardinality(killed) + stops < MaxFaults /\ handler = "none" /\ mpc # "done"
  /\ stops' = stops + 1
  /\ alarm' = (alarm /\ mpc # "armed")
  /\ walarm' = {w \in walarm : cpc[w] # "armed"}
  /\ mpc' = IF AtBarrier THEN "loop" ELSE mpc
  /\ running' = (running /\ ~AtBarrier)
  /\ cpc' = [c \in Children |-> IF cpc[c] = "on_sem" THEN "head" ELSE cpc[c]]
  /\ UNCHANGED <<ipc, worker_ready, closing, day_over, handler, g_running, g_child_exited,
                 sigchld, wrun, signalled, posted, interrupted, killed>>

Finished == mpc = "done" /\ UNCHANGED vars

Next ==
  \/ MainStep \/ Sigchld \/ Interrupt \/ HandlerStep
  \/ \E w \in Workers : WorkerStep(w) \/ WorkerReturns(w) \/ WorkerSignal(w)
  \/ DayOver \/ GeneratorExits
  \/ \E w \in Workers : Kill(w)
  \/ Stop
  \/ Finished

Spec == Init /\ [][Next]_vars

\* Every process runs on, pending signals are handled and the day ends while the
\* time server lives.  Nobody is promised to be served.
FairSpec ==
  /\ Spec
  /\ WF_vars(MainStep) /\ WF_vars(Sigchld) /\ WF_vars(HandlerStep)
  /\ \A w \in Workers : WF_vars(WorkerStep(w)) /\ WF_vars(WorkerSignal(w))
  /\ WF_vars(DayOver) /\ WF_vars(GeneratorMustExit)
-----------------------------------------------------------------------------
(* Properties. *)

\* Types; no worker signals ready twice (sync.c:66-72).
TypeOK ==
  /\ ipc \subseteq Objects /\ worker_ready \in 0..Cardinality(Workers)
  /\ running \in BOOLEAN /\ closing \in BOOLEAN /\ day_over \in BOOLEAN
  /\ mpc \in {"spawn", "check", "barrier", "generator", "loop", "reap", "waitpid", "time",
              "armed", "pause", "stop", "term", "rm_mq", "rm_sem", "wait", "report", "done"}
  /\ handler \in Objects \cup {"none"}
  /\ g_running \in BOOLEAN /\ g_child_exited \in BOOLEAN /\ sigchld \in BOOLEAN
  /\ alarm \in BOOLEAN
  /\ cpc \in [Children -> Unborn \cup {"init", "ready", "head", "on_mq", "on_sem", "armed",
                                       "nap", "last", "zombie", "reaped"}]
  /\ wrun \subseteq Workers /\ walarm \subseteq Workers /\ signalled \subseteq Workers
  /\ posted \subseteq Workers /\ interrupted \in BOOLEAN
  /\ killed \subseteq Workers /\ stops \in 0..MaxFaults

\* When main ends, nothing of it is left: no child, no zombie, no System V
\* object (main.c:262-277, zombie_reaper.c:40-65), whatever failed on the way.
NothingOutlivesMain ==
  mpc = "done" => ipc = {} /\ \A c \in Children : cpc[c] \in Unborn \cup {"reaped"}

\* The generator, and so the first tourist, comes after every worker has
\* signalled that it is ready (main.c:223-238), whatever fork, kill or signal
\* happens during startup.
BarrierHolds == cpc["generator"] \notin Unborn => posted = Workers

\* A sleeper whose alarm was lost: main before the end of the day, a worker that
\* waits out an emergency.
MainLost == mpc = "pause" /\ ~alarm
WorkerLost == \E w \in Workers \ {"time_server"} : cpc[w] = "nap" /\ w \notin walarm

\* Left alone the simulation ends by itself, in whatever order the processes
\* start, wherever a fork fails and whenever the user interrupts it: startup,
\* barrier, day and shutdown all come to an end (main.c:207-277), unless
\* somebody kills a process or an alarm is lost.
Terminates == <>(mpc = "done" \/ killed # {} \/ MainLost \/ WorkerLost)

\* Once main has been told to stop, or has given up, it gets done even if a
\* process was killed: a signal may be handled before the call it should end,
\* but every call ends with the removal of the IPC objects (main.c:260-277).
ShutdownCompletes ==
  (interrupted \/ ~running) ~> (mpc = "done" \/ MainLost \/ WorkerLost)

\* During the day too, a child that has ended does not stay a zombie: the flag is
\* cleared before the children are taken, so none that ends meanwhile is missed
\* (zombie_reaper.c:19-33).
ZombiesReaped ==
  \A c \in Children :
    cpc[c] = "zombie" ~> (cpc[c] = "reaped" \/ MainLost \/ mpc = "barrier")
-----------------------------------------------------------------------------
(* What the documentation says and the code does not do. *)

\* A worker that dies during the day makes main shut the simulation down
\* (README.md:814, "main detects worker death, initiates shutdown"): once main has
\* reaped it, main does not go back to sleep for the rest of the day.
WorkerDeathNoticed ==
  \A w \in killed : cpc[w] = "reaped" /\ mpc = "pause" /\ ~day_over => ~running
=============================================================================
