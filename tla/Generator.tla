----------------------------- MODULE Generator -----------------------------
(***************************************************************************)
(* The tourist generator (processes/tourist_generator.c): its main thread  *)
(* forks the tourists, a second thread reaps them on SIGCHLD, and at the   *)
(* end the main thread stops the second one and waits for everybody who is *)
(* left.  main ends the day under it as in MainProcess.                    *)
(*                                                                         *)
(* A tourist is reduced to the calls it may be waiting in when the System  *)
(* V objects are removed: the desk, the gates, the chair and the ride.     *)
(***************************************************************************)
EXTENDS Integers, FiniteSets

CONSTANTS
  Total,           \* tourists_to_generate
  MayBeKilled      \* is the generator killed from outside?

ASSUME GeneratorAssumption == Total \in Nat /\ MayBeKilled \in BOOLEAN

VARIABLES
  \* --- System V objects, SharedState and main -----------------------------
  ipc,              \* the objects that exist: "mq", "sem", "shm"
  running,
  closing,
  mpc,              \* where main is in its shutdown
  handler,          \* the object main's signal handler removes next
  signalled,        \* a SIGTERM or SIGINT for the generator is pending
  \* --- main thread --------------------------------------------------------
  gpc,
  g_running,
  tourist_id,
  active_tourists,  \* shared by the two threads
  \* --- reaper thread ------------------------------------------------------
  rpc,
  reaper_running,
  sigchld,          \* SIGCHLD pending for the process, blocked in both threads
  poke,             \* SIGCHLD pending for the reaper thread: pthread_kill
  \* --- tourists -----------------------------------------------------------
  tpc               \* tourist id -> where it is

envVars    == <<ipc, running, closing, mpc, handler>>
threadVars == <<gpc, g_running, tourist_id, active_tourists>>
reaperVars == <<rpc, reaper_running, sigchld, poke>>

vars == <<envVars, signalled, threadVars, reaperVars, tpc>>

Objects == {"mq", "sem", "shm"}

Tourists == 1..Total

\* The generator is a process, and not a zombie.
Alive == gpc \notin {"exited", "killed"}

Init ==
  /\ ipc = Objects /\ running = TRUE /\ closing = FALSE
  /\ mpc = "day" /\ handler = "none" /\ signalled = FALSE
  /\ gpc = "init" /\ g_running = TRUE /\ tourist_id = 0 /\ active_tourists = 0
  /\ rpc = "none" /\ reaper_running = FALSE /\ sigchld = FALSE /\ poke = FALSE
  /\ tpc = [t \in Tourists |-> "none"]
-----------------------------------------------------------------------------
(* The main thread. *)

GenAt(from, to) == gpc = from /\ gpc' = to

\* SIGCHLD is blocked, the reaper thread started, the handlers installed;
\* without its thread the generator gives up.
Start ==
  /\ \/ GenAt("init", "head") /\ rpc' = "test" /\ reaper_running' = TRUE
     \/ GenAt("init", "exited") /\ UNCHANGED <<rpc, reaper_running>>
  /\ UNCHANGED <<envVars, signalled, g_running, tourist_id, active_tourists, sigchld, poke,
                 tpc>>

\* The next tourist's number is used up whether its fork succeeds or not.
SpawnLoop ==
  LET go == g_running /\ running /\ tourist_id < Total /\ ~closing IN
  /\ GenAt("head", IF go THEN "fork" ELSE "stop")
  /\ tourist_id' = IF go THEN tourist_id + 1 ELSE tourist_id
  /\ UNCHANGED <<envVars, signalled, g_running, active_tourists, reaperVars, tpc>>

ForkTourist ==
  /\ \/ GenAt("fork", "count") /\ tpc' = [tpc EXCEPT ![tourist_id] = "exec"]
     \/ GenAt("fork", "head") /\ UNCHANGED tpc
  /\ UNCHANGED <<envVars, signalled, g_running, tourist_id, active_tourists, reaperVars>>

\* The tourist may have come, gone and been reaped before it is counted.
CountTourist ==
  /\ GenAt("count", "head")
  /\ active_tourists' = active_tourists + 1
  /\ UNCHANGED <<envVars, signalled, g_running, tourist_id, reaperVars, tpc>>

\* Mutant of StopReaper: the thread is woken before the flag is cleared.
StopReaperPokeFirst ==
  /\ \/ GenAt("stop", "poke") /\ poke' = TRUE /\ UNCHANGED reaper_running
     \/ GenAt("poke", "join") /\ reaper_running' = FALSE /\ UNCHANGED poke
  /\ UNCHANGED <<envVars, signalled, g_running, tourist_id, active_tourists, rpc, sigchld, tpc>>

\* stop_reaper_thread clears the flag, then wakes the thread with a SIGCHLD of
\* its own.
StopReaper ==
  /\ \/ GenAt("stop", "poke") /\ reaper_running' = FALSE /\ UNCHANGED poke
     \/ GenAt("poke", "join") /\ poke' = TRUE /\ UNCHANGED reaper_running
  /\ UNCHANGED <<envVars, signalled, g_running, tourist_id, active_tourists, rpc, sigchld, tpc>>

JoinReaper ==
  /\ rpc = "done"
  /\ GenAt("join", "wait")
  /\ UNCHANGED <<envVars, signalled, g_running, tourist_id, active_tourists, reaperVars, tpc>>

\* waitpid takes one of the tourists that have ended.
Reap == \E t \in Tourists : tpc[t] = "zombie" /\ tpc' = [tpc EXCEPT ![t] = "reaped"]

\* Mutant of WaitForTourists: WNOHANG here, too.
WaitForZombies ==
  /\ \/ GenAt("wait", "wait") /\ Reap
     \/ GenAt("wait", "exited") /\ (\A t \in Tourists : tpc[t] # "zombie") /\ UNCHANGED tpc
  /\ UNCHANGED <<envVars, signalled, g_running, tourist_id, active_tourists, reaperVars>>

\* The remaining tourists, with a blocking waitpid, until there is no child.
WaitForTourists ==
  /\ \/ GenAt("wait", "wait") /\ Reap
     \/ /\ GenAt("wait", "exited")
        /\ (\A t \in Tourists : tpc[t] \in {"none", "reaped"})
        /\ UNCHANGED tpc
  /\ UNCHANGED <<envVars, signalled, g_running, tourist_id, active_tourists, reaperVars>>

\* The handler clears g_running; before it is installed main's runs instead and
\* clears another flag.
Signal ==
  /\ signalled /\ Alive
  /\ signalled' = FALSE
  /\ g_running' = (g_running /\ gpc = "init")
  /\ UNCHANGED <<envVars, gpc, tourist_id, active_tourists, reaperVars, tpc>>

GeneratorStep == \/ Start \/ SpawnLoop \/ ForkTourist \/ CountTourist
                 \/ StopReaper \/ JoinReaper \/ WaitForTourists
-----------------------------------------------------------------------------
(* The reaper thread. *)

ReaperAt(from, to) == Alive /\ rpc = from /\ rpc' = to

reaperRest == <<envVars, signalled, gpc, g_running, tourist_id, reaper_running>>

TestFlag ==
  /\ ReaperAt("test", IF reaper_running THEN "sigwait" ELSE "done")
  /\ UNCHANGED <<active_tourists, sigchld, poke, tpc, reaperRest>>

\* sigwait takes the signal for the thread before the one for the process.
Sigwait ==
  /\ sigchld \/ poke
  /\ ReaperAt("sigwait", "check")
  /\ poke' = FALSE /\ sigchld' = (sigchld /\ poke)
  /\ UNCHANGED <<active_tourists, tpc, reaperRest>>

TestFlagAgain ==
  /\ ReaperAt("check", IF reaper_running THEN "reap" ELSE "done")
  /\ UNCHANGED <<active_tourists, sigchld, poke, tpc, reaperRest>>

\* waitpid with WNOHANG: all the zombies there are.
ReapZombies ==
  /\ \/ ReaperAt("reap", "count") /\ Reap
     \/ ReaperAt("reap", "test") /\ (\A t \in Tourists : tpc[t] # "zombie") /\ UNCHANGED tpc
  /\ UNCHANGED <<active_tourists, sigchld, poke, reaperRest>>

\* Mutant of CountReaped: the tourist is reaped and stays active.
CountReapedForgotten ==
  /\ ReaperAt("count", "reap")
  /\ UNCHANGED <<active_tourists, sigchld, poke, tpc, reaperRest>>

CountReaped ==
  /\ ReaperAt("count", "reap")
  /\ active_tourists' = active_tourists - 1
  /\ UNCHANGED <<sigchld, poke, tpc, reaperRest>>

ReaperStep == TestFlag \/ Sigwait \/ TestFlagAgain \/ ReapZombies \/ CountReaped
-----------------------------------------------------------------------------
(* A tourist: at the desk, at the gates, waiting for its chair, on its way. *)

TouristAt(t, from, to) == tpc[t] = from /\ tpc' = [tpc EXCEPT ![t] = to]

touristRest == <<envVars, signalled, threadVars, rpc, reaper_running, poke>>

\* It exits; without the generator it is nobody's child in this program.
Exit(t) ==
  /\ tpc' = [tpc EXCEPT ![t] = IF Alive THEN "zombie" ELSE "reaped"]
  /\ sigchld' = Alive

\* ipc_attach needs all the objects, and execl may fail.
Attach(t) ==
  /\ \/ ipc = Objects /\ TouristAt(t, "exec", "desk") /\ UNCHANGED sigchld
     \/ tpc[t] = "exec" /\ Exit(t)
  /\ UNCHANGED touristRest

\* What it waits for has come.
Served(t) ==
  /\ \/ "mq" \in ipc /\ (TouristAt(t, "desk", "head") \/ TouristAt(t, "board", "ride"))
     \/ "sem" \in ipc /\ TouristAt(t, "gates", "board")
  /\ UNCHANGED <<sigchld, touristRest>>

\* The head of the ride loop: another ride, or the end of the visit.
RideLoop(t) ==
  /\ \/ running /\ ~closing /\ TouristAt(t, "head", "gates") /\ UNCHANGED sigchld
     \/ tpc[t] = "head" /\ Exit(t)
  /\ UNCHANGED touristRest

\* A ride is a sleep; then the exit gate must be there.  That the arrival could not
\* be sent is ignored.
Land(t) ==
  /\ \/ "sem" \in ipc /\ TouristAt(t, "ride", "head") /\ UNCHANGED sigchld
     \/ "sem" \notin ipc /\ tpc[t] = "ride" /\ Exit(t)
  /\ UNCHANGED touristRest

\* Mutant of CallFails: a gate is tried again when the semaphores are gone.
CallFailsRetried(t) ==
  /\ \/ "mq" \notin ipc /\ tpc[t] \in {"desk", "board"} /\ Exit(t)
     \/ "sem" \notin ipc /\ TouristAt(t, "gates", "gates") /\ UNCHANGED sigchld
  /\ UNCHANGED touristRest

\* An object is gone and the call fails: the tourist leaves.  Only the wait for
\* the end of an emergency ignores it, and the boarding request fails next.
CallFails(t) ==
  /\ \/ "mq" \notin ipc /\ tpc[t] \in {"desk", "board"} /\ Exit(t)
     \/ "sem" \notin ipc /\ tpc[t] = "gates" /\ Exit(t)
     \/ "sem" \notin ipc /\ TouristAt(t, "gates", "board") /\ UNCHANGED sigchld
  /\ UNCHANGED touristRest

TouristStep(t) == Attach(t) \/ RideLoop(t) \/ Land(t) \/ CallFails(t)
-----------------------------------------------------------------------------
(* main. *)

MainAt(from, to) == handler = "none" /\ mpc = from /\ mpc' = to

mainRest == <<threadVars, reaperVars, tpc>>

\* The end of the day closes the station; a failure or a signal does not.
LeaveLoop ==
  /\ MainAt("day", "term")
  /\ closing' \in BOOLEAN
  /\ running' = FALSE
  /\ UNCHANGED <<ipc, handler, signalled, mainRest>>

\* SIGTERM for main alone, or Ctrl-C for the generator as well: main's handler
\* removes all the objects, at once and only once.
Interrupt ==
  /\ handler = "none" /\ mpc # "done" /\ "shm" \in ipc
  /\ handler' = "mq"
  /\ signalled' \in {signalled, Alive}
  /\ UNCHANGED <<ipc, running, closing, mpc, mainRest>>

AfterRemoving == [mq |-> "sem", sem |-> "shm", shm |-> "none"]

HandlerRemoves ==
  /\ handler # "none"
  /\ ipc' = ipc \ {handler}
  /\ handler' = AfterRemoving[handler]
  /\ UNCHANGED <<running, closing, mpc, signalled, mainRest>>

\* SIGTERM, the queues, the semaphores; the segment when the generator is gone.
Shutdown ==
  /\ \/ MainAt("term", "rm_mq") /\ signalled' = Alive /\ UNCHANGED ipc
     \/ MainAt("rm_mq", "rm_sem") /\ ipc' = ipc \ {"mq"} /\ UNCHANGED signalled
     \/ MainAt("rm_sem", "wait") /\ ipc' = ipc \ {"sem"} /\ UNCHANGED signalled
     \/ MainAt("wait", "done") /\ ~Alive /\ ipc' = {} /\ UNCHANGED signalled
  /\ UNCHANGED <<running, closing, handler, mainRest>>

\* SIGKILL.  init reaps the tourists from now on.
Kill ==
  /\ MayBeKilled /\ Alive
  /\ gpc' = "killed"
  /\ tpc' = [t \in Tourists |-> IF tpc[t] = "zombie" THEN "reaped" ELSE tpc[t]]
  /\ UNCHANGED <<envVars, signalled, g_running, tourist_id, active_tourists, reaperVars>>

Finished == mpc = "done" /\ UNCHANGED vars

Next ==
  \/ GeneratorStep \/ Signal \/ ReaperStep
  \/ \E t \in Tourists : TouristStep(t) \/ Served(t)
  \/ LeaveLoop \/ Interrupt \/ HandlerRemoves \/ Shutdown \/ Kill
  \/ Finished

Spec == Init /\ [][Next]_vars

\* The threads, the tourists and main run on.  Nobody is promised to be served,
\* and the day need not end.
FairSpec ==
  /\ Spec
  /\ WF_vars(GeneratorStep) /\ WF_vars(Signal) /\ WF_vars(ReaperStep)
  /\ \A t \in Tourists : WF_vars(TouristStep(t))
  /\ WF_vars(HandlerRemoves) /\ WF_vars(Shutdown)
-----------------------------------------------------------------------------
(* Properties. *)

\* Types; active_tourists is at most one below zero (tourist_generator.c:64).
TypeOK ==
  /\ ipc \subseteq Objects /\ running \in BOOLEAN /\ closing \in BOOLEAN
  /\ mpc \in {"day", "term", "rm_mq", "rm_sem", "wait", "done"}
  /\ handler \in Objects \cup {"none"} /\ signalled \in BOOLEAN
  /\ gpc \in {"init", "head", "fork", "count", "stop", "poke", "join", "wait", "exited",
              "killed"}
  /\ g_running \in BOOLEAN /\ tourist_id \in 0..Total /\ active_tourists \in -1..Total
  /\ rpc \in {"none", "test", "sigwait", "check", "reap", "count", "done"}
  /\ reaper_running \in BOOLEAN /\ sigchld \in BOOLEAN /\ poke \in BOOLEAN
  /\ tpc \in [Tourists -> {"none", "exec", "desk", "head", "gates", "board", "ride",
                           "zombie", "reaped"}]

\* No tourist outlives the generator, alive or as a zombie, so main, which waits
\* for the generator, destroys the shared memory when nobody uses it any more
\* (tourist_generator.c:305-326, main.c:268-277).  A killed generator is the
\* exception.
NoOrphans ==
  gpc = "exited" => \A t \in Tourists : tpc[t] \in {"none", "reaped"}

Unreaped == {t \in Tourists : tpc[t] \notin {"none", "reaped"}}

\* Until the final wait, active_tourists is the number of tourists forked and
\* not reaped, up to the step each of the two threads has still to take; when
\* the wait begins it is exact (tourist_generator.c:63-65, 286, 309).
ActiveExact ==
  Alive /\ gpc # "wait" =>
    active_tourists = Cardinality(Unreaped) - (IF gpc = "count" THEN 1 ELSE 0)
                                            + (IF rpc = "count" THEN 1 ELSE 0)

\* The generator always gets from its last tourist to its final wait: the reaper
\* thread cannot miss both the flag and the signal that stop it, so the join
\* does not hang (tourist_generator.c:45-97).
JoinReturns == gpc = "stop" ~> gpc \in {"wait", "killed"}

\* However many tourists wait at the desk, at a gate or for a chair nobody will
\* send, the removal of the queues and semaphores frees them all, and the
\* generator and main come to their ends, even if the generator was killed
\* (main.c:53-109, tourist_generator.c:308-326).
GeneratorEnds ==
  ~running ~> mpc = "done" /\ \A t \in Tourists : tpc[t] \in {"none", "reaped"}
=============================================================================
