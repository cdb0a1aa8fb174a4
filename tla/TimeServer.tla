----------------------------- MODULE TimeServer -----------------------------
(***************************************************************************)
(* The time server process (processes/time_server.c): its main loop, the   *)
(* SIGTSTP and SIGCONT handlers that may run between any two of its        *)
(* instructions, and main's test for the end of the day (main.c).          *)
(*                                                                         *)
(* Time is the monotonic clock, in units small enough for any two steps to *)
(* fall into the same one; acceleration is simulated minutes per unit.     *)
(***************************************************************************)
EXTENDS Integers

CONSTANTS
  sim_start_minutes,   \* SharedState: opening time
  sim_end_minutes,     \* SharedState: closing time
  time_acceleration,   \* SharedState: simulated minutes per unit of real time
  MaxReal,             \* bound: real time units
  MaxPauses            \* bound: SIGTSTP signals

ASSUME TimeAssumption ==
  /\ sim_start_minutes \in Nat
  /\ sim_end_minutes \in Nat /\ sim_end_minutes > sim_start_minutes
  /\ time_acceleration \in Nat \ {0}
  /\ MaxReal \in Nat
  /\ MaxPauses \in Nat

VARIABLES
  real,               \* CLOCK_MONOTONIC since g_real_start_time
  current_sim_time,   \* SharedState.current_sim_time_ms, in minutes
  running,            \* the loop condition: g_running and SharedState.running
  pc,                 \* where the main loop is
  now,                \* the clock value the current call works with
  g_paused,
  g_pause_start,
  g_sigcont_received,
  g_total_pause_offset,
  tstp_handler,       \* SIGTSTP is caught (SA_RESETHAND: not always)
  stopped,            \* the process is stopped
  sigcont_pending,    \* it was continued, its SIGCONT handler has not run
  \* --- what an observer records ----------------------------------------
  pauses,             \* SIGTSTP signals so far
  stopped_time,       \* real time the process was stopped
  unhandled_time,     \* real time it ran before handle_resume noticed
  overlap             \* a SIGTSTP was caught while a pause was unhandled

loopVars   == <<pc, now, current_sim_time, g_total_pause_offset>>
signalVars == <<g_paused, g_pause_start, g_sigcont_received, tstp_handler,
                stopped, sigcont_pending>>
ghostVars  == <<pauses, stopped_time, unhandled_time, overlap>>
vars       == <<real, running, loopVars, signalVars, ghostVars>>

Init ==
  /\ real = 0
  /\ current_sim_time = sim_start_minutes
  /\ running = TRUE
  /\ pc = "update"              \* one update_sim_time before the loop
  /\ now = 0
  /\ g_paused = FALSE
  /\ g_pause_start = 0
  /\ g_sigcont_received = FALSE
  /\ g_total_pause_offset = 0
  /\ tstp_handler = TRUE
  /\ stopped = FALSE
  /\ sigcont_pending = FALSE
  /\ pauses = 0
  /\ stopped_time = 0
  /\ unhandled_time = 0
  /\ overlap = FALSE
-----------------------------------------------------------------------------
(* The main loop.  It runs while the process is not stopped, after a pending *)
(* SIGCONT handler.                                                          *)

LoopAt(from, to) == ~stopped /\ ~sigcont_pending /\ pc = from /\ pc' = to

\* handle_resume: anything to handle?
TestSigcont ==
  /\ LoopAt("resume", IF g_sigcont_received THEN "resume_clock" ELSE "update")
  /\ g_sigcont_received' = FALSE
  /\ UNCHANGED <<real, running, now, current_sim_time, g_total_pause_offset,
                 g_paused, g_pause_start, tstp_handler, stopped, sigcont_pending,
                 ghostVars>>

\* The end of the pause is now.
ReadResumeClock ==
  /\ LoopAt("resume_clock", IF g_paused THEN "resume_add" ELSE "update")
  /\ now' = IF g_paused THEN real ELSE now
  /\ UNCHANGED <<real, running, current_sim_time, g_total_pause_offset, signalVars,
                 ghostVars>>

\* Mutant of AddPause: the last pause replaces the earlier ones.
AddPauseReplaces ==
  /\ LoopAt("resume_add", "resume_clear")
  /\ g_total_pause_offset' = now - g_pause_start
  /\ UNCHANGED <<real, running, now, current_sim_time, signalVars, ghostVars>>

AddPause ==
  /\ LoopAt("resume_add", "resume_clear")
  /\ g_total_pause_offset' = g_total_pause_offset + (now - g_pause_start)
  /\ UNCHANGED <<real, running, now, current_sim_time, signalVars, ghostVars>>

ClearPaused ==
  /\ LoopAt("resume_clear", "update")
  /\ g_paused' = FALSE
  /\ UNCHANGED <<real, running, now, current_sim_time, g_total_pause_offset,
                 g_pause_start, g_sigcont_received, tstp_handler, stopped,
                 sigcont_pending, ghostVars>>

\* update_sim_time: read the clock ...
ReadClock ==
  /\ LoopAt("update", "store")
  /\ now' = real
  /\ UNCHANGED <<real, running, current_sim_time, g_total_pause_offset, signalVars,
                 ghostVars>>

\* Mutant of EffectiveElapsed: a pause not yet handled is counted as time.
ElapsedThroughPause == now - g_total_pause_offset

\* Time since the start without the pauses, the current one included.
EffectiveElapsed ==
  now - g_total_pause_offset - (IF g_paused THEN now - g_pause_start ELSE 0)

\* ... and publish the simulated time.
StoreSimTime ==
  /\ LoopAt("store", "wait")
  /\ current_sim_time' = sim_start_minutes
       + time_acceleration * (IF EffectiveElapsed < 0 THEN 0 ELSE EffectiveElapsed)
  /\ UNCHANGED <<real, running, now, g_total_pause_offset, signalVars, ghostVars>>

\* pause() returns at the next timer tick or signal; the loop condition.
Wake ==
  /\ LoopAt("wait", IF running THEN "resume" ELSE "exited")
  /\ UNCHANGED <<real, running, now, current_sim_time, g_total_pause_offset,
                 signalVars, ghostVars>>
-----------------------------------------------------------------------------
(* Signals, the clock and main. *)

\* SIGTSTP is caught: remember when the pause began, then stop.  SA_RESETHAND
\* leaves the default action behind for the re-raised signal.
SigtstpHandler ==
  /\ pauses < MaxPauses /\ pc # "exited"
  /\ ~stopped /\ ~sigcont_pending /\ tstp_handler
  /\ g_pause_start' = real
  /\ g_paused' = TRUE
  /\ tstp_handler' = FALSE
  /\ stopped' = TRUE
  /\ pauses' = pauses + 1
  /\ overlap' = (overlap \/ g_paused)
  /\ UNCHANGED <<real, running, loopVars, g_sigcont_received, sigcont_pending,
                 stopped_time, unhandled_time>>

\* SIGTSTP before the handler is back: it cancels the pending SIGCONT and the
\* process stops again by default.
SigtstpDefault ==
  /\ pauses < MaxPauses
  /\ ~stopped /\ sigcont_pending
  /\ stopped' = TRUE
  /\ sigcont_pending' = FALSE
  /\ pauses' = pauses + 1
  /\ UNCHANGED <<real, running, loopVars, g_paused, g_pause_start,
                 g_sigcont_received, tstp_handler, stopped_time, unhandled_time,
                 overlap>>

Continue ==
  /\ stopped
  /\ stopped' = FALSE
  /\ sigcont_pending' = TRUE
  /\ UNCHANGED <<real, running, loopVars, g_paused, g_pause_start,
                 g_sigcont_received, tstp_handler, ghostVars>>

SigcontHandler ==
  /\ sigcont_pending
  /\ sigcont_pending' = FALSE
  /\ g_sigcont_received' = TRUE
  /\ tstp_handler' = TRUE
  /\ UNCHANGED <<real, running, loopVars, g_paused, g_pause_start, stopped, ghostVars>>

\* A unit of real time passes.
Tick ==
  /\ real < MaxReal
  /\ real' = real + 1
  /\ stopped_time' = stopped_time + (IF stopped THEN 1 ELSE 0)
  /\ unhandled_time' = unhandled_time +
       (IF ~stopped /\ g_paused /\ pc \notin {"resume_add", "resume_clear"} THEN 1 ELSE 0)
  /\ UNCHANGED <<running, loopVars, signalVars, pauses, overlap>>

\* main: time_is_simulation_over.
EndOfDay ==
  /\ running
  /\ current_sim_time >= sim_end_minutes
  /\ running' = FALSE
  /\ UNCHANGED <<real, loopVars, signalVars, ghostVars>>

\* SIGTERM or SIGINT: the handler clears g_running.
SigtermHandler ==
  /\ running
  /\ running' = FALSE
  /\ UNCHANGED <<real, loopVars, signalVars, ghostVars>>

\* Nothing is left to do once the process has left its loop.
Exited == pc = "exited" /\ UNCHANGED vars

Loop == \/ TestSigcont \/ ReadResumeClock \/ AddPause \/ ClearPaused
        \/ ReadClock \/ StoreSimTime \/ Wake

Next == \/ Loop \/ SigtstpHandler \/ SigtstpDefault \/ Continue \/ SigcontHandler
        \/ Tick \/ EndOfDay \/ SigtermHandler \/ Exited

Spec == Init /\ [][Next]_vars
-----------------------------------------------------------------------------
(* Properties. *)

\* Types; the total of the pauses stays within the time that has passed
\* (time_server.c:118-121).
TypeOK ==
  /\ real \in 0..MaxReal /\ now \in 0..MaxReal /\ g_pause_start \in 0..MaxReal
  /\ current_sim_time \in Nat
  /\ g_total_pause_offset \in -MaxReal..MaxReal
  /\ running \in BOOLEAN /\ g_paused \in BOOLEAN /\ g_sigcont_received \in BOOLEAN
  /\ tstp_handler \in BOOLEAN /\ stopped \in BOOLEAN /\ sigcont_pending \in BOOLEAN
  /\ pc \in {"resume", "resume_clock", "resume_add", "resume_clear", "update",
             "store", "wait", "exited"}
  /\ pauses \in 0..MaxPauses
  /\ stopped_time \in 0..MaxReal /\ unhandled_time \in 0..MaxReal
  /\ overlap \in BOOLEAN

\* The pause the flags describe but the offset does not hold yet.
CurrentPause ==
  CASE ~g_paused \/ pc = "resume_clear" -> 0
    [] g_paused /\ pc = "resume_add"    -> now - g_pause_start
    [] OTHER                            -> real - g_pause_start

\* Offset and current pause are together exactly the time the process was
\* stopped, plus the moments between being continued and handle_resume, wherever
\* the signals hit the loop, as long as no SIGTSTP is caught before the pause
\* before it has been handled (time_server.c:50-127).
PauseAccounting ==
  ~overlap => g_total_pause_offset + CurrentPause = stopped_time + unhandled_time

\* Real time without the stops.
RunningTime == real - stopped_time

\* Simulated time never gets ahead of the time the simulation was running: no
\* pause is counted as time, whatever the loop was doing when it began, as long
\* as the pause before it has been handled (time_server.c:137-165).
PauseExcluded ==
  ~overlap =>
    current_sim_time <= sim_start_minutes + time_acceleration * RunningTime

\* The same without the condition: "Pause duration must be added to time_offset
\* so accelerated simulation time doesn't jump" (tests/test17_pause_resume.sh:6-7).
NoTimeJump ==
  current_sim_time <= sim_start_minutes + time_acceleration * RunningTime

\* Simulated time never runs backwards: every process compares it with ticket
\* validities and cooldowns (time_server.c:164).
SimTimeMonotone == [][current_sim_time' >= current_sim_time]_vars
=============================================================================
