-------------------------- MODULE TimeServerProofs --------------------------
(***************************************************************************)
(* Proofs about the time server: pauses are accounted exactly, no pause is *)
(* counted as simulated time, and simulated time never runs back, for any  *)
(* clock values, any acceleration and any number of signals.               *)
(***************************************************************************)
EXTENDS TimeServer, TLAPS

\* The types the proofs need.  (That the offset is bounded by the time passed is
\* not needed; two overlapping pauses can make it negative.)
TimeNumbers ==
  /\ real \in Nat /\ now \in Nat /\ g_pause_start \in Nat
  /\ now <= real /\ g_pause_start <= real
  /\ current_sim_time \in Nat /\ g_total_pause_offset \in Int
  /\ pauses \in Nat /\ stopped_time \in Nat /\ unhandled_time \in Nat

TimeFlags ==
  /\ running \in BOOLEAN /\ g_paused \in BOOLEAN /\ g_sigcont_received \in BOOLEAN
  /\ tstp_handler \in BOOLEAN /\ stopped \in BOOLEAN /\ sigcont_pending \in BOOLEAN
  /\ pc \in {"resume", "resume_clock", "resume_add", "resume_clear", "update",
             "store", "wait", "exited"}
  /\ overlap \in BOOLEAN

TimeTypes == TimeNumbers /\ TimeFlags

\* Multiplying by the acceleration preserves order and signs.
LEMMA ScaleMonotone ==
  ASSUME NEW k \in Nat, NEW a \in Int, NEW b \in Int, a <= b
  PROVE  k * a \in Int /\ k * b \in Int /\ k * a <= k * b
<1>1. k * (b - a) >= 0
  OBVIOUS
<1>2. k * b = k * a + k * (b - a)
  OBVIOUS
<1>3. QED
  BY <1>1, <1>2

\* The elapsed time is a number.
LEMMA ElapsedType ==
  ASSUME TimeTypes
  PROVE  EffectiveElapsed \in Int
BY DEF TimeTypes, TimeNumbers, EffectiveElapsed

\* What update_sim_time publishes is a natural number.
LEMMA PublishedType ==
  ASSUME TimeTypes
  PROVE  sim_start_minutes
           + time_acceleration * (IF EffectiveElapsed < 0 THEN 0 ELSE EffectiveElapsed) \in Nat
<1> DEFINE e == IF EffectiveElapsed < 0 THEN 0 ELSE EffectiveElapsed
<1>1. e \in Nat
  BY ElapsedType
<1>2. time_acceleration \in Nat /\ sim_start_minutes \in Nat
  BY TimeAssumption
<1> HIDE DEF e
<1>3. time_acceleration * e \in Nat
  BY <1>1, <1>2
<1>4. sim_start_minutes + time_acceleration * e \in Nat
  BY <1>2, <1>3
<1>5. QED
  BY <1>4 DEF e

\* The steps of the loop and of the signals keep the numbers: the clock is never
\* read ahead of the present.
LEMMA NumbersNext ==
  ASSUME TimeTypes, [Next]_vars
  PROVE  TimeNumbers'
<1>1. CASE StoreSimTime
  <2>1. current_sim_time' \in Nat
    BY <1>1, PublishedType DEF StoreSimTime
  <2>2. QED
    BY <1>1, <2>1 DEF StoreSimTime, TimeTypes, TimeNumbers, signalVars, ghostVars
<1>2. CASE TestSigcont \/ AddPause \/ ClearPaused \/ Wake
  BY <1>2 DEF TestSigcont, AddPause, ClearPaused, Wake, TimeTypes, TimeNumbers, signalVars,
     ghostVars
<1>3. CASE ReadResumeClock \/ ReadClock
  BY <1>3 DEF ReadResumeClock, ReadClock, TimeTypes, TimeNumbers, signalVars, ghostVars
<1>4. CASE SigtstpHandler \/ SigtstpDefault \/ Continue \/ SigcontHandler
  BY <1>4 DEF SigtstpHandler, SigtstpDefault, Continue, SigcontHandler, TimeTypes, TimeNumbers,
     loopVars, ghostVars
<1>5. CASE Tick
  BY <1>5 DEF Tick, TimeTypes, TimeNumbers, loopVars, signalVars
<1>6. CASE EndOfDay \/ SigtermHandler \/ Exited \/ UNCHANGED vars
  BY <1>6 DEF EndOfDay, SigtermHandler, Exited, vars, TimeTypes, TimeNumbers, loopVars,
     signalVars, ghostVars
<1>7. QED
  BY <1>1, <1>2, <1>3, <1>4, <1>5, <1>6 DEF Next, Loop

\* ... and the flags.
LEMMA FlagsNext ==
  ASSUME TimeTypes, [Next]_vars
  PROVE  TimeFlags'
<1>1. CASE TestSigcont
  BY <1>1 DEF TestSigcont, LoopAt, TimeTypes, TimeFlags, ghostVars
<1>2. CASE ReadResumeClock
  BY <1>2 DEF ReadResumeClock, LoopAt, TimeTypes, TimeFlags, signalVars, ghostVars
<1>3. CASE AddPause \/ ReadClock \/ StoreSimTime
  BY <1>3 DEF AddPause, ReadClock, StoreSimTime, LoopAt, TimeTypes, TimeFlags, signalVars,
     ghostVars
<1>4. CASE ClearPaused
  BY <1>4 DEF ClearPaused, LoopAt, TimeTypes, TimeFlags, ghostVars
<1>5. CASE Wake
  BY <1>5 DEF Wake, LoopAt, TimeTypes, TimeFlags, signalVars, ghostVars
<1>6. CASE SigtstpHandler
  BY <1>6 DEF SigtstpHandler, TimeTypes, TimeFlags, loopVars
<1>7. CASE SigtstpDefault
  BY <1>7 DEF SigtstpDefault, TimeTypes, TimeFlags, loopVars
<1>8. CASE Continue
  BY <1>8 DEF Continue, TimeTypes, TimeFlags, loopVars, ghostVars
<1>9. CASE SigcontHandler
  BY <1>9 DEF SigcontHandler, TimeTypes, TimeFlags, loopVars, ghostVars
<1>10. CASE Tick
  BY <1>10 DEF Tick, TimeTypes, TimeFlags, loopVars, signalVars
<1>11. CASE EndOfDay \/ SigtermHandler
  BY <1>11 DEF EndOfDay, SigtermHandler, TimeTypes, TimeFlags, loopVars, signalVars, ghostVars
<1>12. CASE UNCHANGED vars
  BY <1>12 DEF vars, TimeTypes, TimeFlags, loopVars, signalVars, ghostVars
<1>13. QED
  BY <1>1, <1>2, <1>3, <1>4, <1>5, <1>6, <1>7, <1>8, <1>9, <1>10, <1>11, <1>12
     DEF Next, Loop, Exited

\* Every step keeps the types.
LEMMA TypesNext ==
  ASSUME TimeTypes, [Next]_vars
  PROVE  TimeTypes'
BY NumbersNext, FlagsNext DEF TimeTypes

-----------------------------------------------------------------------------
(* Simulated time *)

\* The elapsed time the next store will publish at least, were it to come at this
\* moment: a pause holds it where the pause began, and between adding a pause and
\* clearing g_paused the offset already has it.
Reach ==
  (IF pc # "resume_clear" /\ g_paused THEN g_pause_start
   ELSE IF pc = "store" THEN now ELSE real) - g_total_pause_offset

\* handle_resume works on a pause.
ResumePaused == pc \in {"resume_add", "resume_clear"} => g_paused

\* What has been published is not ahead of what will be.
ReachInv ==
  /\ Reach >= 0
  /\ current_sim_time <= sim_start_minutes + time_acceleration * Reach

\* Reach is a number.
LEMMA ReachType ==
  ASSUME TimeTypes
  PROVE  Reach \in Int
BY DEF TimeTypes, TimeNumbers, TimeFlags, Reach

\* handle_resume clears g_paused last, and no signal clears it.
LEMMA ResumePausedNext ==
  ASSUME TimeTypes, ResumePaused, [Next]_vars
  PROVE  ResumePaused'
<1>1. CASE Loop
  BY <1>1 DEF Loop, TestSigcont, ReadResumeClock, AddPause, ClearPaused, ReadClock,
     StoreSimTime, Wake, LoopAt, ResumePaused, signalVars
<1>2. CASE ~Loop
  BY <1>2 DEF Next, SigtstpHandler, SigtstpDefault, Continue, SigcontHandler, Tick, EndOfDay,
     SigtermHandler, Exited, vars, loopVars, signalVars, ResumePaused
<1>3. QED
  BY <1>1, <1>2

\* No step takes back time the loop could have published.
LEMMA ReachGrows ==
  ASSUME TimeTypes, ResumePaused, [Next]_vars
  PROVE  Reach' >= Reach
<1>1. CASE TestSigcont \/ ReadResumeClock \/ AddPause
  BY <1>1 DEF TestSigcont, ReadResumeClock, AddPause, LoopAt, Reach, TimeTypes, TimeNumbers,
     TimeFlags, ResumePaused,
     signalVars
<1>2. CASE ClearPaused \/ ReadClock \/ StoreSimTime \/ Wake
  BY <1>2 DEF ClearPaused, ReadClock, StoreSimTime, Wake, LoopAt, Reach, TimeTypes,
     TimeNumbers, TimeFlags, signalVars
<1>3. CASE SigtstpHandler \/ SigtstpDefault \/ Continue \/ SigcontHandler
  BY <1>3 DEF SigtstpHandler, SigtstpDefault, Continue, SigcontHandler, loopVars, Reach,
     TimeTypes, TimeNumbers, TimeFlags
<1>4. CASE Tick \/ EndOfDay \/ SigtermHandler \/ Exited \/ UNCHANGED vars
  BY <1>4 DEF Tick, EndOfDay, SigtermHandler, Exited, vars, loopVars, signalVars, Reach,
     TimeTypes, TimeNumbers, TimeFlags
<1>5. QED
  BY <1>1, <1>2, <1>3, <1>4 DEF Next, Loop

\* Only update_sim_time publishes, and it publishes what it could reach.
LEMMA StoreReaches ==
  ASSUME TimeTypes, [Next]_vars, current_sim_time' # current_sim_time, Reach >= 0
  PROVE  current_sim_time' = sim_start_minutes + time_acceleration * Reach
<1>1. StoreSimTime
  BY DEF Next, Loop, TestSigcont, ReadResumeClock, AddPause, ClearPaused, ReadClock, Wake,
     SigtstpHandler, SigtstpDefault, Continue, SigcontHandler, Tick, EndOfDay, SigtermHandler,
     Exited, vars, loopVars
<1>2. EffectiveElapsed = Reach
  BY <1>1 DEF StoreSimTime, LoopAt, EffectiveElapsed, Reach, TimeTypes, TimeNumbers, TimeFlags
<1>3. (IF EffectiveElapsed < 0 THEN 0 ELSE EffectiveElapsed) = Reach
  BY <1>2, ReachType
<1>4. QED
  BY <1>1, <1>3 DEF StoreSimTime

\* Therefore what was published stays within reach, and is never taken back.
LEMMA ReachNext ==
  ASSUME TimeTypes, ResumePaused, ReachInv, [Next]_vars
  PROVE  ReachInv' /\ current_sim_time' >= current_sim_time
<1>0. TimeTypes'
  BY TypesNext
<1>1. Reach \in Int /\ Reach' \in Int /\ Reach' >= Reach /\ Reach >= 0
  <2>1. Reach' \in Int
    BY <1>0 DEF TimeTypes, TimeNumbers, Reach
  <2>2. QED
    BY <2>1, ReachType, ReachGrows DEF ReachInv
<1>2. time_acceleration \in Nat /\ sim_start_minutes \in Nat
  BY TimeAssumption
<1>3. time_acceleration * Reach <= time_acceleration * Reach'
      /\ time_acceleration * Reach \in Int /\ time_acceleration * Reach' \in Int
  BY <1>1, <1>2, ScaleMonotone
<1>4. current_sim_time \in Nat /\ current_sim_time' \in Nat
  BY <1>0 DEF TimeTypes, TimeNumbers
<1>5. CASE current_sim_time' = current_sim_time
  <2> DEFINE a == time_acceleration * Reach
  <2> DEFINE b == time_acceleration * Reach'
  <2>1. current_sim_time <= sim_start_minutes + a
    BY DEF ReachInv
  <2>2. a \in Int /\ b \in Int /\ a <= b
    BY <1>3
  <2> HIDE DEF a, b
  <2>3. current_sim_time' <= sim_start_minutes + b
    BY <1>2, <1>4, <1>5, <2>1, <2>2
  <2>4. QED
    BY <1>1, <1>4, <1>5, <2>3 DEF ReachInv, b
<1>6. CASE current_sim_time' # current_sim_time
  <2>1. current_sim_time' = sim_start_minutes + time_acceleration * Reach
    BY <1>1, <1>6, StoreReaches
  <2> DEFINE a == time_acceleration * Reach
  <2> DEFINE b == time_acceleration * Reach'
  <2>2. a \in Int /\ b \in Int /\ a <= b
    BY <1>3
  <2>3. current_sim_time' = sim_start_minutes + a /\ current_sim_time <= sim_start_minutes + a
    BY <2>1 DEF ReachInv
  <2> HIDE DEF a, b
  <2>4. current_sim_time' <= sim_start_minutes + b /\ current_sim_time' >= current_sim_time
    BY <1>2, <1>4, <2>2, <2>3
  <2>5. QED
    BY <1>1, <2>4 DEF ReachInv, b
<1>7. QED
  BY <1>5, <1>6

-----------------------------------------------------------------------------
(* Pauses *)

\* As long as pauses do not overlap, the process is stopped or has a SIGCONT
\* pending only while a pause is recorded and not being added.
StoppedInPause ==
  ~overlap /\ (stopped \/ sigcont_pending) =>
    g_paused /\ pc \notin {"resume_add", "resume_clear"}

PauseInv == StoppedInPause /\ PauseAccounting

\* Every step keeps StoppedInPause: a SIGTSTP caught inside handle_resume is an
\* overlap.
LEMMA StoppedInPauseNext ==
  ASSUME TimeTypes, ResumePaused, StoppedInPause, [Next]_vars
  PROVE  StoppedInPause'
<1>1. CASE Loop
  BY <1>1 DEF Loop, TestSigcont, ReadResumeClock, AddPause, ClearPaused, ReadClock,
     StoreSimTime, Wake, LoopAt, StoppedInPause, signalVars, ghostVars
<1>2. CASE SigtstpHandler \/ SigtstpDefault \/ Continue \/ SigcontHandler
  BY <1>2 DEF SigtstpHandler, SigtstpDefault, Continue, SigcontHandler, loopVars, ghostVars,
     StoppedInPause, ResumePaused, TimeTypes, TimeNumbers, TimeFlags
<1>3. CASE Tick \/ EndOfDay \/ SigtermHandler \/ Exited \/ UNCHANGED vars
  BY <1>3 DEF Tick, EndOfDay, SigtermHandler, Exited, vars, loopVars, signalVars, ghostVars,
     StoppedInPause
<1>4. QED
  BY <1>1, <1>2, <1>3 DEF Next

\* Every step keeps the account of the pauses.
LEMMA PauseNext ==
  ASSUME TimeTypes, ResumePaused, PauseInv, [Next]_vars
  PROVE  PauseInv'
<1>1. StoppedInPause'
  BY StoppedInPauseNext DEF PauseInv
<1>2. SUFFICES ASSUME ~overlap'
               PROVE  (g_total_pause_offset + CurrentPause = stopped_time + unhandled_time)'
  BY <1>1 DEF PauseInv, PauseAccounting
<1>3. ~overlap
  BY <1>2 DEF Next, Loop, TestSigcont, ReadResumeClock, AddPause, ClearPaused, ReadClock,
     StoreSimTime, Wake, SigtstpHandler, SigtstpDefault, Continue, SigcontHandler, Tick,
     EndOfDay, SigtermHandler, Exited, vars, ghostVars, TimeTypes, TimeNumbers, TimeFlags
<1>4. g_total_pause_offset + CurrentPause = stopped_time + unhandled_time
  BY <1>3 DEF PauseInv, PauseAccounting
<1>5. CASE TestSigcont \/ ReadResumeClock \/ AddPause \/ ClearPaused
  BY <1>4, <1>5 DEF TestSigcont, ReadResumeClock, AddPause, ClearPaused, LoopAt, CurrentPause,
     TimeTypes, TimeNumbers, TimeFlags, ResumePaused, signalVars, ghostVars
<1>6. CASE ReadClock \/ StoreSimTime \/ Wake
  BY <1>4, <1>6 DEF ReadClock, StoreSimTime, Wake, LoopAt, CurrentPause, TimeTypes,
     TimeNumbers, TimeFlags, signalVars,
     ghostVars
<1>7. CASE SigtstpHandler
  BY <1>2, <1>4, <1>7 DEF SigtstpHandler, CurrentPause, TimeTypes, TimeNumbers, TimeFlags,
     ResumePaused, loopVars
<1>8. CASE SigtstpDefault \/ Continue \/ SigcontHandler
  BY <1>4, <1>8 DEF SigtstpDefault, Continue, SigcontHandler, CurrentPause, TimeTypes,
     TimeNumbers, TimeFlags, loopVars,
     ghostVars
<1>9. CASE Tick
  BY <1>3, <1>4, <1>9 DEF Tick, CurrentPause, TimeTypes, TimeNumbers, TimeFlags, PauseInv,
     StoppedInPause, loopVars,
     signalVars
<1>10. CASE EndOfDay \/ SigtermHandler \/ Exited \/ UNCHANGED vars
  BY <1>4, <1>10 DEF EndOfDay, SigtermHandler, Exited, vars, CurrentPause, loopVars, signalVars,
     ghostVars
<1>11. QED
  BY <1>5, <1>6, <1>7, <1>8, <1>9, <1>10 DEF Next, Loop

\* What can be reached is within the time the simulation was running.
LEMMA ReachWithinRunning ==
  ASSUME TimeTypes, PauseAccounting, ~overlap
  PROVE  Reach <= RunningTime
BY DEF TimeTypes, TimeNumbers, TimeFlags, PauseAccounting, CurrentPause, Reach, RunningTime

-----------------------------------------------------------------------------
(* Theorems *)

TimeInv == TimeTypes /\ ResumePaused /\ ReachInv /\ PauseInv

\* The invariant holds at the start.
LEMMA TimeInit == Init => TimeInv
<1> SUFFICES ASSUME Init PROVE TimeInv
  OBVIOUS
<1>1. TimeTypes /\ ResumePaused /\ Reach = 0
  <2>1. TimeNumbers
    BY TimeAssumption DEF Init, TimeNumbers
  <2>2. TimeFlags
    BY DEF Init, TimeFlags
  <2>3. ResumePaused /\ Reach = 0
    BY DEF Init, ResumePaused, Reach
  <2>4. QED
    BY <2>1, <2>2, <2>3 DEF TimeTypes
<1>2. ReachInv
  <2>1. time_acceleration * 0 = 0
    BY TimeAssumption
  <2>2. QED
    BY <1>1, <2>1, TimeAssumption DEF Init, ReachInv
<1>3. PauseInv
  BY DEF Init, PauseInv, StoppedInPause, PauseAccounting, CurrentPause
<1>4. QED
  BY <1>1, <1>2, <1>3 DEF TimeInv

\* The inductive invariant: types, a bound on everything published, and the exact
\* account of the pauses.
THEOREM TimeInvariant == Spec => []TimeInv
<1>1. TimeInv /\ [Next]_vars => TimeInv'
  <2> SUFFICES ASSUME TimeInv, [Next]_vars PROVE TimeInv'
    OBVIOUS
  <2>0. TimeTypes /\ ResumePaused /\ ReachInv /\ PauseInv
    BY DEF TimeInv
  <2>1. TimeTypes'
    BY <2>0, TypesNext
  <2>2. ResumePaused'
    BY <2>0, ResumePausedNext
  <2>3. ReachInv'
    BY <2>0, ReachNext
  <2>4. PauseInv'
    BY <2>0, PauseNext
  <2>5. QED
    BY <2>1, <2>2, <2>3, <2>4 DEF TimeInv
<1>2. QED
  BY <1>1, TimeInit, PTL DEF Spec

\* The offset and the current pause are exactly the time the process was stopped,
\* plus the moments until handle_resume notices (time_server.c:50-127).
THEOREM PauseAccountingHolds == Spec => []PauseAccounting
<1>1. TimeInv => PauseAccounting
  BY DEF TimeInv, PauseInv
<1>2. QED
  BY <1>1, TimeInvariant, PTL

\* Simulated time never gets ahead of the time the simulation was running
\* (time_server.c:137-165).
THEOREM PauseExcludedHolds == Spec => []PauseExcluded
<1>1. TimeInv => PauseExcluded
  <2> SUFFICES ASSUME TimeInv, ~overlap
               PROVE  current_sim_time <= sim_start_minutes + time_acceleration * RunningTime
    BY DEF PauseExcluded
  <2>1. Reach \in Int /\ RunningTime \in Int /\ Reach <= RunningTime
    BY ReachType, ReachWithinRunning DEF TimeInv, PauseInv, RunningTime, TimeTypes,
     TimeNumbers, TimeFlags
  <2>2. time_acceleration \in Nat /\ sim_start_minutes \in Nat
    BY TimeAssumption
  <2>3. /\ time_acceleration * Reach <= time_acceleration * RunningTime
        /\ time_acceleration * Reach \in Int /\ time_acceleration * RunningTime \in Int
    BY <2>1, <2>2, ScaleMonotone
  <2>4. current_sim_time \in Nat
        /\ current_sim_time <= sim_start_minutes + time_acceleration * Reach
    BY DEF TimeInv, TimeTypes, TimeNumbers, TimeFlags, ReachInv
  <2>5. QED
    BY <2>2, <2>3, <2>4
<1>2. QED
  BY <1>1, TimeInvariant, PTL

\* Simulated time never runs back, also when pauses overlap (time_server.c:164).
THEOREM SimTimeMonotoneHolds == Spec => SimTimeMonotone
<1>1. TimeInv /\ [Next]_vars => [current_sim_time' >= current_sim_time]_vars
  <2> SUFFICES ASSUME TimeInv, [Next]_vars PROVE current_sim_time' >= current_sim_time
    OBVIOUS
  <2>1. QED
    BY ReachNext DEF TimeInv
<1>2. QED
  BY <1>1, TimeInvariant, PTL DEF Spec, SimTimeMonotone
=============================================================================
