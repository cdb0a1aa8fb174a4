-------------------------- MODULE GeneratorProofs ---------------------------
(***************************************************************************)
(* Proofs about the tourist generator: for any number of tourists, and     *)
(* however its two threads, the tourists, main and the signals interleave, *)
(* active_tourists is the number of tourists not reaped, up to the step    *)
(* each thread has still to take, and no tourist outlives the generator.   *)
(***************************************************************************)
EXTENDS Generator, FiniteSetTheorems, TLAPS

TouristPCs == {"none", "exec", "desk", "head", "gates", "board", "ride", "zombie", "reaped"}

\* The part of the types the proofs need.
GenTypes ==
  /\ gpc \in {"init", "head", "fork", "count", "stop", "poke", "join", "wait", "exited",
              "killed"}
  /\ rpc \in {"none", "test", "sigwait", "check", "reap", "count", "done"}
  /\ tourist_id \in 0..Total
  /\ active_tourists \in Int
  /\ tpc \in [Tourists -> TouristPCs]

\* A tourist's number is new when it is forked, and nobody is forked before the
\* generator has its reaper thread.
NumbersFresh ==
  /\ gpc = "init" => tourist_id = 0 /\ rpc = "none"
  /\ gpc = "fork" => tourist_id \in Tourists /\ tpc[tourist_id] = "none"
  /\ \A t \in Tourists : t > tourist_id => tpc[t] = "none"

GenInv == GenTypes /\ NumbersFresh /\ NoOrphans /\ ActiveExact

\* A step of tourist t after which it is somewhere else, but not reaped unless it
\* exits without the generator.
TouristMoves(t) ==
  /\ tpc[t] \notin {"none", "reaped"}
  /\ \E p \in TouristPCs \ {"none"} :
       /\ tpc' = [tpc EXCEPT ![t] = p]
       /\ p = "reaped" => ~Alive

-----------------------------------------------------------------------------
(* The steps *)

\* All a tourist's step does to the generator is to move the tourist.
LEMMA TouristStepMoves ==
  ASSUME NEW t \in Tourists, TouristStep(t) \/ Served(t)
  PROVE  /\ TouristMoves(t)
         /\ UNCHANGED <<gpc, rpc, tourist_id, active_tourists>>
<1>1. CASE Attach(t)
  BY <1>1 DEF Attach, TouristAt, Exit, touristRest, threadVars, TouristMoves, TouristPCs
<1>2. CASE RideLoop(t)
  BY <1>2 DEF RideLoop, TouristAt, Exit, touristRest, threadVars, TouristMoves, TouristPCs
<1>3. CASE Land(t)
  BY <1>3 DEF Land, TouristAt, Exit, touristRest, threadVars, TouristMoves, TouristPCs
<1>4. CASE CallFails(t)
  BY <1>4 DEF CallFails, TouristAt, Exit, touristRest, threadVars, TouristMoves, TouristPCs
<1>5. CASE Served(t)
  BY <1>5 DEF Served, TouristAt, touristRest, threadVars, TouristMoves, TouristPCs
<1>6. QED
  BY <1>1, <1>2, <1>3, <1>4, <1>5 DEF TouristStep

\* Neither main nor the signal handlers touch what GenInv speaks of.
LEMMA OthersLeaveAlone ==
  ASSUME \/ Signal \/ LeaveLoop \/ Interrupt \/ HandlerRemoves \/ Shutdown \/ Finished
         \/ UNCHANGED vars
  PROVE  UNCHANGED <<gpc, rpc, tourist_id, active_tourists, tpc>>
BY DEF Signal, LeaveLoop, Interrupt, HandlerRemoves, Shutdown, Finished, vars, mainRest,
   threadVars, reaperVars

\* Types.
LEMMA GenTypesNext ==
  ASSUME GenTypes, NumbersFresh, [Next]_vars
  PROVE  GenTypes'
<1> USE GeneratorAssumption DEF GenTypes
<1>1. CASE Start
  BY <1>1 DEF Start, GenAt
<1>2. CASE SpawnLoop
  BY <1>2 DEF SpawnLoop, GenAt, reaperVars
<1>3. CASE ForkTourist
  BY <1>3 DEF ForkTourist, GenAt, reaperVars, TouristPCs
<1>4. CASE CountTourist
  BY <1>4 DEF CountTourist, GenAt, reaperVars
<1>5. CASE StopReaper \/ JoinReaper
  BY <1>5 DEF StopReaper, JoinReaper, GenAt, reaperVars
<1>6. CASE WaitForTourists
  BY <1>6 DEF WaitForTourists, GenAt, Reap, reaperVars, TouristPCs
<1>7. CASE TestFlag \/ Sigwait \/ TestFlagAgain
  BY <1>7 DEF TestFlag, Sigwait, TestFlagAgain, ReaperAt, reaperRest
<1>8. CASE ReapZombies
  BY <1>8 DEF ReapZombies, Reap, ReaperAt, reaperRest, TouristPCs
<1>9. CASE CountReaped
  BY <1>9 DEF CountReaped, ReaperAt, reaperRest
<1>10. CASE \E t \in Tourists : TouristStep(t) \/ Served(t)
  BY <1>10, TouristStepMoves DEF TouristMoves
<1>11. CASE Kill
  BY <1>11 DEF Kill, reaperVars, TouristPCs
<1>12. CASE \/ Signal \/ LeaveLoop \/ Interrupt \/ HandlerRemoves \/ Shutdown \/ Finished
            \/ UNCHANGED vars
  BY <1>12, OthersLeaveAlone
<1>13. QED
  BY <1>1, <1>2, <1>3, <1>4, <1>5, <1>6, <1>7, <1>8, <1>9, <1>10, <1>11, <1>12
     DEF Next, GeneratorStep, ReaperStep

\* Every number is used for one fork at most.
LEMMA NumbersFreshNext ==
  ASSUME GenTypes, NumbersFresh, [Next]_vars
  PROVE  NumbersFresh'
<1> USE GeneratorAssumption DEF GenTypes, NumbersFresh, Tourists
<1>1. CASE Start
  BY <1>1 DEF Start, GenAt
<1>2. CASE SpawnLoop
  BY <1>2 DEF SpawnLoop, GenAt, reaperVars
<1>3. CASE ForkTourist
  BY <1>3 DEF ForkTourist, GenAt, reaperVars
<1>4. CASE CountTourist \/ StopReaper \/ JoinReaper
  BY <1>4 DEF CountTourist, StopReaper, JoinReaper, GenAt, reaperVars
<1>5. CASE WaitForTourists
  BY <1>5 DEF WaitForTourists, GenAt, Reap, reaperVars
<1>6. CASE TestFlag \/ Sigwait \/ TestFlagAgain \/ CountReaped
  BY <1>6 DEF TestFlag, Sigwait, TestFlagAgain, CountReaped, ReaperAt, reaperRest
<1>7. CASE ReapZombies
  BY <1>7 DEF ReapZombies, Reap, ReaperAt, reaperRest
<1>8. CASE \E t \in Tourists : TouristStep(t) \/ Served(t)
  BY <1>8, TouristStepMoves DEF TouristMoves
<1>9. CASE Kill
  BY <1>9 DEF Kill
<1>10. CASE \/ Signal \/ LeaveLoop \/ Interrupt \/ HandlerRemoves \/ Shutdown \/ Finished
            \/ UNCHANGED vars
  BY <1>10, OthersLeaveAlone
<1>11. QED
  BY <1>1, <1>2, <1>3, <1>4, <1>5, <1>6, <1>7, <1>8, <1>9, <1>10
     DEF Next, GeneratorStep, ReaperStep

\* The generator exits before it has forked anybody, or when waitpid has no child
\* left to report.
LEMMA NoOrphansNext ==
  ASSUME GenTypes, NumbersFresh, NoOrphans, [Next]_vars
  PROVE  NoOrphans'
<1> USE GeneratorAssumption DEF GenTypes, NoOrphans
<1>1. CASE Start
  BY <1>1 DEF Start, GenAt, NumbersFresh, Tourists
<1>2. CASE SpawnLoop \/ ForkTourist \/ CountTourist \/ StopReaper \/ JoinReaper
  BY <1>2 DEF SpawnLoop, ForkTourist, CountTourist, StopReaper, JoinReaper, GenAt
<1>3. CASE WaitForTourists
  BY <1>3 DEF WaitForTourists, GenAt
<1>4. CASE TestFlag \/ Sigwait \/ TestFlagAgain \/ CountReaped
  BY <1>4 DEF TestFlag, Sigwait, TestFlagAgain, CountReaped, reaperRest
<1>5. CASE ReapZombies
  BY <1>5 DEF ReapZombies, ReaperAt, Alive, reaperRest
<1>6. CASE \E t \in Tourists : TouristStep(t) \/ Served(t)
  BY <1>6, TouristStepMoves DEF TouristMoves
<1>7. CASE Kill
  BY <1>7 DEF Kill
<1>8. CASE \/ Signal \/ LeaveLoop \/ Interrupt \/ HandlerRemoves \/ Shutdown \/ Finished
           \/ UNCHANGED vars
  BY <1>8, OthersLeaveAlone
<1>9. QED
  BY <1>1, <1>2, <1>3, <1>4, <1>5, <1>6, <1>7, <1>8 DEF Next, GeneratorStep, ReaperStep

-----------------------------------------------------------------------------
(* Counting *)

\* The tourists not reaped are finitely many.
LEMMA UnreapedFinite ==
  IsFiniteSet(Unreaped) /\ Cardinality(Unreaped) \in Nat
<1>1. IsFiniteSet(Tourists)
  BY GeneratorAssumption, FS_Interval DEF Tourists
<1>2. Unreaped \in SUBSET Tourists
  BY DEF Unreaped
<1>3. QED
  BY <1>1, <1>2, FS_Subset, FS_CardinalityType

\* A fork adds one.
LEMMA ForkAdds ==
  ASSUME GenTypes, NEW t \in Tourists, tpc[t] = "none", tpc' = [tpc EXCEPT ![t] = "exec"]
  PROVE  Cardinality(Unreaped)' = Cardinality(Unreaped) + 1
<1>1. Unreaped' = Unreaped \cup {t} /\ t \notin Unreaped
  BY DEF Unreaped, GenTypes
<1>2. QED
  BY <1>1, UnreapedFinite, FS_AddElement

\* A waitpid that reports a child takes one away.
LEMMA ReapTakes ==
  ASSUME GenTypes, Reap
  PROVE  Cardinality(Unreaped)' = Cardinality(Unreaped) - 1
<1>1. PICK t \in Tourists : tpc[t] = "zombie" /\ tpc' = [tpc EXCEPT ![t] = "reaped"]
  BY DEF Reap
<1>2. Unreaped' = Unreaped \ {t} /\ t \in Unreaped
  BY <1>1 DEF Unreaped, GenTypes
<1>3. QED
  BY <1>2, UnreapedFinite, FS_RemoveElement

\* The counter follows both threads.
LEMMA ActiveExactNext ==
  ASSUME GenTypes, NumbersFresh, ActiveExact, [Next]_vars
  PROVE  ActiveExact'
<1> SUFFICES ASSUME (Alive /\ gpc # "wait")'
             PROVE  (active_tourists = Cardinality(Unreaped) - (IF gpc = "count" THEN 1 ELSE 0)
                                            + (IF rpc = "count" THEN 1 ELSE 0))'
  BY DEF ActiveExact
<1> USE DEF GenTypes, Alive, ActiveExact
<1>0. Cardinality(Unreaped) \in Nat
  BY UnreapedFinite
<1>1. CASE Start
  BY <1>0, <1>1 DEF Start, GenAt, Unreaped, NumbersFresh
<1>2. CASE SpawnLoop
  BY <1>0, <1>2 DEF SpawnLoop, GenAt, Unreaped, reaperVars
<1>3. CASE ForkTourist
  <2>1. CASE GenAt("fork", "head") /\ UNCHANGED tpc
    BY <1>0, <1>3, <2>1 DEF ForkTourist, GenAt, Unreaped, reaperVars
  <2>2. CASE GenAt("fork", "count") /\ tpc' = [tpc EXCEPT ![tourist_id] = "exec"]
    <3>1. Cardinality(Unreaped)' = Cardinality(Unreaped) + 1
      BY <2>2, ForkAdds DEF NumbersFresh, GenAt
    <3>2. QED
      BY <1>0, <1>3, <2>2, <3>1 DEF ForkTourist, GenAt, reaperVars
  <2>3. QED
    BY <1>3, <2>1, <2>2 DEF ForkTourist
<1>4. CASE CountTourist
  BY <1>0, <1>4 DEF CountTourist, GenAt, Unreaped, reaperVars
<1>5. CASE StopReaper
  BY <1>0, <1>5 DEF StopReaper, GenAt, Unreaped
<1>6. CASE JoinReaper \/ WaitForTourists
  BY <1>6 DEF JoinReaper, WaitForTourists, GenAt
<1>7. CASE TestFlag \/ Sigwait \/ TestFlagAgain
  BY <1>0, <1>7 DEF TestFlag, Sigwait, TestFlagAgain, ReaperAt, reaperRest, Unreaped
<1>8. CASE ReapZombies
  <2>1. CASE ReaperAt("reap", "count") /\ Reap
    <3>1. Cardinality(Unreaped)' = Cardinality(Unreaped) - 1
      BY <2>1, ReapTakes
    <3>2. QED
      BY <1>0, <1>8, <2>1, <3>1 DEF ReapZombies, ReaperAt, reaperRest
  <2>2. CASE ReaperAt("reap", "test") /\ UNCHANGED tpc
    BY <1>0, <1>8, <2>2 DEF ReapZombies, ReaperAt, reaperRest, Unreaped
  <2>3. QED
    BY <1>8, <2>1, <2>2 DEF ReapZombies
<1>9. CASE CountReaped
  BY <1>0, <1>9 DEF CountReaped, ReaperAt, reaperRest, Unreaped
<1>10. CASE \E t \in Tourists : TouristStep(t) \/ Served(t)
  <2>1. PICK t \in Tourists :
          TouristMoves(t) /\ UNCHANGED <<gpc, rpc, tourist_id, active_tourists>>
    BY <1>10, TouristStepMoves
  <2>2. Unreaped' = Unreaped
    BY <2>1 DEF TouristMoves, Unreaped
  <2>3. QED
    BY <1>0, <2>1, <2>2
<1>11. CASE Kill
  BY <1>11 DEF Kill
<1>12. CASE \/ Signal \/ LeaveLoop \/ Interrupt \/ HandlerRemoves \/ Shutdown \/ Finished
            \/ UNCHANGED vars
  BY <1>12, OthersLeaveAlone DEF Unreaped
<1>13. QED
  BY <1>1, <1>2, <1>3, <1>4, <1>5, <1>6, <1>7, <1>8, <1>9, <1>10, <1>11, <1>12
     DEF Next, GeneratorStep, ReaperStep

-----------------------------------------------------------------------------
(* Theorems *)

\* The invariant holds at the start.
LEMMA GenInit == Init => GenInv
<1> SUFFICES ASSUME Init PROVE GenInv
  OBVIOUS
<1>1. GenTypes /\ NumbersFresh /\ NoOrphans
  BY GeneratorAssumption DEF Init, GenTypes, NumbersFresh, NoOrphans, TouristPCs
<1>2. Unreaped = {}
  BY DEF Init, Unreaped
<1>3. ActiveExact
  BY <1>2, FS_EmptySet DEF Init, ActiveExact
<1>4. QED
  BY <1>1, <1>3 DEF GenInv

\* The inductive invariant: numbers are fresh when they are forked, which is what
\* makes the count exact and an early exit harmless (tourist_generator.c).
THEOREM GeneratorInvariant == Spec => []GenInv
<1>1. GenInv /\ [Next]_vars => GenInv'
  <2> SUFFICES ASSUME GenInv, [Next]_vars PROVE GenInv'
    OBVIOUS
  <2>0. GenTypes /\ NumbersFresh /\ NoOrphans /\ ActiveExact
    BY DEF GenInv
  <2>1. GenTypes'
    BY <2>0, GenTypesNext
  <2>2. NumbersFresh'
    BY <2>0, NumbersFreshNext
  <2>3. NoOrphans'
    BY <2>0, NoOrphansNext
  <2>4. ActiveExact'
    BY <2>0, ActiveExactNext
  <2>5. QED
    BY <2>1, <2>2, <2>3, <2>4 DEF GenInv
<1>2. QED
  BY <1>1, GenInit, PTL DEF Spec

\* No tourist outlives a generator that was not killed
\* (tourist_generator.c:305-326, main.c:268-277).
THEOREM NoOrphansHolds == Spec => []NoOrphans
<1>1. GenInv => NoOrphans
  BY DEF GenInv
<1>2. QED
  BY <1>1, GeneratorInvariant, PTL

\* active_tourists is the number of tourists not reaped, up to the step each of the
\* two threads has still to take (tourist_generator.c:63-65, 286, 309).
THEOREM ActiveExactHolds == Spec => []ActiveExact
<1>1. GenInv => ActiveExact
  BY DEF GenInv
<1>2. QED
  BY <1>1, GeneratorInvariant, PTL
=============================================================================
