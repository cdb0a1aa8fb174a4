--------------------------- MODULE RopewayProofs ---------------------------
(***************************************************************************)
(* Proofs about Ropeway, for any tourists, gates, chairs, capacities and   *)
(* any number of dangers and pauses: the types; the emergency protocol of  *)
(* the two workers, who may be the initiator and which handshake messages  *)
(* can be under way; and what the tourists take and give back, the gates,  *)
(* the places of the waiting room and the tokens of SEM_EMERGENCY_CLEAR.   *)
(***************************************************************************)
EXTENDS Ropeway, TLAPS, FiniteSetTheorems

(* Types *)

\* A semop keeps the values of the semaphore set natural numbers: the kernel
\* lets no semaphore go below zero.
LEMMA SemWaitType ==
  ASSUME sem \in [Semaphores -> Nat], NEW s \in Semaphores, NEW n \in Nat,
         SemWait(s, n)
  PROVE  sem' \in [Semaphores -> Nat]
BY DEF SemWait

\* The same for a post.
LEMMA SemPostType ==
  ASSUME sem \in [Semaphores -> Nat], NEW s \in Semaphores, NEW n \in Nat,
         SemPost(s, n)
  PROVE  sem' \in [Semaphores -> Nat]
BY DEF SemPost

\* The room a tourist takes in the station and on a chair (init.c).
LEMMA SlotsType ==
  ASSUME NEW t \in Tourists
  PROVE  StationSlots(t) \in 1..3 /\ ChairSlots(t) \in 1..4
BY TouristsAssumption DEF StationSlots, ChairSlots

\* The messages and counters a tourist's steps write have their types.
LEMMA TouristData ==
  ASSUME TypeOK, NEW t \in Tourists
  PROVE  /\ SendRequest(t) => mq_platform' \in [1..2 -> Seq(Tourists)]
         /\ Board(t) => /\ seat' \in [Tourists -> Seat]
                        /\ mq_boarding' \in [Tourists -> Seq(Seat)]
         /\ ArriveUpper(t) => /\ seat' \in [Tourists -> Seat]
                              /\ mq_arrivals' \in Seq(ArrivalMsg)
         /\ DescendTrail(t) => /\ rides_completed' \in [Tourists -> Nat]
                               /\ total_rides' \in Nat
<1>1. SendRequest(t) => mq_platform' \in [1..2 -> Seq(Tourists)]
  BY DEF TypeOK, SendRequest
<1>2. ASSUME Board(t)
      PROVE  /\ seat' \in [Tourists -> Seat]
             /\ mq_boarding' \in [Tourists -> Seq(Seat)]
  <2>1. seat \in [Tourists -> Seat] /\ mq_boarding \in [Tourists -> Seq(Seat)]
    BY DEF TypeOK
  <2>2. Head(mq_boarding[t]) \in Seat /\ Tail(mq_boarding[t]) \in Seq(Seat)
    BY <1>2, <2>1 DEF Board
  <2>3. QED
    BY <1>2, <2>1, <2>2 DEF Board
<1>3. ASSUME ArriveUpper(t)
      PROVE  /\ seat' \in [Tourists -> Seat]
             /\ mq_arrivals' \in Seq(ArrivalMsg)
  <2>1. seat \in [Tourists -> Seat] /\ mq_arrivals \in Seq(ArrivalMsg)
    BY DEF TypeOK
  <2>2. /\ NoSeat \in Seat
        /\ [tourist |-> t, chair |-> seat[t].chair, n |-> seat[t].n] \in ArrivalMsg
    BY <2>1, SizesAssumption DEF Seat, NoSeat, ArrivalMsg
  <2>3. QED
    BY <1>3, <2>1, <2>2 DEF ArriveUpper
<1>4. ASSUME DescendTrail(t)
      PROVE  rides_completed' \in [Tourists -> Nat] /\ total_rides' \in Nat
  <2>1. /\ rides_completed \in [Tourists -> Nat]
        /\ total_rides \in Nat
        /\ KidCount[t] \in 0..2
    BY TouristsAssumption DEF TypeOK
  <2>2. QED
    BY <1>4, <2>1 DEF DescendTrail
<1>5. QED
  BY <1>1, <1>2, <1>3, <1>4

\* A tourist's step keeps every variable in its type.
LEMMA TouristType ==
  ASSUME TypeOK, NEW t \in Tourists, TouristStep(t)
  PROVE  TypeOK'
<1>1. StationSlots(t) \in Nat
  BY SlotsType
<1>2. ASSUME CountIn(t) \/ CountOut(t)
      PROVE  lower_station_count' \in Int
  BY <1>1, <1>2 DEF TypeOK, CountIn, CountOut
<1>3. ASSUME CountIn(t)
      PROVE  sem' \in [Semaphores -> Nat]
  BY <1>3, SemPostType DEF TypeOK, CountIn, Semaphores
<1>4. ASSUME CountIn(t) \/ CountOut(t)
      PROVE  tpc' \in [Tourists -> TouristPCs]
  BY <1>4 DEF TypeOK, CountIn, CountOut, Move, TouristPCs
<1>5. WaitEmergency(t) => emergency_waiters' \in Nat
  BY DEF TypeOK, WaitEmergency
<1> USE <1>1, <1>2, <1>3, <1>4, <1>5, SemWaitType, SemPostType, TouristData
    DEF TypeOK, ipcVars, queueVars, flagVars, statVars, touristRest, workerVars,
        lowerVars, upperVars, Move, Semaphores, TouristPCs
<1>6. CASE StartRide(t)
  BY <1>6 DEF StartRide
<1>7. CASE LeaveForGood(t)
  BY <1>7 DEF LeaveForGood
<1>8. CASE EnterGate(t)
  BY <1>8 DEF EnterGate
<1>9. CASE EnterStation(t)
  BY <1>9 DEF EnterStation
<1>10. CASE CountIn(t)
  BY <1>10 DEF CountIn
<1>11. CASE EnterPlatform(t)
  BY <1>11 DEF EnterPlatform
<1>12. CASE CountOut(t)
  BY <1>12 DEF CountOut
<1>13. CASE LeaveStation(t)
  BY <1>13 DEF LeaveStation
<1>14. CASE ReadEmergency(t)
  BY <1>14 DEF ReadEmergency
<1>15. CASE WaitEmergency(t)
  BY <1>15 DEF WaitEmergency
<1>16. CASE EmergencyCleared(t)
  BY <1>16 DEF EmergencyCleared
<1>17. CASE SendRequest(t)
  BY <1>17 DEF SendRequest
<1>18. CASE Board(t)
  BY <1>18 DEF Board
<1>19. CASE EnterExitGate(t)
  BY <1>19 DEF EnterExitGate
<1>20. CASE ArriveUpper(t)
  BY <1>20 DEF ArriveUpper
<1>21. CASE DescendTrail(t)
  BY <1>21 DEF DescendTrail
<1>22. QED
  BY <1>6, <1>7, <1>8, <1>9, <1>10, <1>11, <1>12, <1>13, <1>14, <1>15, <1>16, <1>17,
     <1>18, <1>19, <1>20, <1>21
     DEF TouristStep

\* Signals leave a worker somewhere in its program.
LEMMA KillType ==
  ASSUME TypeOK, NEW w \in Workers, NEW from, NEW next \in WorkerPCs,
         Kill(w, from, next)
  PROVE  wpc' \in [Workers -> WorkerPCs]
<1>1. wpc \in [Workers -> WorkerPCs] /\ Other(w) \in Workers
  BY DEF TypeOK, Other, Workers
<1>2. AfterSignal(Other(w)) \subseteq WorkerPCs
  BY <1>1 DEF AfterSignal, WorkerPCs, LoopPCs
<1>3. QED
  BY <1>1, <1>2 DEF Kill

\* The handshake messages have their types.
LEMMA HandshakeData ==
  ASSUME TypeOK, NEW w \in Workers, AckReply(w) \/ ResumeSend(w) \/ ResumeReceive(w)
  PROVE  mq_worker' \in [Workers -> Seq(WorkerMsg)]
<1>1. /\ mq_worker \in [Workers -> Seq(WorkerMsg)]
      /\ Other(w) \in Workers /\ Other(w) # w
      /\ {"READY_TO_RESUME", "I_AM_READY"} \subseteq WorkerMsg
  BY DEF TypeOK, Other, Workers, WorkerMsg
<1>2. CASE AckReply(w)
  <2>1. /\ Tail(mq_worker[w]) \in Seq(WorkerMsg)
        /\ Append(mq_worker[Other(w)], "I_AM_READY") \in Seq(WorkerMsg)
    BY <1>1, <1>2 DEF AckReply
  <2>2. mq_worker' = [v \in Workers |->
                        IF v = w THEN Tail(mq_worker[w])
                        ELSE Append(mq_worker[Other(w)], "I_AM_READY")]
    BY <1>1, <1>2 DEF AckReply, Workers, Other
  <2>3. QED
    BY <2>1, <2>2
<1>3. CASE ResumeSend(w)
  BY <1>1, <1>3 DEF ResumeSend
<1>4. CASE ResumeReceive(w)
  BY <1>1, <1>4 DEF ResumeReceive
<1>5. QED
  BY <1>2, <1>3, <1>4

\* A step of the emergency protocol keeps every variable in its type.
LEMMA EmergencyType ==
  ASSUME TypeOK, NEW w \in Workers, EmergencyStep(w) \/ DurationPasses(w)
  PROVE  TypeOK'
<1>1. DetectDanger(w) => /\ dangers' \in 0..MaxDangers
                         /\ wpc' \in [Workers -> WorkerPCs]
                         /\ sem' \in [Semaphores -> Nat]
                         /\ is_initiator' \in [Workers -> BOOLEAN]
  <2>1. DetectDanger(w) => dangers' \in 0..MaxDangers
    BY SizesAssumption DEF TypeOK, DetectDanger
  <2>2. DetectDanger(w) => wpc' \in [Workers -> WorkerPCs]
    BY DEF TypeOK, DetectDanger, Goto, WorkerPCs, ProtocolPCs
  <2>3. DetectDanger(w) => sem' \in [Semaphores -> Nat]
    BY SemWaitType DEF TypeOK, DetectDanger, Semaphores
  <2>4. DetectDanger(w) => is_initiator' \in [Workers -> BOOLEAN]
    BY DEF TypeOK, DetectDanger
  <2>5. QED
    BY <2>1, <2>2, <2>3, <2>4
<1>2. TriggerKill(w) \/ ResumeKill(w) => wpc' \in [Workers -> WorkerPCs]
  BY KillType DEF TriggerKill, ResumeKill, WorkerPCs, LoopPCs, ProtocolPCs
<1>3. TriggerKill(w) => emergency_signal' \in [Workers -> BOOLEAN]
  BY DEF TypeOK, TriggerKill
<1>4. DetectDanger(w) \/ DurationPasses(w) => recent_danger' \in [Workers -> BOOLEAN]
  BY DEF TypeOK, DetectDanger, DurationPasses
<1> USE <1>1, <1>2, <1>3, <1>4, SemPostType, HandshakeData
    DEF TypeOK, ipcVars, queueVars, flagVars, statVars, touristVars, handshakeVars,
        lowerVars, upperVars, workerRest, Goto, Semaphores, WorkerPCs, LoopPCs,
        ProtocolPCs
<1>5. CASE NoDanger(w)
  BY <1>5 DEF NoDanger
<1>6. CASE DetectDanger(w)
  BY <1>6 DEF DetectDanger
<1>7. CASE TriggerSetFlag(w)
  BY <1>7 DEF TriggerSetFlag
<1>8. CASE TriggerKill(w)
  BY <1>8 DEF TriggerKill
<1>9. CASE TriggerAbort(w)
  BY <1>9 DEF TriggerAbort
<1>10. CASE SignalSeen(w)
  BY <1>10 DEF SignalSeen
<1>11. CASE AckSetFlag(w)
  BY <1>11 DEF AckSetFlag
<1>12. CASE AckReply(w)
  BY <1>12 DEF AckReply
<1>13. CASE AckClearFlag(w)
  BY <1>13 DEF AckClearFlag
<1>14. CASE ResumeSend(w)
  BY <1>14 DEF ResumeSend
<1>15. CASE ResumeReceive(w)
  BY <1>15 DEF ResumeReceive
<1>16. CASE ResumeKill(w)
  BY <1>16 DEF ResumeKill
<1>17. CASE ResumeClearFlag(w)
  BY <1>17 DEF ResumeClearFlag
<1>18. CASE ReleaseWaiters(w)
  BY <1>18 DEF ReleaseWaiters
<1>19. CASE ResumeUnlock(w)
  BY <1>19 DEF ResumeUnlock
<1>20. CASE DurationPasses(w)
  BY <1>20 DEF DurationPasses
<1>21. QED
  BY <1>5, <1>6, <1>7, <1>8, <1>9, <1>10, <1>11, <1>12, <1>13, <1>14, <1>15, <1>16,
     <1>17, <1>18, <1>19, <1>20
     DEF EmergencyStep

\* The lower worker's own variables and messages keep their types.  A request is
\* in hand whenever the emergency flag is looked at again.
LEMMA LowerData ==
  ASSUME TypeOK
  PROVE  /\ LowerReceive => /\ cur' \in Tourists
                            /\ mq_platform' \in [1..2 -> Seq(Tourists)]
         /\ cur \in Tourists /\ Requeue => mq_platform' \in [1..2 -> Seq(Tourists)]
         /\ cur \in Tourists /\ LowerPlace => /\ pending' \in Seq(Tourists)
                                              /\ chair_slots_used' \in Nat
         /\ DispatchChair => /\ mq_boarding' \in [Tourists -> Seq(Seat)]
                             /\ sem' \in [Semaphores -> Nat]
         /\ NextChair(chair_number) \in Chairs
<1>1. ASSUME LowerReceive
      PROVE  cur' \in Tourists /\ mq_platform' \in [1..2 -> Seq(Tourists)]
  <2>1. /\ mq_platform \in [1..2 -> Seq(Tourists)]
        /\ FirstType \in 1..2 /\ mq_platform[FirstType] # <<>>
    BY <1>1 DEF TypeOK, LowerReceive, FirstType, PlatformEmpty
  <2>2. /\ Head(mq_platform[FirstType]) \in Tourists
        /\ Tail(mq_platform[FirstType]) \in Seq(Tourists)
    BY <2>1
  <2>3. QED
    BY <1>1, <2>1, <2>2 DEF LowerReceive
<1>2. cur \in Tourists /\ Requeue => mq_platform' \in [1..2 -> Seq(Tourists)]
  BY DEF TypeOK, Requeue
<1>3. ASSUME cur \in Tourists, LowerPlace
      PROVE  pending' \in Seq(Tourists) /\ chair_slots_used' \in Nat
  <2>1. pending \in Seq(Tourists) /\ chair_slots_used \in Nat
    BY DEF TypeOK
  <2>2. ChairSlots(cur) \in 1..4
    BY <1>3, SlotsType
  <2>3. QED
    BY <1>3, <2>1, <2>2 DEF LowerPlace
<1>4. ASSUME DispatchChair
      PROVE  mq_boarding' \in [Tourists -> Seq(Seat)] /\ sem' \in [Semaphores -> Nat]
  <2>1. mq_boarding \in [Tourists -> Seq(Seat)]
    BY DEF TypeOK
  <2>2. [chair |-> chair_number, n |-> Len(pending)] \in Seat
    BY SizesAssumption DEF TypeOK, Seat, Chairs
  <2>3. mq_boarding' \in [Tourists -> Seq(Seat)]
    BY <1>4, <2>1, <2>2 DEF DispatchChair
  <2>4. sem' \in [Semaphores -> Nat]
    BY <1>4, SemWaitType DEF TypeOK, DispatchChair, Semaphores
  <2>5. QED
    BY <2>3, <2>4
<1>5. NextChair(chair_number) \in Chairs
  BY SizesAssumption DEF TypeOK, NextChair, Chairs
<1>6. QED
  BY <1>1, <1>2, <1>3, <1>4, <1>5

\* The lower worker has a request in hand while it decides what to do with it.
CurInHand == wpc["lower"] = "recheck" => cur \in Tourists

\* A step of the lower worker keeps every variable in its type.
LEMMA LowerType ==
  ASSUME TypeOK, CurInHand, LowerStep
  PROVE  TypeOK'
<1>1. ASSUME LowerDispatch
      PROVE  /\ mq_platform' \in [1..2 -> Seq(Tourists)]
             /\ mq_boarding' \in [Tourists -> Seq(Seat)]
             /\ sem' \in [Semaphores -> Nat]
             /\ pending' \in Seq(Tourists)
  <2>1. mq_platform' \in [1..2 -> Seq(Tourists)]
    BY <1>1, LowerData DEF TypeOK, LowerDispatch
  <2>2. mq_boarding' \in [Tourists -> Seq(Seat)] /\ sem' \in [Semaphores -> Nat]
    BY <1>1, LowerData DEF TypeOK, LowerDispatch
  <2>3. pending' \in Seq(Tourists)
    BY <1>1 DEF LowerDispatch
  <2>4. QED
    BY <2>1, <2>2, <2>3
<1>2. LowerPlace => /\ pending' \in Seq(Tourists)
                    /\ chair_slots_used' \in Nat
  BY LowerData DEF CurInHand, LowerPlace
<1>3. LowerBounce => mq_platform' \in [1..2 -> Seq(Tourists)]
  BY LowerData DEF CurInHand, LowerBounce
<1>4. "lower" \in Workers
  BY DEF Workers
<1> USE <1>1, <1>2, <1>3, <1>4, LowerData
    DEF TypeOK, ipcVars, flagVars, statVars, touristVars, handshakeVars, lowerVars,
        upperVars, lowerRest, Goto, WorkerPCs, LoopPCs, ProtocolPCs
<1>5. CASE LowerCheckFlag
  BY <1>5 DEF LowerCheckFlag
<1>6. CASE LowerReceive
  BY <1>6 DEF LowerReceive
<1>7. CASE LowerTimeout
  BY <1>7 DEF LowerTimeout
<1>8. CASE LowerBounce
  BY <1>8 DEF LowerBounce
<1>9. CASE LowerPlace
  BY <1>9 DEF LowerPlace
<1>10. CASE LowerNoFit
  BY <1>10 DEF LowerNoFit
<1>11. CASE LowerDrop
  BY <1>11 DEF LowerDrop
<1>12. CASE LowerDispatch
  BY <1>12 DEF LowerDispatch
<1>13. CASE EmergencyStep("lower")
  BY <1>13, EmergencyType
<1>14. QED
  BY <1>5, <1>6, <1>7, <1>8, <1>9, <1>10, <1>11, <1>12, <1>13 DEF LowerStep

\* A step of the upper worker keeps every variable in its type.
LEMMA UpperType ==
  ASSUME TypeOK, UpperStep
  PROVE  TypeOK'
<1>1. ASSUME UpperReceive
      PROVE  /\ mq_arrivals' \in Seq(ArrivalMsg)
             /\ sem' \in [Semaphores -> Nat]
             /\ expected' \in [Chairs -> Nat] /\ arrived' \in [Chairs -> Nat]
             /\ wpc' \in [Workers -> WorkerPCs]
  <2> DEFINE c == Head(mq_arrivals).chair
             n == Head(mq_arrivals).n
  <2>1. /\ mq_arrivals \in Seq(ArrivalMsg) /\ mq_arrivals # <<>>
        /\ expected \in [Chairs -> Nat] /\ arrived \in [Chairs -> Nat]
        /\ sem \in [Semaphores -> Nat] /\ "chairs" \in Semaphores
    BY <1>1 DEF TypeOK, UpperReceive, Semaphores
  <2>2. Head(mq_arrivals) \in ArrivalMsg /\ mq_arrivals' \in Seq(ArrivalMsg)
    BY <1>1, <2>1 DEF UpperReceive
  <2>3. n \in Nat
    BY <2>2 DEF ArrivalMsg
  <2>4. TrackArrival(c, n)
    BY <1>1 DEF UpperReceive
  <2>5. sem' \in [Semaphores -> Nat]
    BY <2>1, <2>4, SemPostType DEF TrackArrival
  <2>6. expected' \in [Chairs -> Nat]
    BY <2>1, <2>3, <2>4 DEF TrackArrival, Tracked
  <2>7. arrived' \in [Chairs -> Nat]
    BY <2>1, <2>4 DEF TrackArrival, Tracked
  <2>8. wpc' \in [Workers -> WorkerPCs]
    BY <1>1 DEF TypeOK, UpperReceive, Goto, WorkerPCs, LoopPCs, ProtocolPCs
  <2>9. QED
    BY <2>2, <2>5, <2>6, <2>7, <2>8
<1> USE <1>1
    DEF TypeOK, ipcVars, flagVars, statVars, touristVars, handshakeVars, lowerVars,
        upperVars, upperRest, Goto, WorkerPCs, LoopPCs, ProtocolPCs
<1>2. CASE UpperWait
  BY <1>2 DEF UpperWait
<1>3. CASE UpperSleep
  BY <1>3 DEF UpperSleep
<1>4. CASE UpperReceive
  BY <1>4 DEF UpperReceive
<1>5. CASE EmergencyStep("upper")
  BY <1>5, EmergencyType DEF Workers
<1>6. QED
  BY <1>2, <1>3, <1>4, <1>5 DEF UpperStep

\* A job-control pause keeps every variable in its type.
LEMMA PauseType ==
  ASSUME TypeOK, Pause
  PROVE  TypeOK'
<1>1. pauses' \in 0..MaxPauses
  BY SizesAssumption DEF TypeOK, Pause
<1>2. tpc' \in [Tourists -> TouristPCs]
  BY DEF TypeOK, Pause, TouristPCs
<1>3. wpc' \in [Workers -> WorkerPCs]
  <2>1. \A w \in Workers : AfterPause(w) \subseteq WorkerPCs
    BY DEF TypeOK, AfterPause, WorkerPCs, LoopPCs, ProtocolPCs
  <2>2. QED
    BY <2>1 DEF Pause, Workers
<1>4. QED
  BY <1>1, <1>2, <1>3
  DEF TypeOK, Pause, ipcVars, flagVars, statVars, handshakeVars, lowerVars, upperVars

\* Every step of the system keeps every variable in its type.
LEMMA NextType ==
  ASSUME TypeOK, CurInHand, [Next]_vars
  PROVE  TypeOK'
<1>1. CASE \E t \in Tourists : TouristStep(t)
  BY <1>1, TouristType
<1>2. CASE LowerStep
  BY <1>2, LowerType
<1>3. CASE UpperStep
  BY <1>3, UpperType
<1>4. CASE \E w \in Workers : DurationPasses(w)
  BY <1>4, EmergencyType
<1>5. CASE CloseStation
  BY <1>5 DEF TypeOK, CloseStation, ipcVars, flagVars, touristVars, workerVars,
              lowerVars, upperVars
<1>6. CASE Pause
  BY <1>6, PauseType
<1>7. CASE UNCHANGED vars
  BY <1>7 DEF TypeOK, vars, ipcVars, flagVars, statVars, touristVars, workerVars,
              lowerVars, upperVars
<1>8. QED
  BY <1>1, <1>2, <1>3, <1>4, <1>5, <1>6, <1>7 DEF Next

\* Only LowerReceive brings the lower worker there, and it brings a request.
LEMMA CurInHandStep ==
  ASSUME TypeOK, CurInHand, [Next]_vars
  PROVE  CurInHand'
<1> SUFFICES ASSUME wpc'["lower"] = "recheck"
             PROVE  cur' \in Tourists
  BY DEF CurInHand
<1>1. wpc \in [Workers -> WorkerPCs] /\ "lower" \in Workers /\ "upper" \in Workers
  BY DEF TypeOK, Workers
<1>2. CASE LowerReceive
  BY <1>2, LowerData
<1>3. ASSUME UNCHANGED cur, wpc["lower"] = "recheck"
      PROVE  cur' \in Tourists
  BY <1>3 DEF CurInHand
<1>4. CASE \E t \in Tourists : TouristStep(t)
  BY <1>3, <1>4 DEF TouristStep, StartRide, LeaveForGood, EnterGate, EnterStation,
     CountIn, EnterPlatform, CountOut, LeaveStation, ReadEmergency, WaitEmergency,
     EmergencyCleared, SendRequest, Board, EnterExitGate, ArriveUpper, DescendTrail,
     touristRest, workerVars, lowerVars
<1>5. ASSUME NEW w \in Workers, EmergencyStep(w)
      PROVE  UNCHANGED cur /\ wpc["lower"] = "recheck"
  <2>1. UNCHANGED cur
    BY <1>5 DEF EmergencyStep, NoDanger, DetectDanger, TriggerSetFlag, TriggerKill,
       TriggerAbort, SignalSeen, AckSetFlag, AckReply, AckClearFlag, ResumeSend,
       ResumeReceive, ResumeKill, ResumeClearFlag, ReleaseWaiters, ResumeUnlock,
       workerRest, lowerVars
  <2>2. ASSUME NEW from \in WorkerPCs, NEW next \in {"top", "res_clear"}, Kill(w, from, next)
        PROVE  wpc["lower"] = "recheck"
    <3>1. Other(w) \in Workers /\ (w = "lower" \/ Other(w) = "lower")
      BY DEF Other, Workers
    <3>2. PICK after \in AfterSignal(Other(w)) :
            wpc' = [wpc EXCEPT ![w] = next, ![Other(w)] = after]
      BY <2>2 DEF Kill
    <3>3. Other(w) = "lower" /\ after = "recheck"
      BY <1>1, <3>1, <3>2 DEF Other
    <3>4. QED
      BY <3>2, <3>3 DEF AfterSignal
  <2>3. TriggerKill(w) \/ ResumeKill(w) => wpc["lower"] = "recheck"
    BY <2>2 DEF TriggerKill, ResumeKill, WorkerPCs, ProtocolPCs
  <2>4. CASE ~(TriggerKill(w) \/ ResumeKill(w))
    BY <1>1, <1>5, <2>1, <2>4 DEF EmergencyStep, NoDanger, DetectDanger, TriggerSetFlag,
       TriggerAbort, SignalSeen, AckSetFlag, AckReply, AckClearFlag, ResumeSend,
       ResumeReceive, ResumeClearFlag, ReleaseWaiters, ResumeUnlock, Goto
  <2>5. QED
    BY <2>1, <2>3, <2>4
<1>6. CASE LowerStep /\ ~LowerReceive
  <2>1. CASE EmergencyStep("lower")
    BY <1>1, <1>3, <1>5, <2>1
  <2>2. CASE ~EmergencyStep("lower")
    BY <1>1, <1>6, <2>2 DEF LowerStep, LowerCheckFlag, LowerTimeout, LowerBounce,
       LowerPlace, LowerNoFit, LowerDrop, LowerDispatch, Goto
  <2>3. QED
    BY <2>1, <2>2
<1>7. CASE UpperStep
  <2>1. CASE EmergencyStep("upper")
    BY <1>1, <1>3, <1>5, <2>1
  <2>2. CASE ~EmergencyStep("upper")
    BY <1>1, <1>3, <1>7, <2>2 DEF UpperStep, UpperWait, UpperSleep, UpperReceive, Goto,
       upperRest, lowerVars
  <2>3. QED
    BY <2>1, <2>2
<1>8. CASE Pause
  BY <1>1, <1>3, <1>8 DEF Pause, AfterPause, Workers, lowerVars
<1>9. CASE (\E w \in Workers : DurationPasses(w)) \/ CloseStation \/ UNCHANGED vars
  BY <1>3, <1>9 DEF DurationPasses, CloseStation, vars, workerRest, workerVars, lowerVars
<1>10. QED
  BY <1>2, <1>4, <1>6, <1>7, <1>8, <1>9 DEF Next

\* Initially every variable has its type.
LEMMA InitType == Init => TypeOK /\ CurInHand
<1> SUFFICES ASSUME Init
             PROVE  TypeOK /\ CurInHand
  OBVIOUS
<1> USE SizesAssumption DEF Init, TouristInit, WorkerInit, LowerInit, UpperInit
<1>1. sem \in [Semaphores -> Nat]
  BY DEF SemInit, Semaphores
<1>2. /\ mq_platform \in [1..2 -> Seq(Tourists)]
      /\ mq_boarding \in [Tourists -> Seq(Seat)]
      /\ mq_arrivals \in Seq(ArrivalMsg)
      /\ mq_worker \in [Workers -> Seq(WorkerMsg)]
      /\ pending \in Seq(Tourists)
  OBVIOUS
<1>3. /\ emergency_waiters \in Nat /\ lower_station_count \in Int /\ total_rides \in Nat
      /\ rides_completed \in [Tourists -> Nat]
      /\ tpc \in [Tourists -> TouristPCs]
      /\ wpc \in [Workers -> WorkerPCs]
  BY DEF TouristPCs, WorkerPCs, LoopPCs
<1>4. seat \in [Tourists -> Seat]
  BY DEF Seat, NoSeat
<1>5. /\ emergency_stop \in BOOLEAN /\ closing \in BOOLEAN
      /\ is_initiator \in [Workers -> BOOLEAN]
      /\ emergency_signal \in [Workers -> BOOLEAN]
      /\ recent_danger \in [Workers -> BOOLEAN]
      /\ cur \in Tourists \cup {NoTourist}
  OBVIOUS
<1>6. /\ chair_slots_used \in Nat /\ chair_number \in Chairs
      /\ expected \in [Chairs -> Nat] /\ arrived \in [Chairs -> Nat]
      /\ dangers \in 0..MaxDangers /\ pauses \in 0..MaxPauses
  BY DEF Chairs
<1>7. CurInHand
  BY DEF CurInHand, Workers
<1>8. QED
  BY <1>1, <1>2, <1>3, <1>4, <1>5, <1>6, <1>7 DEF TypeOK

\* Type correctness of the whole system, and the fact it rests on: the lower
\* worker has a tourist in hand whenever it decides about one (lower_worker.c).
THEOREM TypeCorrect == Spec => [](TypeOK /\ CurInHand)
<1>1. Init => TypeOK /\ CurInHand
  BY InitType
<1>2. TypeOK /\ CurInHand /\ [Next]_vars => (TypeOK /\ CurInHand)'
  BY NextType, CurInHandStep
<1>3. QED
  BY <1>1, <1>2, PTL DEF Spec
-----------------------------------------------------------------------------
(* The emergency protocol *)

\* Where only the worker that took SEM_EMERGENCY_LOCK can be.
InitiatorPCs == {"trig_set", "trig_kill", "res_wait", "res_kill", "res_clear",
                 "res_release", "res_unlock"}

\* Without pauses the lock has one permit, the lock is never given back by an
\* aborted trigger, and a worker inside the initiator's code is the initiator.
LockInv ==
  pauses = 0 =>
    /\ sem["lock"] \in {0, 1}
    /\ \A w \in Workers :
         /\ wpc[w] # "trig_abort"
         /\ wpc[w] \in InitiatorPCs => is_initiator[w]
         /\ is_initiator[w] => sem["lock"] = 0 /\ ~is_initiator[Other(w)]

\* Either the request is under way or the answer, and only while the initiator
\* waits.
HandInv ==
  pauses = 0 =>
    /\ \A w \in Workers : wpc[w] = "res_wait" =>
         \/ /\ mq_worker[w] = <<>>
            /\ mq_worker[Other(w)] = <<"READY_TO_RESUME">>
         \/ /\ mq_worker[w] = <<"I_AM_READY">>
            /\ mq_worker[Other(w)] = <<>>
    /\ (\A w \in Workers : wpc[w] # "res_wait") => \A w \in Workers : mq_worker[w] = <<>>

\* What a step outside the protocol leaves alone: a worker moves only inside its
\* main loop, or from there to the receiver's role.
Quiet ==
  /\ UNCHANGED <<is_initiator, mq_worker, pauses>>
  /\ sem'["lock"] = sem["lock"]
  /\ \A w \in Workers : \/ wpc'[w] = wpc[w]
                        \/ wpc[w] \in LoopPCs /\ wpc'[w] \in LoopPCs \cup {"ack_set"}

\* A semop on another semaphore does not touch SEM_EMERGENCY_LOCK.
LEMMA LockFrame ==
  ASSUME TypeOK, NEW s \in Semaphores \ {"lock"}, NEW n, SemWait(s, n) \/ SemPost(s, n)
  PROVE  sem'["lock"] = sem["lock"]
BY DEF TypeOK, SemWait, SemPost, Semaphores

\* Tourists do not take part in the protocol.
LEMMA TouristQuiet ==
  ASSUME TypeOK, NEW t \in Tourists, TouristStep(t)
  PROVE  Quiet
<1>1. UNCHANGED <<wpc, is_initiator, pauses>>
  BY DEF TouristStep, StartRide, LeaveForGood, EnterGate, EnterStation,
     CountIn, EnterPlatform, CountOut, LeaveStation, ReadEmergency, WaitEmergency,
     EmergencyCleared, SendRequest, Board, EnterExitGate, ArriveUpper, DescendTrail,
     touristRest, workerVars
<1>2. UNCHANGED mq_worker
  BY DEF TouristStep, StartRide, LeaveForGood, EnterGate, EnterStation,
     CountIn, EnterPlatform, CountOut, LeaveStation, ReadEmergency, WaitEmergency,
     EmergencyCleared, SendRequest, Board, EnterExitGate, ArriveUpper, DescendTrail,
     ipcVars, queueVars
<1>3. sem'["lock"] = sem["lock"]
  BY LockFrame DEF TouristStep, StartRide, LeaveForGood, EnterGate, EnterStation,
     CountIn, EnterPlatform, CountOut, LeaveStation, ReadEmergency, WaitEmergency,
     EmergencyCleared, SendRequest, Board, EnterExitGate, ArriveUpper, DescendTrail,
     ipcVars, Semaphores
<1>4. QED
  BY <1>1, <1>2, <1>3 DEF Quiet

\* Neither do the lower worker's steps outside EmergencyStep ...
LEMMA LowerQuiet ==
  ASSUME TypeOK, LowerStep, ~EmergencyStep("lower")
  PROVE  Quiet
<1>1. UNCHANGED <<is_initiator, mq_worker, pauses>>
  BY DEF LowerStep, LowerCheckFlag, LowerReceive, LowerTimeout, LowerBounce, LowerPlace,
     LowerNoFit, LowerDrop, LowerDispatch, lowerRest, handshakeVars, ipcVars
<1>2. sem'["lock"] = sem["lock"]
  <2>1. DispatchChair => sem'["lock"] = sem["lock"]
    BY LockFrame DEF DispatchChair, Semaphores
  <2>2. QED
    BY <2>1 DEF LowerStep, LowerCheckFlag, LowerReceive, LowerTimeout, LowerBounce,
       LowerPlace, LowerNoFit, LowerDrop, LowerDispatch, ipcVars
<1>3. PICK from \in LoopPCs, to \in LoopPCs \cup {"ack_set"} : Goto("lower", from, to)
  BY DEF LowerStep, LowerCheckFlag, LowerReceive, LowerTimeout, LowerBounce, LowerPlace,
     LowerNoFit, LowerDrop, LowerDispatch, LoopPCs
<1>4. QED
  BY <1>1, <1>2, <1>3 DEF Quiet, Goto, TypeOK

\* ... and the upper worker's.
LEMMA UpperQuiet ==
  ASSUME TypeOK, UpperStep, ~EmergencyStep("upper")
  PROVE  Quiet
<1>1. UNCHANGED <<is_initiator, mq_worker, pauses>>
  BY DEF UpperStep, UpperWait, UpperSleep, UpperReceive, upperRest, handshakeVars, ipcVars
<1>2. sem'["lock"] = sem["lock"]
  BY LockFrame DEF UpperStep, UpperWait, UpperSleep, UpperReceive, TrackArrival, ipcVars,
     Semaphores
<1>3. PICK from \in LoopPCs, to \in LoopPCs : Goto("upper", from, to)
  BY DEF UpperStep, UpperWait, UpperSleep, UpperReceive, LoopPCs
<1>4. QED
  BY <1>1, <1>2, <1>3 DEF Quiet, Goto, TypeOK

\* The passing of time, the closing of the station and stuttering are quiet too.
LEMMA OtherQuiet ==
  ASSUME \/ \E w \in Workers : DurationPasses(w)
         \/ CloseStation
         \/ UNCHANGED vars
  PROVE  Quiet
BY DEF Quiet, DurationPasses, CloseStation, vars, ipcVars, workerVars, workerRest

\* A quiet step preserves both invariants.
LEMMA QuietInv ==
  ASSUME TypeOK, LockInv, HandInv, Quiet
  PROVE  LockInv' /\ HandInv'
<1> SUFFICES ASSUME pauses = 0
             PROVE  LockInv' /\ HandInv'
  BY DEF LockInv, HandInv, Quiet
<1>1. /\ is_initiator' = is_initiator /\ mq_worker' = mq_worker
      /\ sem'["lock"] = sem["lock"]
  BY DEF Quiet
<1>2. ASSUME NEW w \in Workers
      PROVE  \/ wpc'[w] = wpc[w]
             \/ wpc'[w] \notin InitiatorPCs \cup {"trig_abort"} /\ wpc[w] # "res_wait"
  BY DEF Quiet, LoopPCs, InitiatorPCs
<1>3. LockInv'
  BY <1>1, <1>2 DEF LockInv
<1>4. \A w \in Workers : wpc'[w] = "res_wait" <=> wpc[w] = "res_wait"
  BY <1>2 DEF InitiatorPCs
<1>5. HandInv'
  BY <1>1, <1>4 DEF HandInv
<1>6. QED
  BY <1>3, <1>5

\* A signal moves its sender to next; the other worker stays where it is or moves
\* inside its main loop.
LEMMA KillFrame ==
  ASSUME TypeOK, NEW w \in Workers, NEW from, NEW next, Kill(w, from, next)
  PROVE  /\ wpc[w] = from /\ wpc'[w] = next
         /\ \/ wpc'[Other(w)] = wpc[Other(w)]
            \/ wpc[Other(w)] \in LoopPCs /\ wpc'[Other(w)] \in LoopPCs
<1>1. Other(w) \in Workers /\ Other(w) # w /\ wpc \in [Workers -> WorkerPCs]
  BY DEF TypeOK, Other, Workers
<1>2. PICK after \in AfterSignal(Other(w)) :
        wpc' = [wpc EXCEPT ![w] = next, ![Other(w)] = after]
  BY DEF Kill
<1>3. after = wpc[Other(w)] \/ (wpc[Other(w)] \in LoopPCs /\ after \in LoopPCs)
  BY <1>2 DEF AfterSignal, LoopPCs
<1>4. QED
  BY <1>1, <1>2, <1>3 DEF Kill

\* A protocol step preserves the lock invariant: only DetectDanger makes a worker
\* the initiator, and it takes the lock's permit; only ResumeUnlock gives it back.
LEMMA EmergencyLock ==
  ASSUME TypeOK, LockInv, NEW w \in Workers, EmergencyStep(w)
  PROVE  LockInv'
<1> DEFINE u == Other(w)
<1>1. /\ u \in Workers /\ u # w /\ Other(u) = w
      /\ \A v \in Workers : v = w \/ v = u
  BY DEF Other, Workers
<1>2. /\ wpc \in [Workers -> WorkerPCs] /\ is_initiator \in [Workers -> BOOLEAN]
      /\ sem \in [Semaphores -> Nat] /\ "lock" \in Semaphores
  BY DEF TypeOK, Semaphores
<1>3. UNCHANGED pauses
  BY DEF EmergencyStep, NoDanger, DetectDanger, TriggerSetFlag, TriggerKill,
       TriggerAbort, SignalSeen, AckSetFlag, AckReply, AckClearFlag, ResumeSend,
       ResumeReceive, ResumeKill, ResumeClearFlag, ReleaseWaiters, ResumeUnlock,
       workerRest
<1> SUFFICES ASSUME pauses = 0
             PROVE  LockInv'
  BY <1>3 DEF LockInv
<1>4. /\ sem["lock"] \in {0, 1}
      /\ wpc[w] # "trig_abort" /\ wpc[u] # "trig_abort"
      /\ wpc[w] \in InitiatorPCs => is_initiator[w]
      /\ wpc[u] \in InitiatorPCs => is_initiator[u]
      /\ is_initiator[w] => sem["lock"] = 0 /\ ~is_initiator[u]
      /\ is_initiator[u] => sem["lock"] = 0 /\ ~is_initiator[w]
  BY <1>1 DEF LockInv
<1> SUFFICES
      /\ sem'["lock"] \in {0, 1}
      /\ wpc'[w] # "trig_abort" /\ wpc'[u] # "trig_abort"
      /\ wpc'[w] \in InitiatorPCs => is_initiator'[w]
      /\ wpc'[u] \in InitiatorPCs => is_initiator'[u]
      /\ is_initiator'[w] => sem'["lock"] = 0 /\ ~is_initiator'[u]
      /\ is_initiator'[u] => sem'["lock"] = 0 /\ ~is_initiator'[w]
  <2> HIDE DEF u
  <2> QED
    BY <1>1 DEF LockInv, u
<1> HIDE DEF u
<1>5. CASE DetectDanger(w)
  <2>1. CASE /\ Goto(w, "danger", "trig_set")
             /\ SemWait("lock", 1)
             /\ is_initiator' = [is_initiator EXCEPT ![w] = TRUE]
    BY <1>1, <1>2, <1>4, <2>1 DEF Goto, SemWait
  <2>2. CASE /\ sem["lock"] = 0
             /\ Goto(w, "danger", "ack_set")
             /\ UNCHANGED <<sem, is_initiator>>
    BY <1>1, <1>2, <1>4, <2>2 DEF Goto, InitiatorPCs
  <2>3. QED
    BY <1>5, <2>1, <2>2 DEF DetectDanger
<1>6. CASE TriggerKill(w) \/ ResumeKill(w)
  <2>1. /\ is_initiator' = is_initiator /\ sem' = sem
        /\ wpc[w] \in InitiatorPCs /\ wpc'[w] \in {"top", "res_clear"}
        /\ \/ wpc'[u] = wpc[u]
           \/ wpc[u] \in LoopPCs /\ wpc'[u] \in LoopPCs
    BY <1>6, KillFrame DEF TriggerKill, ResumeKill, ipcVars, handshakeVars, InitiatorPCs, u
  <2>2. LoopPCs \cap (InitiatorPCs \cup {"trig_abort"}) = {}
    BY DEF LoopPCs, InitiatorPCs
  <2>3. QED
    BY <1>2, <1>4, <2>1, <2>2
<1>7. CASE AckSetFlag(w)
  BY <1>1, <1>2, <1>4, <1>7 DEF AckSetFlag, Goto, InitiatorPCs, ipcVars
<1>8. CASE ResumeUnlock(w)
  <2>1. is_initiator[w]
    BY <1>4, <1>8 DEF ResumeUnlock, Goto, InitiatorPCs
  <2>2. sem'["lock"] = 1
    BY <1>2, <1>4, <1>8, <2>1 DEF ResumeUnlock, SemPost
  <2>3. QED
    BY <1>1, <1>2, <1>4, <1>8, <2>1, <2>2 DEF ResumeUnlock, Goto, InitiatorPCs
<1>9. CASE ResumeSend(w)
  BY <1>1, <1>2, <1>4, <1>9 DEF ResumeSend, Goto, handshakeVars
<1>10. CASE ReleaseWaiters(w)
  <2>1. sem'["lock"] = sem["lock"]
    BY <1>10, LockFrame DEF ReleaseWaiters, Semaphores
  <2>2. QED
    BY <1>1, <1>2, <1>4, <1>10, <2>1 DEF ReleaseWaiters, Goto, InitiatorPCs, handshakeVars
<1>11. CASE NoDanger(w) \/ SignalSeen(w) \/ AckReply(w) \/ AckClearFlag(w)
  BY <1>1, <1>2, <1>4, <1>11 DEF NoDanger, SignalSeen, AckReply, AckClearFlag, Goto,
     InitiatorPCs, ipcVars, handshakeVars
<1>12. CASE TriggerSetFlag(w) \/ ResumeReceive(w) \/ ResumeClearFlag(w)
  BY <1>1, <1>2, <1>4, <1>12 DEF TriggerSetFlag, ResumeReceive, ResumeClearFlag, Goto,
     InitiatorPCs, ipcVars, handshakeVars
<1>13. CASE TriggerAbort(w)
  BY <1>4, <1>13 DEF TriggerAbort, Goto
<1>14. QED
  BY <1>5, <1>6, <1>7, <1>8, <1>9, <1>10, <1>11, <1>12, <1>13 DEF EmergencyStep

\* A protocol step preserves the handshake invariant: the initiator sends into
\* empty queues, since the other worker cannot be waiting for an answer too.
LEMMA EmergencyHand ==
  ASSUME TypeOK, LockInv, HandInv, NEW w \in Workers, EmergencyStep(w)
  PROVE  HandInv'
<1> DEFINE u == Other(w)
<1>1. /\ u \in Workers /\ u # w /\ Other(u) = w
      /\ \A v \in Workers : v = w \/ v = u
  BY DEF Other, Workers
<1>2. /\ wpc \in [Workers -> WorkerPCs] /\ mq_worker \in [Workers -> Seq(WorkerMsg)]
  BY DEF TypeOK
<1>3. UNCHANGED pauses
  BY DEF EmergencyStep, NoDanger, DetectDanger, TriggerSetFlag, TriggerKill,
       TriggerAbort, SignalSeen, AckSetFlag, AckReply, AckClearFlag, ResumeSend,
       ResumeReceive, ResumeKill, ResumeClearFlag, ReleaseWaiters, ResumeUnlock,
       workerRest
<1> SUFFICES ASSUME pauses = 0
             PROVE  HandInv'
  BY <1>3 DEF HandInv
<1> DEFINE
  Waits(v, o) == wpc[v] = "res_wait" =>
                   \/ mq_worker[v] = <<>> /\ mq_worker[o] = <<"READY_TO_RESUME">>
                   \/ mq_worker[v] = <<"I_AM_READY">> /\ mq_worker[o] = <<>>
  Nobody == wpc[w] # "res_wait" /\ wpc[u] # "res_wait"
              => mq_worker[w] = <<>> /\ mq_worker[u] = <<>>
<1>4. Waits(w, u) /\ Waits(u, w) /\ Nobody
  BY <1>1 DEF HandInv
<1>5. ~(wpc[w] = "res_wait" /\ wpc[u] = "res_wait")
  BY <1>1 DEF LockInv, InitiatorPCs
<1> SUFFICES Waits(w, u)' /\ Waits(u, w)' /\ Nobody'
  BY <1>1 DEF HandInv
<1> HIDE DEF u
<1>6. ASSUME mq_worker' = mq_worker,
             wpc'[w] = "res_wait" <=> wpc[w] = "res_wait",
             wpc'[u] = "res_wait" <=> wpc[u] = "res_wait"
      PROVE  Waits(w, u)' /\ Waits(u, w)' /\ Nobody'
  BY <1>4, <1>6
<1>7. CASE AckReply(w)
  <2>1. wpc[w] # "res_wait" /\ mq_worker[w] # <<>> /\ wpc' = [wpc EXCEPT ![w] = "ack_clear"]
    BY <1>7 DEF AckReply, Goto
  <2>2. wpc[u] = "res_wait" /\ mq_worker[u] = <<>> /\ mq_worker[w] = <<"READY_TO_RESUME">>
    BY <1>4, <2>1
  <2>3. mq_worker'[w] = Tail(mq_worker[w]) /\ mq_worker'[u] = Append(mq_worker[u], "I_AM_READY")
    BY <1>1, <1>2, <1>7 DEF AckReply, u
  <2>4. mq_worker'[w] = <<>> /\ mq_worker'[u] = <<"I_AM_READY">>
    BY <2>2, <2>3
  <2>5. wpc'[w] = "ack_clear" /\ wpc'[u] = "res_wait"
    BY <1>1, <1>2, <2>1, <2>2
  <2>6. QED
    BY <2>4, <2>5
<1>8. CASE ResumeSend(w)
  <2>1. wpc[w] = "top" /\ is_initiator[w] /\ wpc' = [wpc EXCEPT ![w] = "res_wait"]
    BY <1>8 DEF ResumeSend, Goto
  <2>2. wpc[u] # "res_wait"
    BY <1>1, <2>1 DEF LockInv, InitiatorPCs
  <2>3. mq_worker[w] = <<>> /\ mq_worker[u] = <<>>
    BY <1>4, <2>1, <2>2
  <2>4. mq_worker'[w] = mq_worker[w] /\ mq_worker'[u] = Append(mq_worker[u], "READY_TO_RESUME")
    BY <1>1, <1>2, <1>8 DEF ResumeSend, u
  <2>5. mq_worker'[w] = <<>> /\ mq_worker'[u] = <<"READY_TO_RESUME">>
    BY <2>3, <2>4
  <2>6. wpc'[w] = "res_wait" /\ wpc'[u] # "res_wait"
    BY <1>1, <1>2, <2>1, <2>2
  <2>7. QED
    BY <2>5, <2>6
<1>9. CASE ResumeReceive(w)
  <2>1. wpc[w] = "res_wait" /\ mq_worker[w] # <<>> /\ wpc' = [wpc EXCEPT ![w] = "res_kill"]
    BY <1>9 DEF ResumeReceive, Goto
  <2>2. mq_worker[w] = <<"I_AM_READY">> /\ mq_worker[u] = <<>> /\ wpc[u] # "res_wait"
    BY <1>4, <1>5, <2>1
  <2>3. mq_worker'[w] = Tail(mq_worker[w]) /\ mq_worker'[u] = mq_worker[u]
    BY <1>1, <1>2, <1>9 DEF ResumeReceive
  <2>4. mq_worker'[w] = <<>> /\ mq_worker'[u] = <<>>
    BY <2>2, <2>3
  <2>5. wpc'[w] # "res_wait" /\ wpc'[u] # "res_wait"
    BY <1>1, <1>2, <2>1, <2>2
  <2>6. QED
    BY <2>4, <2>5
<1>10. CASE TriggerKill(w) \/ ResumeKill(w)
  <2>1. /\ mq_worker' = mq_worker
        /\ wpc[w] # "res_wait" /\ wpc'[w] # "res_wait"
        /\ \/ wpc'[u] = wpc[u]
           \/ wpc[u] \in LoopPCs /\ wpc'[u] \in LoopPCs
    BY <1>10, KillFrame DEF TriggerKill, ResumeKill, ipcVars, u
  <2>2. QED
    BY <1>6, <2>1 DEF LoopPCs
<1>11. CASE ~(\/ AckReply(w) \/ ResumeSend(w) \/ ResumeReceive(w)
              \/ TriggerKill(w) \/ ResumeKill(w))
  <2>1. mq_worker' = mq_worker
    BY <1>11 DEF EmergencyStep, NoDanger, DetectDanger, TriggerSetFlag, TriggerAbort,
       SignalSeen, AckSetFlag, AckClearFlag, ResumeClearFlag, ReleaseWaiters,
       ResumeUnlock, ipcVars, queueVars
  <2>2. wpc[w] # "res_wait" /\ \E to \in WorkerPCs \ {"res_wait"} : wpc' = [wpc EXCEPT ![w] = to]
    BY <1>11 DEF EmergencyStep, NoDanger, DetectDanger, TriggerSetFlag, TriggerAbort,
       SignalSeen, AckSetFlag, AckClearFlag, ResumeClearFlag, ReleaseWaiters,
       ResumeUnlock, Goto, WorkerPCs, LoopPCs, ProtocolPCs
  <2>3. QED
    BY <1>1, <1>2, <1>6, <2>1, <2>2
<1>12. QED
  BY <1>7, <1>8, <1>9, <1>10, <1>11

\* Both invariants are preserved by every step.
LEMMA EmergencyNext ==
  ASSUME TypeOK, LockInv, HandInv, [Next]_vars
  PROVE  LockInv' /\ HandInv'
<1>1. CASE Quiet
  BY <1>1, QuietInv
<1>2. CASE \E w \in Workers : EmergencyStep(w)
  BY <1>2, EmergencyLock, EmergencyHand
<1>3. CASE Pause
  <2>1. pauses' # 0
    BY <1>3 DEF TypeOK, Pause
  <2>2. QED
    BY <2>1 DEF LockInv, HandInv
<1>4. QED
  BY <1>1, <1>2, <1>3, TouristQuiet, LowerQuiet, UpperQuiet, OtherQuiet
     DEF Next, LowerStep, UpperStep, Workers

\* They hold initially.
LEMMA EmergencyInit == Init => LockInv /\ HandInv
BY DEF Init, WorkerInit, LockInv, HandInv, SemInit, Semaphores, Workers, InitiatorPCs

\* The inductive invariant of the emergency protocol.
THEOREM EmergencyInvariant == Spec => [](LockInv /\ HandInv)
<1>1. Init => LockInv /\ HandInv
  BY EmergencyInit
<1>2. TypeOK /\ LockInv /\ HandInv /\ [Next]_vars => (LockInv /\ HandInv)'
  BY EmergencyNext
<1>3. QED
  BY <1>1, <1>2, TypeCorrect, PTL DEF Spec

\* Mutual exclusion of initiators (worker_trigger_emergency_stop takes
\* SEM_EMERGENCY_LOCK without waiting, worker_initiate_resume gives it back).
THEOREM LockDisciplineHolds == Spec => []LockDiscipline
<1>1. LockInv => LockDiscipline
  BY DEF LockInv, LockDiscipline
<1>2. QED
  BY <1>1, EmergencyInvariant, PTL

\* The handshake of worker_initiate_resume and worker_acknowledge_emergency_stop
\* is never out of step: no stale message can end a later wait.
THEOREM HandshakeInStepHolds == Spec => []HandshakeInStep
<1>1. ASSUME LockInv, HandInv, TypeOK
      PROVE  HandshakeInStep
  <2> SUFFICES ASSUME pauses = 0, NEW w \in Workers
               PROVE  /\ Len(mq_worker[w]) <= 1
                      /\ mq_worker[w] = <<"READY_TO_RESUME">> => wpc[Other(w)] = "res_wait"
                      /\ mq_worker[w] = <<"I_AM_READY">> => wpc[w] = "res_wait"
    BY DEF HandshakeInStep
  <2>1. Other(w) \in Workers /\ Other(Other(w)) = w /\ \A v \in Workers : v = w \/ v = Other(w)
    BY DEF Other, Workers
  <2>2. /\ Len(<<>>) <= 1 /\ Len(<<"I_AM_READY">>) <= 1 /\ Len(<<"READY_TO_RESUME">>) <= 1
        /\ <<>> # <<"I_AM_READY">> /\ <<>> # <<"READY_TO_RESUME">>
        /\ <<"I_AM_READY">> # <<"READY_TO_RESUME">>
    OBVIOUS
  <2>3. CASE wpc[w] = "res_wait"
    <3>1. mq_worker[w] = <<>> \/ mq_worker[w] = <<"I_AM_READY">>
      BY <1>1, <2>3 DEF HandInv
    <3>2. QED
      BY <2>2, <2>3, <3>1
  <2>4. CASE wpc[w] # "res_wait" /\ wpc[Other(w)] = "res_wait"
    <3>1. mq_worker[w] = <<>> \/ mq_worker[w] = <<"READY_TO_RESUME">>
      BY <1>1, <2>1, <2>4 DEF HandInv
    <3>2. QED
      BY <2>2, <2>4, <3>1
  <2>5. CASE wpc[w] # "res_wait" /\ wpc[Other(w)] # "res_wait"
    <3>1. mq_worker[w] = <<>>
      BY <1>1, <2>1, <2>5 DEF HandInv
    <3>2. QED
      BY <2>2, <3>1
  <2>6. QED
    BY <2>3, <2>4, <2>5
<1>2. QED
  BY <1>1, EmergencyInvariant, TypeCorrect, PTL
-----------------------------------------------------------------------------
(* What the tourists take and give back *)

\* The tourists of D at one of the places P.
AtIn(D, P) == {t \in D : tpc[t] \in P}

\* How a move from a to b changes the number of tourists at the places P.
Change(P, a, b) == (IF b \in P THEN 1 ELSE 0) - (IF a \in P THEN 1 ELSE 0)

\* Sets of tourists are finite.
LEMMA AtInFinite ==
  ASSUME NEW D \in SUBSET Tourists, NEW P
  PROVE  IsFiniteSet(AtIn(D, P)) /\ Cardinality(AtIn(D, P)) \in Nat
<1>1. IsFiniteSet(AtIn(D, P))
  BY TouristsAssumption, FS_Subset DEF AtIn
<1>2. QED
  BY <1>1, FS_CardinalityType

\* A single tourist's move changes the number at any set of places by at most one.
LEMMA MoveCard ==
  ASSUME TypeOK, NEW D \in SUBSET Tourists, NEW P, NEW t \in D, NEW a, NEW b, Move(t, a, b)
  PROVE  Cardinality(AtIn(D, P))' = Cardinality(AtIn(D, P)) + Change(P, a, b)
<1> DEFINE S == AtIn(D, P)
<1>1. /\ IsFiniteSet(S) /\ Cardinality(S) \in Nat
      /\ tpc[t] = a /\ tpc' = [tpc EXCEPT ![t] = b] /\ tpc \in [Tourists -> TouristPCs]
  BY AtInFinite DEF Move, TypeOK
<1>2. CASE a \notin P /\ b \in P
  <2>1. S' = S \cup {t} /\ t \notin S
    BY <1>1, <1>2 DEF AtIn
  <2>2. Cardinality(S \cup {t}) = Cardinality(S) + 1
    BY <1>1, <2>1, FS_AddElement
  <2>3. Change(P, a, b) = 1
    BY <1>2 DEF Change
  <2>4. QED
    BY <1>1, <2>1, <2>2, <2>3
<1>3. CASE a \in P /\ b \notin P
  <2>1. S' = S \ {t} /\ t \in S
    BY <1>1, <1>3 DEF AtIn
  <2>2. Cardinality(S \ {t}) = Cardinality(S) - 1
    BY <1>1, <2>1, FS_RemoveElement
  <2>3. Change(P, a, b) = -1
    BY <1>3 DEF Change
  <2>4. QED
    BY <1>1, <2>1, <2>2, <2>3
<1>4. CASE a \in P <=> b \in P
  <2>1. S' = S
    BY <1>1, <1>4 DEF AtIn
  <2>2. Change(P, a, b) = 0
    BY <1>4 DEF Change
  <2>3. QED
    BY <1>1, <2>1, <2>2
<1>5. QED
  BY <1>2, <1>3, <1>4

\* What a semop does to every semaphore of the set.
LEMMA SemValues ==
  ASSUME TypeOK, NEW s \in Semaphores, NEW n \in Nat
  PROVE  /\ SemWait(s, n) => sem' = [r \in Semaphores |-> sem[r] - (IF r = s THEN n ELSE 0)]
         /\ SemPost(s, n) => sem' = [r \in Semaphores |-> sem[r] + (IF r = s THEN n ELSE 0)]
<1>1. sem \in [Semaphores -> Nat]
  BY DEF TypeOK
<1>2. QED
  BY <1>1 DEF SemWait, SemPost

\* The semaphores that only tourists use.
TouristSems == {"entry", "exit", "platform", "station"}

\* The workers, the clock, the closing of the station and stuttering leave
\* tourists, the waiting room and those semaphores alone.
LEMMA WorkersLeaveTouristsAlone ==
  ASSUME TypeOK, [Next]_vars, ~(\E t \in Tourists : TouristStep(t)), ~Pause
  PROVE  /\ UNCHANGED <<tpc, lower_station_count>>
         /\ \A s \in TouristSems : sem'[s] = sem[s]
<1>1. ASSUME NEW r \in {"chairs", "clear", "lock"}, NEW n \in Nat, SemWait(r, n) \/ SemPost(r, n)
      PROVE  \A s \in TouristSems : sem'[s] = sem[s]
  BY <1>1 DEF TypeOK, SemWait, SemPost, Semaphores, TouristSems
<1>2. ASSUME NEW w \in Workers, EmergencyStep(w)
      PROVE  /\ UNCHANGED <<tpc, lower_station_count>>
             /\ \A s \in TouristSems : sem'[s] = sem[s]
  <2>1. UNCHANGED <<tpc, lower_station_count>>
    BY <1>2 DEF EmergencyStep, NoDanger, DetectDanger, TriggerSetFlag, TriggerKill,
       TriggerAbort, SignalSeen, AckSetFlag, AckReply, AckClearFlag, ResumeSend,
       ResumeReceive, ResumeKill, ResumeClearFlag, ReleaseWaiters, ResumeUnlock,
       workerRest, statVars, touristVars
  <2>2. \A s \in TouristSems : sem'[s] = sem[s]
    <3>1. emergency_waiters \in Nat
      BY DEF TypeOK
    <3>2. QED
      BY <1>1, <1>2, <3>1 DEF EmergencyStep, NoDanger, DetectDanger, TriggerSetFlag,
         TriggerKill, TriggerAbort, SignalSeen, AckSetFlag, AckReply, AckClearFlag,
         ResumeSend, ResumeReceive, ResumeKill, ResumeClearFlag, ReleaseWaiters,
         ResumeUnlock, ipcVars
  <2>3. QED
    BY <2>1, <2>2
<1>3. CASE LowerStep /\ ~EmergencyStep("lower")
  <2>1. UNCHANGED <<tpc, lower_station_count>>
    BY <1>3 DEF LowerStep, LowerCheckFlag, LowerReceive, LowerTimeout, LowerBounce,
       LowerPlace, LowerNoFit, LowerDrop, LowerDispatch, lowerRest, statVars, touristVars
  <2>2. DispatchChair => \A s \in TouristSems : sem'[s] = sem[s]
    BY <1>1 DEF DispatchChair
  <2>3. \A s \in TouristSems : sem'[s] = sem[s]
    BY <1>3, <2>2 DEF LowerStep, LowerCheckFlag, LowerReceive, LowerTimeout, LowerBounce,
       LowerPlace, LowerNoFit, LowerDrop, LowerDispatch, ipcVars
  <2>4. QED
    BY <2>1, <2>3
<1>4. CASE UpperStep /\ ~EmergencyStep("upper")
  <2>1. UNCHANGED <<tpc, lower_station_count>>
    BY <1>4 DEF UpperStep, UpperWait, UpperSleep, UpperReceive, upperRest, statVars,
       touristVars
  <2>2. \A s \in TouristSems : sem'[s] = sem[s]
    BY <1>1, <1>4 DEF UpperStep, UpperWait, UpperSleep, UpperReceive, TrackArrival, ipcVars
  <2>3. QED
    BY <2>1, <2>2
<1>5. CASE (\E w \in Workers : DurationPasses(w)) \/ CloseStation \/ UNCHANGED vars
  BY <1>5 DEF DurationPasses, CloseStation, vars, ipcVars, statVars, touristVars, workerRest
<1>6. QED
  BY <1>2, <1>3, <1>4, <1>5 DEF Next, LowerStep, UpperStep, Workers

-----------------------------------------------------------------------------
(* Gates *)

\* Where a tourist holds a permit of the entry (unless it is a VIP), platform and
\* exit gates.
EntryPCs == {"station", "count"}
PlatformPCs == {"pass", "pass_out", "board", "clear", "blocked", "send", "confirm"}
ExitPCs == {"arrive"}

\* A VIP never queues at the entry gates.
VipInv == \A t \in Tourists : tpc[t] = "gate" => t \notin Vips

\* The holders of the gates, as sets AtIn.
LEMMA HolderSets ==
  /\ EntryHolders = AtIn(Tourists \ Vips, EntryPCs)
  /\ PlatformHolders = AtIn(Tourists, PlatformPCs)
  /\ ExitHolders = AtIn(Tourists, ExitPCs)
BY DEF EntryHolders, PlatformHolders, ExitHolders, At, AtIn, EntryPCs, PlatformPCs, ExitPCs

\* How a tourist's move changes the number of holders of each gate.
LEMMA HolderMove ==
  ASSUME TypeOK, NEW t \in Tourists, NEW a, NEW b, Move(t, a, b)
  PROVE  /\ Cardinality(EntryHolders)' = Cardinality(EntryHolders)
              + (IF t \in Vips THEN 0 ELSE Change(EntryPCs, a, b))
         /\ Cardinality(PlatformHolders)' = Cardinality(PlatformHolders)
              + Change(PlatformPCs, a, b)
         /\ Cardinality(ExitHolders)' = Cardinality(ExitHolders) + Change(ExitPCs, a, b)
         /\ Cardinality(EntryHolders) \in Nat
         /\ Cardinality(PlatformHolders) \in Nat
         /\ Cardinality(ExitHolders) \in Nat
<1>1. /\ Cardinality(EntryHolders) \in Nat
      /\ Cardinality(PlatformHolders) \in Nat
      /\ Cardinality(ExitHolders) \in Nat
  BY HolderSets, AtInFinite
<1>2. /\ EntryHolders' = AtIn(Tourists \ Vips, EntryPCs)'
      /\ PlatformHolders' = AtIn(Tourists, PlatformPCs)'
      /\ ExitHolders' = AtIn(Tourists, ExitPCs)'
  BY DEF EntryHolders, PlatformHolders, ExitHolders, At, AtIn, EntryPCs, PlatformPCs, ExitPCs
<1>3. Cardinality(PlatformHolders)' = Cardinality(PlatformHolders) + Change(PlatformPCs, a, b)
  BY <1>2, HolderSets, MoveCard
<1>4. Cardinality(ExitHolders)' = Cardinality(ExitHolders) + Change(ExitPCs, a, b)
  BY <1>2, HolderSets, MoveCard
<1>5. Cardinality(EntryHolders)' = Cardinality(EntryHolders)
              + (IF t \in Vips THEN 0 ELSE Change(EntryPCs, a, b))
  <2>1. CASE t \in Vips
    <3>1. AtIn(Tourists \ Vips, EntryPCs)' = AtIn(Tourists \ Vips, EntryPCs)
      BY <2>1 DEF AtIn, Move, TypeOK
    <3>2. QED
      BY <1>1, <1>2, <2>1, <3>1, HolderSets
  <2>2. CASE t \notin Vips
    <3>1. Cardinality(AtIn(Tourists \ Vips, EntryPCs))'
            = Cardinality(AtIn(Tourists \ Vips, EntryPCs)) + Change(EntryPCs, a, b)
      BY <2>2, MoveCard
    <3>2. QED
      BY <1>2, <2>2, <3>1, HolderSets
  <2>3. QED
    BY <2>1, <2>2
<1>6. QED
  BY <1>1, <1>3, <1>4, <1>5

\* A move keeps the gates' accounts if the semaphores change by what the move says.
LEMMA GateMove ==
  ASSUME TypeOK, GateAccounting, NEW t \in Tourists, NEW a, NEW b, Move(t, a, b),
         sem'["entry"] = sem["entry"] - (IF t \in Vips THEN 0 ELSE Change(EntryPCs, a, b)),
         sem'["platform"] = sem["platform"] - Change(PlatformPCs, a, b),
         sem'["exit"] = sem["exit"] - Change(ExitPCs, a, b)
  PROVE  GateAccounting'
<1>1. /\ sem["entry"] \in Nat /\ sem["platform"] \in Nat /\ sem["exit"] \in Nat
  BY DEF TypeOK, Semaphores
<1>2. \A P : Change(P, a, b) \in Int
  BY DEF Change
<1>3. (sem["entry"] + Cardinality(EntryHolders))' = sem["entry"] + Cardinality(EntryHolders)
  BY <1>1, <1>2, HolderMove
<1>4. (sem["platform"] + Cardinality(PlatformHolders))'
        = sem["platform"] + Cardinality(PlatformHolders)
  BY <1>1, <1>2, HolderMove
<1>5. (sem["exit"] + Cardinality(ExitHolders))' = sem["exit"] + Cardinality(ExitHolders)
  BY <1>1, <1>2, HolderMove
<1>6. QED
  BY <1>3, <1>4, <1>5 DEF GateAccounting

\* Every step of a tourist takes or gives back a gate exactly when it moves into
\* or out of the part of its program that holds one.
LEMMA GateTourist ==
  ASSUME TypeOK, VipInv, GateAccounting, NEW t \in Tourists, TouristStep(t)
  PROVE  GateAccounting'
<1>1. /\ \A s \in Semaphores : sem[s] \in Nat
      /\ {"entry", "exit", "platform", "station", "clear"} \subseteq Semaphores
      /\ StationSlots(t) \in Nat
  <2>1. StationSlots(t) \in Nat
    BY SlotsType
  <2>2. QED
    BY <2>1 DEF TypeOK, Semaphores
<1>2. ASSUME UNCHANGED sem \/ SemPost("station", StationSlots(t))
               \/ SemWait("station", StationSlots(t)) \/ SemWait("clear", 1)
      PROVE  \A s \in {"entry", "exit", "platform"} : sem'[s] = sem[s]
  BY <1>1, <1>2, SemValues
<1>3. CASE StartRide(t)
  BY <1>1, <1>2, <1>3, GateMove
     DEF StartRide, Change, EntryPCs, PlatformPCs, ExitPCs, ipcVars
<1>4. CASE LeaveForGood(t)
  BY <1>1, <1>2, <1>4, GateMove
     DEF LeaveForGood, Change, EntryPCs, PlatformPCs, ExitPCs, ipcVars
<1>5. CASE EnterGate(t)
  <2>1. Move(t, "gate", "station")
    BY <1>5 DEF EnterGate
  <2>2. /\ sem'["entry"] = sem["entry"] - 1
        /\ sem'["platform"] = sem["platform"] /\ sem'["exit"] = sem["exit"]
    BY <1>1, <1>5, SemValues DEF EnterGate
  <2>3. t \notin Vips
    BY <1>5 DEF EnterGate, VipInv, Move
  <2>4. QED
    BY <1>1, <2>1, <2>2, <2>3, GateMove DEF Change, EntryPCs, PlatformPCs, ExitPCs
<1>6. CASE EnterStation(t)
  <2>1. \A s \in {"entry", "exit", "platform"} : sem'[s] = sem[s]
    BY <1>2, <1>6 DEF EnterStation
  <2>2. QED
    BY <1>1, <1>6, <2>1, GateMove DEF EnterStation, Change, EntryPCs, PlatformPCs, ExitPCs
<1>7. CASE EnterPlatform(t)
  <2>1. Move(t, "platform", "pass")
    BY <1>7 DEF EnterPlatform
  <2>2. /\ sem'["platform"] = sem["platform"] - 1
        /\ sem'["entry"] = sem["entry"] /\ sem'["exit"] = sem["exit"]
    BY <1>1, <1>7, SemValues DEF EnterPlatform
  <2>3. QED
    BY <1>1, <2>1, <2>2, GateMove DEF Change, EntryPCs, PlatformPCs, ExitPCs
<1>8. CASE ReadEmergency(t)
  BY <1>1, <1>2, <1>8, GateMove
     DEF ReadEmergency, Change, EntryPCs, PlatformPCs, ExitPCs, ipcVars
<1>9. CASE WaitEmergency(t)
  BY <1>1, <1>2, <1>9, GateMove
     DEF WaitEmergency, Change, EntryPCs, PlatformPCs, ExitPCs, ipcVars
<1>10. CASE EmergencyCleared(t)
  BY <1>1, <1>2, <1>10, GateMove
     DEF EmergencyCleared, Change, EntryPCs, PlatformPCs, ExitPCs
<1>11. CASE SendRequest(t)
  BY <1>1, <1>2, <1>11, GateMove
     DEF SendRequest, Change, EntryPCs, PlatformPCs, ExitPCs
<1>12. CASE Board(t)
  <2>1. Move(t, "confirm", "ride")
    BY <1>12 DEF Board
  <2>2. /\ sem'["platform"] = sem["platform"] + 1
        /\ sem'["entry"] = sem["entry"] /\ sem'["exit"] = sem["exit"]
    BY <1>1, <1>12, SemValues DEF Board
  <2>3. QED
    BY <1>1, <2>1, <2>2, GateMove DEF Change, EntryPCs, PlatformPCs, ExitPCs
<1>13. CASE EnterExitGate(t)
  <2>1. Move(t, "ride", "arrive")
    BY <1>13 DEF EnterExitGate
  <2>2. /\ sem'["exit"] = sem["exit"] - 1
        /\ sem'["entry"] = sem["entry"] /\ sem'["platform"] = sem["platform"]
    BY <1>1, <1>13, SemValues DEF EnterExitGate
  <2>3. QED
    BY <1>1, <2>1, <2>2, GateMove DEF Change, EntryPCs, PlatformPCs, ExitPCs
<1>14. CASE ArriveUpper(t)
  <2>1. Move(t, "arrive", "trail")
    BY <1>14 DEF ArriveUpper
  <2>2. /\ sem'["exit"] = sem["exit"] + 1
        /\ sem'["entry"] = sem["entry"] /\ sem'["platform"] = sem["platform"]
    BY <1>1, <1>14, SemValues DEF ArriveUpper
  <2>3. QED
    BY <1>1, <2>1, <2>2, GateMove DEF Change, EntryPCs, PlatformPCs, ExitPCs
<1>15. CASE DescendTrail(t)
  BY <1>1, <1>2, <1>15, GateMove
     DEF DescendTrail, Change, EntryPCs, PlatformPCs, ExitPCs, ipcVars
<1>16. CASE CountIn(t)
  <2>1. PICK b \in {"platform", "scared"} : Move(t, "count", b)
    BY <1>16 DEF CountIn
  <2>2. /\ sem'["entry"] = sem["entry"] + (IF t \in Vips THEN 0 ELSE 1)
        /\ sem'["platform"] = sem["platform"] /\ sem'["exit"] = sem["exit"]
    BY <1>1, <1>16, SemValues DEF CountIn
  <2>3. QED
    BY <1>1, <2>1, <2>2, GateMove DEF Change, EntryPCs, PlatformPCs, ExitPCs
<1>17. CASE CountOut(t)
  <2>1. \A s \in {"entry", "exit", "platform"} : sem'[s] = sem[s]
    BY <1>17 DEF CountOut, ipcVars
  <2>2. QED
    BY <1>1, <1>17, <2>1, GateMove DEF CountOut, Change, EntryPCs, PlatformPCs, ExitPCs
<1>18. CASE LeaveStation(t)
  <2>1. \A s \in {"entry", "exit", "platform"} : sem'[s] = sem[s]
    BY <1>2, <1>18 DEF LeaveStation
  <2>2. QED
    BY <1>1, <1>18, <2>1, GateMove DEF LeaveStation, Change, EntryPCs, PlatformPCs, ExitPCs
<1>19. QED
  BY <1>3, <1>4, <1>5, <1>6, <1>7, <1>8, <1>9, <1>10, <1>11, <1>12, <1>13, <1>14,
     <1>15, <1>16, <1>17, <1>18
     DEF TouristStep

\* Only StartRide leads to the entry gates, and not for a VIP.
LEMMA VipNext ==
  ASSUME TypeOK, VipInv, [Next]_vars
  PROVE  VipInv'
<1>1. CASE UNCHANGED tpc
  BY <1>1 DEF VipInv
<1>2. CASE Pause
  BY <1>2 DEF VipInv, Pause, TypeOK
<1>3. ASSUME NEW t \in Tourists, TouristStep(t)
      PROVE  VipInv'
  <2>1. PICK a, b : Move(t, a, b) /\ (b = "gate" => t \notin Vips)
    BY <1>3 DEF TouristStep, StartRide, LeaveForGood, EnterGate, EnterStation,
       CountIn, EnterPlatform, CountOut, LeaveStation, ReadEmergency, WaitEmergency,
       EmergencyCleared, SendRequest, Board, EnterExitGate, ArriveUpper, DescendTrail
  <2>2. QED
    BY <2>1 DEF VipInv, Move, TypeOK
<1>4. QED
  BY <1>1, <1>2, <1>3, WorkersLeaveTouristsAlone

\* Every step of the system keeps the gates' accounts.
LEMMA GateNext ==
  ASSUME TypeOK, VipInv, GateAccounting, [Next]_vars
  PROVE  GateAccounting'
<1>1. CASE \E t \in Tourists : TouristStep(t)
  BY <1>1, GateTourist
<1>2. CASE Pause
  <2>1. sem' = sem
    BY <1>2 DEF Pause, ipcVars
  <2>2. /\ EntryHolders' = EntryHolders
        /\ PlatformHolders' = PlatformHolders
        /\ ExitHolders' = ExitHolders
    BY <1>2 DEF Pause, Blocked, EntryHolders, PlatformHolders, ExitHolders, At, TypeOK
  <2>3. QED
    BY <2>1, <2>2 DEF GateAccounting
<1>3. CASE ~(\E t \in Tourists : TouristStep(t)) /\ ~Pause
  <2>1. /\ tpc' = tpc /\ \A s \in {"entry", "exit", "platform"} : sem'[s] = sem[s]
    BY <1>3, WorkersLeaveTouristsAlone DEF TouristSems
  <2>2. /\ EntryHolders' = EntryHolders
        /\ PlatformHolders' = PlatformHolders
        /\ ExitHolders' = ExitHolders
    BY <2>1 DEF EntryHolders, PlatformHolders, ExitHolders, At
  <2>3. QED
    BY <2>1, <2>2 DEF GateAccounting
<1>4. QED
  BY <1>1, <1>2, <1>3

\* Initially nobody holds a gate.
LEMMA GateInit == Init => GateAccounting /\ VipInv
<1> SUFFICES ASSUME Init
             PROVE  GateAccounting /\ VipInv
  OBVIOUS
<1>1. EntryHolders = {} /\ PlatformHolders = {} /\ ExitHolders = {}
  BY DEF Init, TouristInit, EntryHolders, PlatformHolders, ExitHolders, At
<1>2. sem["entry"] = EntryGates /\ sem["platform"] = PlatformGates /\ sem["exit"] = ExitGates
  BY DEF Init, SemInit, Semaphores
<1>3. VipInv
  BY DEF Init, TouristInit, VipInv
<1>4. QED
  BY <1>1, <1>2, <1>3, FS_EmptySet, SizesAssumption DEF GateAccounting

\* No gate is lost or invented (tourist/main.c, boarding.c), whatever the workers,
\* the emergencies and the pauses do.
THEOREM GateAccountingHolds == Spec => []GateAccounting
<1>1. Init => GateAccounting /\ VipInv
  BY GateInit
<1>2. TypeOK /\ GateAccounting /\ VipInv /\ [Next]_vars => (GateAccounting /\ VipInv)'
  BY GateNext, VipNext
<1>3. QED
  BY <1>1, <1>2, TypeCorrect, PTL DEF Spec
-----------------------------------------------------------------------------
(* The waiting room *)

\* The places of any set of tourists are finitely many.
LEMMA PlacesFinite ==
  ASSUME NEW S \in SUBSET Tourists
  PROVE  IsFiniteSet(Places(S)) /\ Cardinality(Places(S)) \in Nat
<1>1. 1 \in Int /\ 3 \in Int
  OBVIOUS
<1>2. IsFiniteSet(1..3)
  BY <1>1, FS_Interval, Zenon
<1>3. IsFiniteSet(S)
  BY TouristsAssumption, FS_Subset
<1>4. IsFiniteSet(S \X (1..3))
  BY <1>2, <1>3, FS_Product
<1>5. Places(S) \in SUBSET (S \X (1..3))
  BY DEF Places
<1>6. QED
  BY <1>4, <1>5, FS_Subset, FS_CardinalityType

\* Places for one more family: as many as it has members.
LEMMA PlacesAdd ==
  ASSUME NEW S \in SUBSET Tourists, NEW t \in Tourists \ S
  PROVE  /\ IsFiniteSet(Places(S)) /\ Cardinality(Places(S)) \in Nat
         /\ Cardinality(Places(S \cup {t})) = Cardinality(Places(S)) + StationSlots(t)
<1> DEFINE A == Places(S)
           P1 == A \cup {<<t, 1>>}
           P2 == P1 \cup {<<t, 2>>}
           P3 == P2 \cup {<<t, 3>>}
<1>1. StationSlots(t) \in 1..3
  BY SlotsType
<1>2. IsFiniteSet(A) /\ Cardinality(A) \in Nat
  BY PlacesFinite
<1>3. <<t, 1>> \notin A /\ <<t, 2>> \notin P1 /\ <<t, 3>> \notin P2
  BY DEF Places
<1> HIDE DEF A
<1>4. IsFiniteSet(P1) /\ Cardinality(P1) = Cardinality(A) + 1
  BY <1>2, <1>3, FS_AddElement
<1> HIDE DEF P1
<1>5. IsFiniteSet(P2) /\ Cardinality(P2) = Cardinality(P1) + 1
  BY <1>3, <1>4, FS_AddElement
<1> HIDE DEF P2
<1>6. Cardinality(P3) = Cardinality(P2) + 1
  BY <1>3, <1>5, FS_AddElement
<1> HIDE DEF P3
<1>7. CASE StationSlots(t) = 1
  <2>1. Places(S \cup {t}) = P1
    BY <1>7 DEF Places, A, P1
  <2>2. Cardinality(Places(S \cup {t})) = Cardinality(A) + 1
    BY <1>2, <1>4, <2>1
  <2>3. QED
    BY <1>2, <1>7, <2>2 DEF A
<1>8. CASE StationSlots(t) = 2
  <2>1. Places(S \cup {t}) = P2
    BY <1>8 DEF Places, A, P1, P2
  <2>2. Cardinality(Places(S \cup {t})) = Cardinality(A) + 2
    BY <1>2, <1>4, <1>5, <2>1
  <2>3. QED
    BY <1>2, <1>8, <2>2 DEF A
<1>9. CASE StationSlots(t) = 3
  <2>1. Places(S \cup {t}) = P3
    BY <1>9 DEF Places, A, P1, P2, P3
  <2>2. Cardinality(Places(S \cup {t})) = Cardinality(A) + 3
    BY <1>2, <1>4, <1>5, <1>6, <2>1
  <2>3. QED
    BY <1>2, <1>9, <2>2 DEF A
<1>10. QED
  BY <1>1, <1>7, <1>8, <1>9

\* A single tourist's move changes the places taken at P by its family's size.
LEMMA MovePlaces ==
  ASSUME TypeOK, NEW P, NEW t \in Tourists, NEW a, NEW b, Move(t, a, b)
  PROVE  /\ Cardinality(Places(At(P))) \in Nat
         /\ a \notin P /\ b \in P =>
              Cardinality(Places(At(P)))' = Cardinality(Places(At(P))) + StationSlots(t)
         /\ a \in P /\ b \notin P =>
              Cardinality(Places(At(P)))' = Cardinality(Places(At(P))) - StationSlots(t)
         /\ (a \in P <=> b \in P) =>
              Cardinality(Places(At(P)))' = Cardinality(Places(At(P)))
<1> DEFINE S == At(P)
<1>1. /\ tpc[t] = a /\ tpc' = [tpc EXCEPT ![t] = b] /\ tpc \in [Tourists -> TouristPCs]
  BY DEF Move, TypeOK
<1>2. StationSlots(t) \in Nat
  BY SlotsType
<1>3. Places(S)' = Places(S')
  BY DEF Places, StationSlots
<1>4. S \in SUBSET Tourists
  BY DEF At
<1>5. ASSUME a \notin P, b \in P
      PROVE  /\ Cardinality(Places(S)) \in Nat
             /\ Cardinality(Places(S))' = Cardinality(Places(S)) + StationSlots(t)
  <2>1. S' = S \cup {t} /\ t \in Tourists \ S
    BY <1>1, <1>5 DEF At
  <2>2. QED
    BY <1>3, <1>4, <2>1, PlacesAdd
<1>6. ASSUME a \in P, b \notin P
      PROVE  /\ Cardinality(Places(S)) \in Nat
             /\ Cardinality(Places(S))' = Cardinality(Places(S)) - StationSlots(t)
  <2>1. S' \in SUBSET Tourists /\ S = S' \cup {t} /\ t \in Tourists \ S'
    BY <1>1, <1>6 DEF At
  <2>2. /\ Cardinality(Places(S')) \in Nat
        /\ Cardinality(Places(S)) = Cardinality(Places(S')) + StationSlots(t)
    BY <2>1, PlacesAdd
  <2>3. QED
    BY <1>2, <1>3, <2>2
<1>7. ASSUME a \in P <=> b \in P
      PROVE  Cardinality(Places(S))' = Cardinality(Places(S))
  <2>1. S' = S
    BY <1>1, <1>7 DEF At
  <2>2. QED
    BY <1>3, <2>1
<1>8. Cardinality(Places(S)) \in Nat
  BY <1>4, PlacesFinite
<1>9. QED
  BY <1>5, <1>6, <1>7, <1>8

\* Where a tourist holds its places in the waiting room, and where it is counted.
StationPCs == {"count", "scared", "scared_out", "platform", "pass", "pass_out"}
CountedPCs == {"scared", "platform", "pass"}

\* The accounts of StationAccounting; its bound follows from them.
StationInv ==
  /\ sem["station"] + Cardinality(Places(InStation)) = StationCapacity
  /\ lower_station_count = Cardinality(Places(Counted))

\* A move keeps the accounts if the semaphore and the count change with it.
LEMMA StationMove ==
  ASSUME TypeOK, StationInv, NEW t \in Tourists, NEW a, NEW b, Move(t, a, b),
         sem'["station"] = sem["station"] - Change(StationPCs, a, b) * StationSlots(t),
         lower_station_count' = lower_station_count + Change(CountedPCs, a, b) * StationSlots(t)
  PROVE  StationInv'
<1>1. StationSlots(t) \in Nat /\ sem["station"] \in Nat /\ lower_station_count \in Int
  <2>1. StationSlots(t) \in Nat
    BY SlotsType
  <2>2. QED
    BY <2>1 DEF TypeOK, Semaphores
<1>2. /\ InStation = At(StationPCs) /\ InStation' = At(StationPCs)'
      /\ Counted = At(CountedPCs) /\ Counted' = At(CountedPCs)'
  BY DEF InStation, Counted, StationPCs, CountedPCs
<1> DEFINE N == Cardinality(Places(At(StationPCs)))
           C == Cardinality(Places(At(CountedPCs)))
<1>3. N \in Nat /\ C \in Nat
  BY MovePlaces
<1>4. ASSUME NEW P
      PROVE  Cardinality(Places(At(P)))'
               = Cardinality(Places(At(P))) + Change(P, a, b) * StationSlots(t)
  <2>1. CASE a \notin P /\ b \in P
    <3>1. Change(P, a, b) * StationSlots(t) = StationSlots(t)
      BY <1>1, <2>1 DEF Change
    <3>2. QED
      BY <2>1, <3>1, MovePlaces
  <2>2. CASE a \in P /\ b \notin P
    <3>1. Change(P, a, b) * StationSlots(t) = -StationSlots(t)
      BY <1>1, <2>2 DEF Change
    <3>2. Cardinality(Places(At(P))) \in Nat
      BY MovePlaces
    <3>3. Cardinality(Places(At(P)))' = Cardinality(Places(At(P))) - StationSlots(t)
      BY <2>2, MovePlaces
    <3>4. QED
      BY <1>1, <3>1, <3>2, <3>3
  <2>3. CASE a \in P <=> b \in P
    <3>1. Change(P, a, b) * StationSlots(t) = 0
      BY <1>1, <2>3 DEF Change
    <3>2. QED
      BY <2>3, <3>1, MovePlaces
  <2>4. QED
    BY <2>1, <2>2, <2>3
<1>5. /\ Change(StationPCs, a, b) * StationSlots(t) \in Int
      /\ N' = N + Change(StationPCs, a, b) * StationSlots(t)
      /\ C' = C + Change(CountedPCs, a, b) * StationSlots(t)
  <2>1. Change(StationPCs, a, b) * StationSlots(t) \in Int
    BY <1>1 DEF Change
  <2>2. QED
    BY <1>4, <2>1
<1>6. sem["station"] + N = StationCapacity /\ lower_station_count = C
  BY <1>2 DEF StationInv
<1> HIDE DEF N, C
<1>7. sem'["station"] + N' = StationCapacity /\ lower_station_count' = C'
  BY <1>1, <1>3, <1>5, <1>6
<1>8. QED
  BY <1>2, <1>7 DEF StationInv, N, C

\* Every step of a tourist keeps the waiting room's accounts.
LEMMA StationTourist ==
  ASSUME TypeOK, StationInv, NEW t \in Tourists, TouristStep(t)
  PROVE  StationInv'
<1>1. StationSlots(t) \in Nat /\ sem["station"] \in Nat /\ lower_station_count \in Int
  <2>1. StationSlots(t) \in Nat
    BY SlotsType
  <2>2. QED
    BY <2>1 DEF TypeOK, Semaphores
<1>2. {"entry", "exit", "platform", "station", "clear"} \subseteq Semaphores
  BY DEF Semaphores
<1>3. /\ SemWait("station", StationSlots(t)) => sem'["station"] = sem["station"] - StationSlots(t)
      /\ SemPost("station", StationSlots(t)) => sem'["station"] = sem["station"] + StationSlots(t)
  BY <1>1, <1>2, SemValues
<1>4. ASSUME NEW s \in {"entry", "exit", "platform", "clear"}, SemWait(s, 1) \/ SemPost(s, 1)
      PROVE  sem'["station"] = sem["station"]
  BY <1>4 DEF TypeOK, SemWait, SemPost, Semaphores
<1>5. ASSUME NEW a, NEW b, Move(t, a, b), Change(StationPCs, a, b) = 0, Change(CountedPCs, a, b) = 0,
             sem'["station"] = sem["station"], lower_station_count' = lower_station_count
      PROVE  StationInv'
  BY <1>1, <1>5, StationMove
<1>6. CASE EnterStation(t)
  <2>1. Move(t, "station", "count") /\ lower_station_count' = lower_station_count
    BY <1>6 DEF EnterStation, statVars
  <2>2. sem'["station"] = sem["station"] - StationSlots(t)
    BY <1>3, <1>6 DEF EnterStation
  <2>3. Change(StationPCs, "station", "count") = 1 /\ Change(CountedPCs, "station", "count") = 0
    BY DEF Change, StationPCs, CountedPCs
  <2>4. QED
    BY <1>1, <2>1, <2>2, <2>3, StationMove
<1>7. CASE CountIn(t)
  <2>1. PICK b \in {"platform", "scared"} : Move(t, "count", b)
    BY <1>7 DEF CountIn
  <2>2. lower_station_count' = lower_station_count + StationSlots(t)
    BY <1>7 DEF CountIn
  <2>3. sem'["station"] = sem["station"]
    BY <1>4, <1>7 DEF CountIn
  <2>4. Change(StationPCs, "count", b) = 0 /\ Change(CountedPCs, "count", b) = 1
    BY DEF Change, StationPCs, CountedPCs
  <2>5. QED
    BY <1>1, <2>1, <2>2, <2>3, <2>4, StationMove
<1>8. CASE CountOut(t)
  <2>1. PICK a, b : /\ Move(t, a, b)
                    /\ <<a, b>> \in {<<"scared", "scared_out">>, <<"pass", "pass_out">>}
    BY <1>8 DEF CountOut
  <2>2. /\ lower_station_count' = lower_station_count - StationSlots(t)
        /\ sem'["station"] = sem["station"]
    BY <1>8 DEF CountOut, ipcVars
  <2>3. Change(StationPCs, a, b) = 0 /\ Change(CountedPCs, a, b) = -1
    BY <2>1 DEF Change, StationPCs, CountedPCs
  <2>4. QED
    BY <1>1, <2>1, <2>2, <2>3, StationMove
<1>9. CASE LeaveStation(t)
  <2>1. PICK a, b : /\ Move(t, a, b)
                    /\ <<a, b>> \in {<<"scared_out", "gone">>, <<"pass_out", "board">>}
    BY <1>9 DEF LeaveStation
  <2>2. /\ lower_station_count' = lower_station_count
        /\ sem'["station"] = sem["station"] + StationSlots(t)
    BY <1>3, <1>9 DEF LeaveStation, statVars
  <2>3. Change(StationPCs, a, b) = -1 /\ Change(CountedPCs, a, b) = 0
    BY <2>1 DEF Change, StationPCs, CountedPCs
  <2>4. QED
    BY <1>1, <2>1, <2>2, <2>3, StationMove
<1> USE DEF Change, StationPCs, CountedPCs, ipcVars, statVars
<1>10. CASE StartRide(t)
  BY <1>4, <1>5, <1>10 DEF StartRide
<1>11. CASE LeaveForGood(t)
  BY <1>4, <1>5, <1>11 DEF LeaveForGood
<1>12. CASE EnterGate(t)
  BY <1>4, <1>5, <1>12 DEF EnterGate
<1>13. CASE EnterPlatform(t)
  BY <1>4, <1>5, <1>13 DEF EnterPlatform
<1>14. CASE ReadEmergency(t)
  BY <1>4, <1>5, <1>14 DEF ReadEmergency
<1>15. CASE WaitEmergency(t)
  BY <1>4, <1>5, <1>15 DEF WaitEmergency
<1>16. CASE EmergencyCleared(t)
  BY <1>4, <1>5, <1>16 DEF EmergencyCleared
<1>17. CASE SendRequest(t)
  BY <1>4, <1>5, <1>17 DEF SendRequest
<1>18. CASE Board(t)
  BY <1>4, <1>5, <1>18 DEF Board
<1>19. CASE EnterExitGate(t)
  BY <1>4, <1>5, <1>19 DEF EnterExitGate
<1>20. CASE ArriveUpper(t)
  BY <1>4, <1>5, <1>20 DEF ArriveUpper
<1>21. CASE DescendTrail(t)
  BY <1>4, <1>5, <1>21 DEF DescendTrail
<1>22. QED
  BY <1>6, <1>7, <1>8, <1>9, <1>10, <1>11, <1>12, <1>13, <1>14, <1>15, <1>16, <1>17,
     <1>18, <1>19, <1>20, <1>21
     DEF TouristStep

\* Every step of the system keeps the waiting room's accounts.
LEMMA StationNext ==
  ASSUME TypeOK, StationInv, [Next]_vars
  PROVE  StationInv'
<1>1. CASE \E t \in Tourists : TouristStep(t)
  BY <1>1, StationTourist
<1>2. ASSUME sem'["station"] = sem["station"], lower_station_count' = lower_station_count,
             InStation' = InStation, Counted' = Counted
      PROVE  StationInv'
  BY <1>2 DEF StationInv, Places, StationSlots
<1>3. CASE Pause
  <2>1. sem' = sem /\ lower_station_count' = lower_station_count
    BY <1>3 DEF Pause, ipcVars, statVars
  <2>2. InStation' = InStation /\ Counted' = Counted
    BY <1>3 DEF Pause, Blocked, InStation, Counted, At, TypeOK
  <2>3. QED
    BY <1>2, <2>1, <2>2
<1>4. CASE ~(\E t \in Tourists : TouristStep(t)) /\ ~Pause
  <2>1. tpc' = tpc /\ lower_station_count' = lower_station_count
    BY <1>4, WorkersLeaveTouristsAlone
  <2>2. sem'["station"] = sem["station"]
    BY <1>4, WorkersLeaveTouristsAlone DEF TouristSems
  <2>3. InStation' = InStation /\ Counted' = Counted
    BY <2>1 DEF InStation, Counted, At
  <2>4. QED
    BY <1>2, <2>1, <2>2, <2>3
<1>5. QED
  BY <1>1, <1>3, <1>4

\* Initially the waiting room is empty.
LEMMA StationInit == Init => StationInv
<1> SUFFICES ASSUME Init
             PROVE  StationInv
  OBVIOUS
<1>1. Places(InStation) = {} /\ Places(Counted) = {}
  BY DEF Init, TouristInit, InStation, Counted, At, Places
<1>2. sem["station"] = StationCapacity /\ lower_station_count = 0
  BY DEF Init, SemInit, Semaphores
<1>3. QED
  BY <1>1, <1>2, FS_EmptySet, SizesAssumption DEF StationInv

\* The waiting room never holds more than station_capacity persons, families
\* included, and lower_station_count never goes below zero (tourist/main.c).
THEOREM StationAccountingHolds == Spec => []StationAccounting
<1>1. Init => StationInv
  BY StationInit
<1>2. TypeOK /\ StationInv /\ [Next]_vars => StationInv'
  BY StationNext
<1>3. ASSUME TypeOK, StationInv
      PROVE  StationAccounting
  <2>1. /\ sem["station"] \in Nat
        /\ InStation \in SUBSET Tourists /\ Counted \in SUBSET Tourists
    BY <1>3 DEF TypeOK, Semaphores, InStation, Counted, At
  <2>2. Places(Counted) \in SUBSET Places(InStation)
    BY DEF Places, Counted, InStation, At
  <2>3. Cardinality(Places(Counted)) <= Cardinality(Places(InStation))
    BY <2>1, <2>2, PlacesFinite, FS_Subset
  <2>4. Cardinality(Places(Counted)) \in Nat /\ Cardinality(Places(InStation)) \in Nat
    BY <2>1, PlacesFinite
  <2>5. QED
    BY <1>3, <2>1, <2>3, <2>4, SizesAssumption DEF StationInv, StationAccounting
<1>4. QED
  BY <1>1, <1>2, <1>3, TypeCorrect, PTL DEF Spec
-----------------------------------------------------------------------------
(* Waiters *)

\* Without pauses, every blocked tourist is counted or has a token.
WaiterInv == Cardinality(Blocked) = emergency_waiters + sem["clear"]

\* A tourist's move in or out of the sleep on SEM_EMERGENCY_CLEAR.
LEMMA BlockedMove ==
  ASSUME TypeOK, NEW t \in Tourists, NEW a, NEW b, Move(t, a, b)
  PROVE  /\ Cardinality(Blocked) \in Nat
         /\ Cardinality(Blocked)' = Cardinality(Blocked) + Change({"blocked"}, a, b)
<1>1. Blocked = AtIn(Tourists, {"blocked"}) /\ Blocked' = AtIn(Tourists, {"blocked"})'
  BY DEF Blocked, AtIn
<1>2. QED
  BY <1>1, AtInFinite, MoveCard

\* Every step of a tourist keeps the waiters' account: it registers and goes to
\* sleep in one critical section, and wakes up with a token.
LEMMA WaiterTourist ==
  ASSUME TypeOK, WaiterInv, NEW t \in Tourists, TouristStep(t)
  PROVE  WaiterInv'
<1>1. emergency_waiters \in Nat /\ sem["clear"] \in Nat
  BY DEF TypeOK, Semaphores
<1>2. ASSUME NEW s \in {"entry", "exit", "platform", "station"}, NEW n,
             SemWait(s, n) \/ SemPost(s, n)
      PROVE  sem'["clear"] = sem["clear"]
  BY <1>2 DEF TypeOK, SemWait, SemPost, Semaphores
<1>3. ASSUME NEW a, NEW b, Move(t, a, b), Change({"blocked"}, a, b) = 0,
             sem'["clear"] = sem["clear"], emergency_waiters' = emergency_waiters
      PROVE  WaiterInv'
  BY <1>1, <1>3, BlockedMove DEF WaiterInv
<1>4. CASE WaitEmergency(t)
  <2>1. CASE emergency_stop
    <3>1. Move(t, "clear", "blocked") /\ sem' = sem /\ emergency_waiters' = emergency_waiters + 1
      BY <1>1, <1>4, <2>1 DEF WaitEmergency, ipcVars
    <3>2. Change({"blocked"}, "clear", "blocked") = 1
      BY DEF Change
    <3>3. QED
      BY <1>1, <3>1, <3>2, BlockedMove DEF WaiterInv
  <2>2. CASE ~emergency_stop
    <3>1. Move(t, "clear", "send") /\ sem' = sem /\ emergency_waiters' = emergency_waiters
      BY <1>1, <1>4, <2>2 DEF WaitEmergency, ipcVars
    <3>2. Change({"blocked"}, "clear", "send") = 0
      BY DEF Change
    <3>3. QED
      BY <1>3, <3>1, <3>2
  <2>3. QED
    BY <2>1, <2>2
<1>5. CASE EmergencyCleared(t)
  <2>1. Move(t, "blocked", "send") /\ emergency_waiters' = emergency_waiters
    BY <1>5 DEF EmergencyCleared, flagVars
  <2>2. sem'["clear"] = sem["clear"] - 1
    BY <1>5 DEF EmergencyCleared, SemWait, TypeOK, Semaphores
  <2>3. Change({"blocked"}, "blocked", "send") = -1
    BY DEF Change
  <2>4. QED
    BY <1>1, <2>1, <2>2, <2>3, BlockedMove DEF WaiterInv
<1> USE DEF Change, ipcVars, flagVars
<1>6. CASE StartRide(t)
  BY <1>2, <1>3, <1>6 DEF StartRide
<1>7. CASE LeaveForGood(t)
  BY <1>2, <1>3, <1>7 DEF LeaveForGood
<1>8. CASE EnterGate(t)
  BY <1>2, <1>3, <1>8 DEF EnterGate
<1>9. CASE EnterStation(t)
  BY <1>2, <1>3, <1>9 DEF EnterStation
<1>10. CASE CountIn(t)
  BY <1>2, <1>3, <1>10 DEF CountIn
<1>11. CASE EnterPlatform(t)
  BY <1>2, <1>3, <1>11 DEF EnterPlatform
<1>12. CASE CountOut(t)
  BY <1>2, <1>3, <1>12 DEF CountOut
<1>13. CASE LeaveStation(t)
  BY <1>2, <1>3, <1>13 DEF LeaveStation
<1>14. CASE ReadEmergency(t)
  BY <1>2, <1>3, <1>14 DEF ReadEmergency
<1>15. CASE SendRequest(t)
  BY <1>2, <1>3, <1>15 DEF SendRequest
<1>16. CASE Board(t)
  BY <1>2, <1>3, <1>16 DEF Board
<1>17. CASE EnterExitGate(t)
  BY <1>2, <1>3, <1>17 DEF EnterExitGate
<1>18. CASE ArriveUpper(t)
  BY <1>2, <1>3, <1>18 DEF ArriveUpper
<1>19. CASE DescendTrail(t)
  BY <1>2, <1>3, <1>19 DEF DescendTrail
<1>20. QED
  BY <1>4, <1>5, <1>6, <1>7, <1>8, <1>9, <1>10, <1>11, <1>12, <1>13, <1>14, <1>15,
     <1>16, <1>17, <1>18, <1>19
     DEF TouristStep

\* ReleaseWaiters turns every registration into a token; nothing else the workers
\* do touches the account.
LEMMA WaiterWorker ==
  ASSUME TypeOK, WaiterInv, [Next]_vars, ~(\E t \in Tourists : TouristStep(t)), ~Pause
  PROVE  WaiterInv'
<1>1. Blocked' = Blocked
  BY WorkersLeaveTouristsAlone DEF Blocked
<1>2. ASSUME sem'["clear"] = sem["clear"], emergency_waiters' = emergency_waiters
      PROVE  WaiterInv'
  BY <1>1, <1>2 DEF WaiterInv
<1>3. ASSUME NEW s \in {"chairs", "lock"}, NEW n, SemWait(s, n) \/ SemPost(s, n)
      PROVE  sem'["clear"] = sem["clear"]
  BY <1>3 DEF TypeOK, SemWait, SemPost, Semaphores
<1>4. ASSUME NEW w \in Workers, ReleaseWaiters(w)
      PROVE  WaiterInv'
  <2>1. emergency_waiters \in Nat /\ sem["clear"] \in Nat /\ emergency_waiters' = 0
    BY <1>4 DEF TypeOK, Semaphores, ReleaseWaiters
  <2>2. sem'["clear"] = sem["clear"] + emergency_waiters
    BY <1>4 DEF TypeOK, Semaphores, ReleaseWaiters, SemPost
  <2>3. QED
    BY <1>1, <2>1, <2>2 DEF WaiterInv
<1>5. ASSUME NEW w \in Workers, EmergencyStep(w), ~ReleaseWaiters(w)
      PROVE  WaiterInv'
  <2>1. emergency_waiters' = emergency_waiters
    BY <1>5 DEF EmergencyStep, NoDanger, DetectDanger, TriggerSetFlag, TriggerKill,
       TriggerAbort, SignalSeen, AckSetFlag, AckReply, AckClearFlag, ResumeSend,
       ResumeReceive, ResumeKill, ResumeClearFlag, ResumeUnlock, flagVars
  <2>2. sem'["clear"] = sem["clear"]
    BY <1>3, <1>5 DEF EmergencyStep, NoDanger, DetectDanger, TriggerSetFlag, TriggerKill,
       TriggerAbort, SignalSeen, AckSetFlag, AckReply, AckClearFlag, ResumeSend,
       ResumeReceive, ResumeKill, ResumeClearFlag, ResumeUnlock, ipcVars
  <2>3. QED
    BY <1>2, <2>1, <2>2
<1>6. CASE LowerStep /\ ~EmergencyStep("lower")
  <2>1. emergency_waiters' = emergency_waiters
    BY <1>6 DEF LowerStep, LowerCheckFlag, LowerReceive, LowerTimeout, LowerBounce,
       LowerPlace, LowerNoFit, LowerDrop, LowerDispatch, lowerRest, flagVars
  <2>2. DispatchChair => sem'["clear"] = sem["clear"]
    BY <1>3 DEF DispatchChair
  <2>3. sem'["clear"] = sem["clear"]
    BY <1>6, <2>2 DEF LowerStep, LowerCheckFlag, LowerReceive, LowerTimeout, LowerBounce,
       LowerPlace, LowerNoFit, LowerDrop, LowerDispatch, ipcVars
  <2>4. QED
    BY <1>2, <2>1, <2>3
<1>7. CASE UpperStep /\ ~EmergencyStep("upper")
  <2>1. emergency_waiters' = emergency_waiters
    BY <1>7 DEF UpperStep, UpperWait, UpperSleep, UpperReceive, upperRest, flagVars
  <2>2. sem'["clear"] = sem["clear"]
    BY <1>3, <1>7 DEF UpperStep, UpperWait, UpperSleep, UpperReceive, TrackArrival, ipcVars
  <2>3. QED
    BY <1>2, <2>1, <2>2
<1>8. CASE (\E w \in Workers : DurationPasses(w)) \/ CloseStation \/ UNCHANGED vars
  BY <1>2, <1>8 DEF DurationPasses, CloseStation, vars, ipcVars, flagVars
<1>9. QED
  BY <1>4, <1>5, <1>6, <1>7, <1>8 DEF Next, LowerStep, UpperStep, Workers

\* No tourist sleeps through the end of an emergency uncounted, and no token is
\* left to let a later one slip through (ipc_wait_emergency_clear and
\* ipc_release_emergency_waiters), as long as no pause interrupts the wait.
THEOREM WaiterAccountingHolds == Spec => []WaiterAccounting
<1>1. Init => WaiterAccounting
  <2> SUFFICES ASSUME Init
               PROVE  WaiterAccounting
    OBVIOUS
  <2>1. Blocked = {} /\ sem["clear"] = 0 /\ emergency_waiters = 0
    BY DEF Init, TouristInit, Blocked, SemInit, Semaphores
  <2>2. QED
    BY <2>1, FS_EmptySet DEF WaiterAccounting
<1>2. ASSUME TypeOK, WaiterAccounting, [Next]_vars
      PROVE  WaiterAccounting'
  <2> SUFFICES ASSUME pauses' = 0
               PROVE  WaiterInv'
    BY DEF WaiterAccounting, WaiterInv
  <2>1. pauses = 0 /\ ~Pause
    <3>1. Pause => pauses' # 0
      BY <1>2 DEF TypeOK, Pause
    <3>2. CASE \E t \in Tourists : TouristStep(t)
      BY <1>2, <3>1, <3>2, TouristQuiet DEF Quiet
    <3>3. CASE LowerStep /\ ~EmergencyStep("lower")
      BY <1>2, <3>1, <3>3, LowerQuiet DEF Quiet
    <3>4. CASE UpperStep /\ ~EmergencyStep("upper")
      BY <1>2, <3>1, <3>4, UpperQuiet DEF Quiet
    <3>5. CASE (\E w \in Workers : DurationPasses(w)) \/ CloseStation \/ UNCHANGED vars
      BY <1>2, <3>1, <3>5, OtherQuiet DEF Quiet
    <3>6. CASE \E w \in Workers : EmergencyStep(w)
      BY <3>1, <3>6 DEF EmergencyStep, NoDanger, DetectDanger, TriggerSetFlag, TriggerKill,
         TriggerAbort, SignalSeen, AckSetFlag, AckReply, AckClearFlag, ResumeSend,
         ResumeReceive, ResumeKill, ResumeClearFlag, ReleaseWaiters, ResumeUnlock,
         workerRest
    <3>7. QED
      BY <1>2, <3>1, <3>2, <3>3, <3>4, <3>5, <3>6 DEF Next, LowerStep, UpperStep, Workers
  <2>2. WaiterInv
    BY <1>2, <2>1 DEF WaiterAccounting, WaiterInv
  <2>3. QED
    BY <1>2, <2>1, <2>2, WaiterTourist, WaiterWorker
<1>3. QED
  BY <1>1, <1>2, TypeCorrect, PTL DEF Spec
=============================================================================
