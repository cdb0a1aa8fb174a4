----------------------- MODULE RopewayBoardingProofs -----------------------
(***************************************************************************)
(* Proofs about boarding and about the chairs: a tourist is known to the   *)
(* lower worker at most once, no request is lost before the first danger   *)
(* or pause, the chairs under way, their passengers and the upper worker's *)
(* trackers agree, and from all of it: the processes implement Lift.       *)
(***************************************************************************)
EXTENDS RopewayProofs, RopewayLift, FunctionTheorems, SequenceTheorems

-----------------------------------------------------------------------------
(* Positions in a queue *)

\* The positions of a sequence that hold a member of D.
Where(D, s) == {i \in DOMAIN s : s[i] \in D}

\* There are finitely many of them, none in an empty sequence.
LEMMA WhereFinite ==
  ASSUME NEW M, NEW s \in Seq(M), NEW D
  PROVE  /\ IsFiniteSet(Where(D, s)) /\ Cardinality(Where(D, s)) \in Nat
         /\ Cardinality(Where(D, s)) = 0 <=> \A i \in DOMAIN s : s[i] \notin D
         /\ s = <<>> => Cardinality(Where(D, s)) = 0
<1>1. Len(s) \in Nat /\ DOMAIN s = 1..Len(s)
  BY LenProperties
<1>2. IsFiniteSet(1..Len(s))
  BY <1>1, FS_Interval
<1>3. IsFiniteSet(Where(D, s))
  BY <1>1, <1>2, FS_Subset DEF Where
<1>4. Cardinality(Where(D, s)) = 0 <=> \A i \in DOMAIN s : s[i] \notin D
  BY <1>3, FS_EmptySet DEF Where
<1>5. s = <<>> => Cardinality(Where(D, s)) = 0
  BY <1>4
<1>6. QED
  BY <1>3, <1>4, <1>5, FS_CardinalityType

\* A message sent is one more.
LEMMA WhereAppend ==
  ASSUME NEW M, NEW s \in Seq(M), NEW x \in M, NEW D
  PROVE  Cardinality(Where(D, Append(s, x)))
           = Cardinality(Where(D, s)) + (IF x \in D THEN 1 ELSE 0)
<1> DEFINE n == Len(s) + 1
<1>1. /\ Len(s) \in Nat /\ DOMAIN s = 1..Len(s) /\ DOMAIN Append(s, x) = 1..n
      /\ \A i \in 1..Len(s) : Append(s, x)[i] = s[i]
      /\ Append(s, x)[n] = x
  BY LenProperties, AppendProperties
<1>2. IsFiniteSet(Where(D, s)) /\ Cardinality(Where(D, s)) \in Nat
  BY WhereFinite
<1>3. CASE x \in D
  <2>1. Where(D, Append(s, x)) = Where(D, s) \cup {n} /\ n \notin Where(D, s)
    BY <1>1, <1>3 DEF Where
  <2>2. QED
    BY <1>2, <1>3, <2>1, FS_AddElement
<1>4. CASE x \notin D
  <2>1. Where(D, Append(s, x)) = Where(D, s)
    BY <1>1, <1>4 DEF Where
  <2>2. QED
    BY <1>2, <1>4, <2>1
<1>5. QED
  BY <1>3, <1>4

\* A message received is one less.
LEMMA WhereTail ==
  ASSUME NEW M, NEW s \in Seq(M), NEW D, s # <<>>
  PROVE  Cardinality(Where(D, Tail(s)))
           = Cardinality(Where(D, s)) - (IF Head(s) \in D THEN 1 ELSE 0)
<1> DEFINE A == Where(D, s) \ {1}
<1> DEFINE B == Where(D, Tail(s))
<1> DEFINE f == [i \in A |-> i - 1]
<1>1. /\ Len(s) \in Nat \ {0} /\ DOMAIN s = 1..Len(s) /\ Head(s) = s[1]
      /\ DOMAIN Tail(s) = 1..(Len(s) - 1)
      /\ \A i \in 1..(Len(s) - 1) : Tail(s)[i] = s[i + 1]
  BY HeadTailProperties, LenProperties, EmptySeq
<1>2. IsFiniteSet(Where(D, s)) /\ Cardinality(Where(D, s)) \in Nat
  BY WhereFinite
<1>3. /\ IsFiniteSet(A)
      /\ Cardinality(A) = Cardinality(Where(D, s)) - (IF Head(s) \in D THEN 1 ELSE 0)
  <2>1. 1 \in Where(D, s) <=> Head(s) \in D
    BY <1>1 DEF Where
  <2>2. QED
    BY <1>2, <2>1, FS_RemoveElement
<1>4. f \in [A -> B]
  BY <1>1 DEF Where
<1>5. \A i, j \in A : f[i] = f[j] => i = j
  BY <1>1 DEF Where
<1>6. \A k \in B : \E i \in A : f[i] = k
  <2> SUFFICES ASSUME NEW k \in B PROVE \E i \in A : f[i] = k
    OBVIOUS
  <2>1. k + 1 \in A /\ f[k + 1] = k
    BY <1>1 DEF Where
  <2>2. QED
    BY <2>1
<1>7. f \in Bijection(A, B)
  BY <1>4, <1>5, <1>6 DEF Bijection, Injection, Surjection, IsInjective
<1>8. Cardinality(B) = Cardinality(A)
  BY <1>3, <1>7, FS_Bijection DEF ExistsBijection
<1>9. QED
  BY <1>3, <1>8
-----------------------------------------------------------------------------
(* Boarding *)

\* How often a tourist is in a queue of tourists, and how sending and receiving
\* change that.
LEMMA OccurrencesChange ==
  ASSUME NEW s \in Seq(Tourists), NEW t \in Tourists
  PROVE  /\ Occurrences(t, s) \in Nat
         /\ s = <<>> => Occurrences(t, s) = 0
         /\ Contains(s, t) <=> Occurrences(t, s) >= 1
         /\ \A x \in Tourists :
              Occurrences(t, Append(s, x)) = Occurrences(t, s) + (IF x = t THEN 1 ELSE 0)
         /\ s # <<>> =>
              Occurrences(t, Tail(s)) = Occurrences(t, s) - (IF Head(s) = t THEN 1 ELSE 0)
<1>1. \A r : Occurrences(t, r) = Cardinality(Where({t}, r))
  BY DEF Occurrences, Where
<1>2. /\ Cardinality(Where({t}, s)) \in Nat
      /\ Cardinality(Where({t}, s)) = 0 <=> \A i \in DOMAIN s : s[i] \notin {t}
      /\ s = <<>> => Cardinality(Where({t}, s)) = 0
  BY WhereFinite
<1>3. Contains(s, t) <=> Occurrences(t, s) >= 1
  <2>1. DOMAIN s = 1..Len(s)
    BY LenProperties
  <2>2. Contains(s, t) <=> Cardinality(Where({t}, s)) # 0
    BY <1>2, <2>1 DEF Contains
  <2>3. QED
    BY <1>1, <1>2, <2>2
<1>4. \A x \in Tourists :
        Occurrences(t, Append(s, x)) = Occurrences(t, s) + (IF x = t THEN 1 ELSE 0)
  BY <1>1, WhereAppend
<1>5. s # <<>> =>
        Occurrences(t, Tail(s)) = Occurrences(t, s) - (IF Head(s) = t THEN 1 ELSE 0)
  BY <1>1, WhereTail
<1>6. QED
  BY <1>1, <1>2, <1>3, <1>4, <1>5

\* What is under way is a number.
LEMMA UnderWayType ==
  ASSUME TypeOK, NEW t \in Tourists
  PROVE  /\ Occurrences(t, mq_platform[1]) \in Nat /\ Occurrences(t, mq_platform[2]) \in Nat
         /\ Occurrences(t, pending) \in Nat /\ Len(mq_boarding[t]) \in Nat
         /\ UnderWay(t) \in Nat
<1>1. /\ mq_platform[1] \in Seq(Tourists) /\ mq_platform[2] \in Seq(Tourists)
      /\ pending \in Seq(Tourists) /\ mq_boarding[t] \in Seq(Seat)
  BY DEF TypeOK
<1>2. /\ Occurrences(t, mq_platform[1]) \in Nat /\ Occurrences(t, mq_platform[2]) \in Nat
      /\ Occurrences(t, pending) \in Nat /\ Len(mq_boarding[t]) \in Nat
  BY <1>1, OccurrencesChange, LenProperties
<1>3. QED
  BY <1>2 DEF UnderWay

\* The request in hand goes back into the queue.
LEMMA RequeueCount ==
  ASSUME TypeOK, cur \in Tourists, Requeue, NEW t \in Tourists
  PROVE  /\ Occurrences(t, mq_platform[1])'
              = Occurrences(t, mq_platform[1]) + (IF cur = t THEN 1 ELSE 0)
         /\ Occurrences(t, mq_platform[2])' = Occurrences(t, mq_platform[2])
<1>1. mq_platform[1] \in Seq(Tourists)
  BY DEF TypeOK
<1>2. /\ mq_platform'[1] = Append(mq_platform[1], cur)
      /\ mq_platform'[2] = mq_platform[2]
  BY DEF TypeOK, Requeue
<1>3. QED
  BY <1>1, <1>2, OccurrencesChange

\* When the lower worker may lose a request: an interrupted wait makes it drop the
\* one in hand, another one replaces it, or the buffer is full.
KeepsRequests ==
  /\ wpc["lower"] # "drop"
  /\ wpc["lower"] = "receive" => cur = NoTourist
  /\ wpc["lower"] = "recheck" /\ Fits(cur) => Len(pending) < MaxPendingPerChair

\* No step of the lower worker boards anybody once more than it asked for, and
\* only the cases above lose a request.
LEMMA LowerUnderWay ==
  ASSUME TypeOK, CurInHand, LowerStep, ~EmergencyStep("lower"), NEW t \in Tourists
  PROVE  /\ UnderWay(t)' \in Nat /\ UnderWay(t)' <= UnderWay(t)
         /\ KeepsRequests /\ UnderWay(t) <= 1 => UnderWay(t)' = UnderWay(t)
<1> DEFINE P1 == Occurrences(t, mq_platform[1])
           P2 == Occurrences(t, mq_platform[2])
           C == IF cur = t THEN 1 ELSE 0
           Q == Occurrences(t, pending)
           B == Len(mq_boarding[t])
<1>1. P1 \in Nat /\ P2 \in Nat /\ Q \in Nat /\ B \in Nat /\ C \in 0..1
  BY UnderWayType
<1>2. UnderWay(t) = P1 + P2 + C + Q + B /\ UnderWay(t)' = P1' + P2' + C' + Q' + B'
  BY DEF UnderWay
<1>3. t # NoTourist
  BY TouristsAssumption
<1>4. /\ mq_platform \in [1..2 -> Seq(Tourists)] /\ pending \in Seq(Tourists)
      /\ mq_boarding \in [Tourists -> Seq(Seat)]
  BY DEF TypeOK
<1> SUFFICES /\ P1' + P2' + C' + Q' + B' \in Nat
             /\ P1' + P2' + C' + Q' + B' <= P1 + P2 + C + Q + B
             /\ KeepsRequests /\ P1 + P2 + C + Q + B <= 1
                  => P1' + P2' + C' + Q' + B' = P1 + P2 + C + Q + B
  BY <1>2
<1>5. CASE LowerCheckFlag \/ LowerTimeout \/ LowerNoFit
  <2>1. UNCHANGED <<mq_platform, cur, pending, mq_boarding>>
    BY <1>5 DEF LowerCheckFlag, LowerTimeout, LowerNoFit, ipcVars, lowerVars
  <2>2. QED
    BY <1>1, <2>1
<1>6. CASE LowerReceive
  <2>1. UNCHANGED <<pending, mq_boarding>> /\ wpc["lower"] = "receive"
    BY <1>6 DEF LowerReceive, Goto
  <2>2. P1' + P2' + C' = P1 + P2
    <3>1. /\ FirstType \in {1, 2} /\ mq_platform[FirstType] # <<>>
          /\ cur' = Head(mq_platform[FirstType])
          /\ mq_platform' = [mq_platform EXCEPT ![FirstType] = Tail(@)]
      BY <1>6 DEF LowerReceive, FirstType, PlatformEmpty
    <3>2. CASE FirstType = 1
      <4>1. P1' = P1 - C' /\ P2' = P2
        BY <1>4, <3>1, <3>2, OccurrencesChange
      <4>2. QED
        BY <1>1, <4>1
    <3>3. CASE FirstType = 2
      <4>1. P2' = P2 - C' /\ P1' = P1
        BY <1>4, <3>1, <3>3, OccurrencesChange
      <4>2. QED
        BY <1>1, <4>1
    <3>4. QED
      BY <3>1, <3>2, <3>3
  <2>3. KeepsRequests => C = 0
    BY <1>3, <2>1 DEF KeepsRequests
  <2>4. QED
    BY <1>1, <2>1, <2>2, <2>3
<1>7. CASE LowerBounce
  <2>1. UNCHANGED <<pending, mq_boarding>> /\ cur' = NoTourist /\ cur \in Tourists /\ Requeue
    BY <1>7 DEF LowerBounce, CurInHand
  <2>2. P1' = P1 + C /\ P2' = P2
    BY <2>1, RequeueCount
  <2>3. C' = 0
    BY <1>3, <2>1
  <2>4. QED
    BY <1>1, <2>1, <2>2, <2>3
<1>8. CASE LowerPlace
  <2>1. /\ UNCHANGED <<mq_platform, mq_boarding>> /\ cur' = NoTourist /\ cur \in Tourists
        /\ wpc["lower"] = "recheck" /\ Fits(cur)
        /\ pending' = IF Len(pending) < MaxPendingPerChair THEN Append(pending, cur)
                                                           ELSE pending
    BY <1>8 DEF LowerPlace, CurInHand, ipcVars
  <2>2. C' = 0
    BY <1>3, <2>1
  <2>3. Q' = IF Len(pending) < MaxPendingPerChair THEN Q + C ELSE Q
    BY <1>4, <2>1, OccurrencesChange
  <2>4. KeepsRequests => Len(pending) < MaxPendingPerChair
    BY <2>1 DEF KeepsRequests
  <2>5. QED
    BY <1>1, <2>1, <2>2, <2>3, <2>4
<1>9. CASE LowerDrop
  <2>1. UNCHANGED <<mq_platform, pending, mq_boarding>> /\ cur' = NoTourist /\ ~KeepsRequests
    BY <1>9 DEF LowerDrop, Goto, KeepsRequests, ipcVars
  <2>2. C' = 0
    BY <1>3, <2>1
  <2>3. QED
    BY <1>1, <2>1, <2>2
<1>10. CASE LowerDispatch
  <2>1. pending' = <<>> /\ cur' = NoTourist
    BY <1>10 DEF LowerDispatch
  <2>2. Q' = 0 /\ C' = 0
    <3>1. <<>> \in Seq(Tourists)
      OBVIOUS
    <3>2. Occurrences(t, <<>>) = 0
      BY <3>1, OccurrencesChange
    <3>3. QED
      BY <1>3, <2>1, <3>2
  <2>3. P1' = P1 + C /\ P2' = P2
    <3>1. CASE cur \in Tourists
      BY <1>10, <3>1, RequeueCount, TouristsAssumption DEF LowerDispatch
    <3>2. CASE cur = NoTourist
      BY <1>1, <1>3, <1>10, <3>2 DEF LowerDispatch
    <3>3. QED
      BY <3>1, <3>2 DEF TypeOK
  <2>4. B' = B + (IF Q >= 1 THEN 1 ELSE 0)
    <3>1. Contains(pending, t) <=> Q >= 1
      BY <1>4, OccurrencesChange
    <3>2. CASE pending = <<>>
      <4>1. Q = 0
        BY <1>4, <3>2, OccurrencesChange
      <4>2. mq_boarding' = mq_boarding
        BY <1>10, <3>2 DEF LowerDispatch
      <4>3. QED
        BY <1>1, <4>1, <4>2
    <3>3. CASE pending # <<>>
      <4>1. mq_boarding'[t] = IF Contains(pending, t)
              THEN Append(mq_boarding[t], [chair |-> chair_number, n |-> Len(pending)])
              ELSE mq_boarding[t]
        BY <1>10, <3>3 DEF LowerDispatch, DispatchChair
      <4>2. [chair |-> chair_number, n |-> Len(pending)] \in Seat
        BY SizesAssumption DEF TypeOK, Seat, Chairs
      <4>3. QED
        BY <1>1, <1>4, <3>1, <4>1, <4>2, AppendProperties
    <3>4. QED
      BY <3>2, <3>3
  <2> HIDE DEF P1, P2, C, Q, B
  <2>5. CASE Q >= 1
    BY <1>1, <2>2, <2>3, <2>4, <2>5
  <2>6. CASE ~(Q >= 1)
    BY <1>1, <2>2, <2>3, <2>4, <2>6
  <2>7. QED
    BY <2>5, <2>6
<1>11. QED
  BY <1>5, <1>6, <1>7, <1>8, <1>9, <1>10 DEF LowerStep

\* The emergency protocol leaves requests, seats and confirmations alone.
LEMMA EmergencyFrame ==
  ASSUME NEW w \in Workers, EmergencyStep(w)
  PROVE  UNCHANGED <<mq_platform, mq_boarding, mq_arrivals, lowerVars, touristVars, upperVars,
                     pauses, closing>>
BY DEF EmergencyStep, NoDanger, DetectDanger, TriggerSetFlag, TriggerKill, TriggerAbort,
   SignalSeen, AckSetFlag, AckReply, AckClearFlag, ResumeSend, ResumeReceive, ResumeKill,
   ResumeClearFlag, ReleaseWaiters, ResumeUnlock, workerRest, statVars, lowerVars, touristVars,
   upperVars, ipcVars, queueVars

\* Requests and confirmations are touched by nobody but the tourists and the lower
\* worker outside the protocol.
LEMMA BoardingFrame ==
  ASSUME [Next]_vars, ~(\E t \in Tourists : TouristStep(t)),
         ~(LowerStep /\ ~EmergencyStep("lower"))
  PROVE  UNCHANGED <<mq_platform, mq_boarding, lowerVars>>
<1>1. CASE \E w \in Workers : EmergencyStep(w)
  BY <1>1, EmergencyFrame
<1>2. CASE UpperStep /\ ~EmergencyStep("upper")
  BY <1>2 DEF UpperStep, UpperWait, UpperSleep, UpperReceive, upperRest, ipcVars
<1>3. CASE (\E w \in Workers : DurationPasses(w)) \/ CloseStation \/ UNCHANGED vars \/ Pause
  BY <1>3 DEF DurationPasses, CloseStation, Pause, vars, ipcVars, workerRest
<1>4. QED
  BY <1>1, <1>2, <1>3 DEF Next, LowerStep, UpperStep, Workers

\* A tourist's step: only SendRequest and Board concern its request, and each goes
\* with the change of the place where it is expected.
LEMMA TouristUnderWay ==
  ASSUME TypeOK, NEW u \in Tourists, TouristStep(u), NEW t \in Tourists
  PROVE  \/ UnderWay(t)' = UnderWay(t) /\ (tpc'[t] = "confirm" <=> tpc[t] = "confirm")
         \/ UnderWay(t)' = UnderWay(t) + 1 /\ tpc[t] = "send" /\ tpc'[t] = "confirm"
         \/ /\ UnderWay(t)' = UnderWay(t) - 1 /\ UnderWay(t) >= 1
            /\ tpc[t] = "confirm" /\ tpc'[t] = "ride"
<1>1. /\ mq_platform \in [1..2 -> Seq(Tourists)] /\ mq_boarding \in [Tourists -> Seq(Seat)]
      /\ tpc \in [Tourists -> TouristPCs]
  BY DEF TypeOK
<1>2. /\ Occurrences(t, mq_platform[1]) \in Nat /\ Occurrences(t, mq_platform[2]) \in Nat
      /\ Occurrences(t, pending) \in Nat /\ Len(mq_boarding[t]) \in Nat
  BY UnderWayType
<1>3. CASE SendRequest(u)
  <2>1. /\ UNCHANGED <<mq_boarding, cur, pending>>
        /\ mq_platform'[1] = mq_platform[1]
        /\ mq_platform'[2] = Append(mq_platform[2], u)
        /\ tpc[u] = "send" /\ tpc' = [tpc EXCEPT ![u] = "confirm"]
    BY <1>1, <1>3 DEF SendRequest, Move, touristRest, lowerVars
  <2>2. Occurrences(t, mq_platform'[2])
          = Occurrences(t, mq_platform[2]) + (IF u = t THEN 1 ELSE 0)
    BY <1>1, <2>1, OccurrencesChange
  <2>3. CASE u = t
    <3>1. UnderWay(t)' = UnderWay(t) + 1
      BY <1>2, <2>1, <2>2, <2>3 DEF UnderWay
    <3>2. QED
      BY <1>1, <2>1, <2>3, <3>1
  <2>4. CASE u # t
    <3>1. UnderWay(t)' = UnderWay(t)
      BY <1>2, <2>1, <2>2, <2>4 DEF UnderWay
    <3>2. QED
      BY <1>1, <2>1, <2>4, <3>1
  <2>5. QED
    BY <2>3, <2>4
<1>4. CASE Board(u)
  <2>1. /\ UNCHANGED <<mq_platform, cur, pending>> /\ mq_boarding[u] # <<>>
        /\ mq_boarding' = [mq_boarding EXCEPT ![u] = Tail(@)]
        /\ tpc[u] = "confirm" /\ tpc' = [tpc EXCEPT ![u] = "ride"]
    BY <1>4 DEF Board, Move, touristRest, lowerVars
  <2>2. CASE u = t
    <3>1. Len(mq_boarding'[t]) = Len(mq_boarding[t]) - 1 /\ Len(mq_boarding[t]) >= 1
      <4>1. mq_boarding[t] \in Seq(Seat) /\ mq_boarding[t] # <<>>
        BY <1>1, <2>1, <2>2
      <4>2. Len(Tail(mq_boarding[t])) = Len(mq_boarding[t]) - 1 /\ Len(mq_boarding[t]) # 0
        BY <4>1, HeadTailProperties, EmptySeq
      <4>3. mq_boarding'[t] = Tail(mq_boarding[t])
        BY <1>1, <2>1, <2>2
      <4>4. QED
        BY <1>2, <4>2, <4>3
    <3>2. UnderWay(t)' = UnderWay(t) - 1 /\ UnderWay(t) >= 1
      <4>1. UNCHANGED <<mq_platform, cur, pending>>
        BY <2>1
      <4> DEFINE A == Occurrences(t, mq_platform[1]) + Occurrences(t, mq_platform[2])
                        + (IF cur = t THEN 1 ELSE 0) + Occurrences(t, pending)
      <4>2. A \in Nat
        BY <1>2
      <4>3. UnderWay(t) = A + Len(mq_boarding[t])
        BY DEF UnderWay
      <4>4. UnderWay(t)' = A + Len(mq_boarding'[t])
        BY <4>1 DEF UnderWay
      <4> HIDE DEF A
      <4>5. QED
        BY <1>2, <3>1, <4>2, <4>3, <4>4
    <3>3. QED
      BY <1>1, <2>1, <2>2, <3>2
  <2>3. CASE u # t
    <3>1. mq_boarding'[t] = mq_boarding[t]
      BY <1>1, <2>1, <2>3
    <3>2. UnderWay(t)' = UnderWay(t)
      BY <2>1, <3>1 DEF UnderWay
    <3>3. QED
      BY <1>1, <2>1, <2>3, <3>2
  <2>4. QED
    BY <2>2, <2>3
<1>5. CASE ~SendRequest(u) /\ ~Board(u)
  <2>1. UNCHANGED <<mq_platform, mq_boarding, cur, pending>>
    BY <1>5 DEF TouristStep, StartRide, LeaveForGood, EnterGate, EnterStation,
       CountIn, EnterPlatform, CountOut, LeaveStation, ReadEmergency, WaitEmergency,
       EmergencyCleared, EnterExitGate, ArriveUpper, DescendTrail, touristRest, lowerVars,
       ipcVars, queueVars
  <2>2. \E a, b \in TouristPCs \ {"confirm"} : Move(u, a, b)
    BY <1>5 DEF TouristStep, StartRide, LeaveForGood, EnterGate, EnterStation,
       CountIn, EnterPlatform, CountOut, LeaveStation, ReadEmergency, WaitEmergency,
       EmergencyCleared, EnterExitGate, ArriveUpper, DescendTrail, TouristPCs
  <2>3. tpc'[t] = "confirm" <=> tpc[t] = "confirm"
    BY <1>1, <2>2 DEF Move
  <2>4. UnderWay(t)' = UnderWay(t)
    BY <2>1 DEF UnderWay
  <2>5. QED
    BY <2>3, <2>4
<1>6. QED
  BY <1>3, <1>4, <1>5

\* Nobody outside SendRequest and Board changes who waits for a confirmation.
LEMMA ConfirmFrame ==
  ASSUME TypeOK, [Next]_vars, ~(\E t \in Tourists : TouristStep(t)), NEW t \in Tourists
  PROVE  tpc'[t] = "confirm" <=> tpc[t] = "confirm"
<1>1. CASE Pause
  BY <1>1 DEF TypeOK, Pause, Blocked
<1>2. CASE ~Pause
  BY <1>2, WorkersLeaveTouristsAlone
<1>3. QED
  BY <1>1, <1>2

\* Every step keeps NoDoubleBoarding.
LEMMA BoardingNext ==
  ASSUME TypeOK, CurInHand, NoDoubleBoarding, [Next]_vars
  PROVE  NoDoubleBoarding'
<1> SUFFICES ASSUME NEW t \in Tourists
             PROVE  UnderWay(t)' <= IF tpc'[t] = "confirm" THEN 1 ELSE 0
  BY DEF NoDoubleBoarding
<1>1. UnderWay(t) \in Nat /\ UnderWay(t) <= IF tpc[t] = "confirm" THEN 1 ELSE 0
  BY UnderWayType DEF NoDoubleBoarding
<1>2. CASE \E u \in Tourists : TouristStep(u)
  BY <1>1, <1>2, TouristUnderWay
<1>3. CASE ~(\E u \in Tourists : TouristStep(u)) /\ LowerStep /\ ~EmergencyStep("lower")
  <2>1. UnderWay(t)' \in Nat /\ UnderWay(t)' <= UnderWay(t)
    BY <1>3, LowerUnderWay
  <2>2. tpc'[t] = "confirm" <=> tpc[t] = "confirm"
    BY <1>3, ConfirmFrame
  <2>3. QED
    BY <1>1, <2>1, <2>2
<1>4. CASE ~(\E u \in Tourists : TouristStep(u)) /\ ~(LowerStep /\ ~EmergencyStep("lower"))
  <2>1. UNCHANGED <<mq_platform, mq_boarding, cur, pending>>
    BY <1>4, BoardingFrame DEF lowerVars
  <2>2. UnderWay(t)' = UnderWay(t)
    BY <2>1 DEF UnderWay
  <2>3. tpc'[t] = "confirm" <=> tpc[t] = "confirm"
    BY <1>4, ConfirmFrame
  <2>4. QED
    BY <1>1, <2>2, <2>3
<1>5. QED
  BY <1>2, <1>3, <1>4

\* Initially nobody has asked for a seat.
LEMMA BoardingInit == Init => \A t \in Tourists : UnderWay(t) = 0 /\ tpc[t] = "head"
<1> SUFFICES ASSUME Init, NEW t \in Tourists
             PROVE  UnderWay(t) = 0 /\ tpc[t] = "head"
  OBVIOUS
<1>1. /\ mq_platform[1] = <<>> /\ mq_platform[2] = <<>> /\ pending = <<>>
      /\ mq_boarding[t] = <<>> /\ cur # t /\ tpc[t] = "head"
  BY TouristsAssumption DEF Init, LowerInit, TouristInit
<1>2. <<>> \in Seq(Tourists) /\ Len(<<>>) = 0
  OBVIOUS
<1>3. Occurrences(t, <<>>) = 0
  BY <1>2, OccurrencesChange
<1>4. QED
  BY <1>1, <1>2, <1>3 DEF UnderWay

\* Nobody is boarded twice (lower_worker.c): a tourist is in the platform queue, in
\* the worker's hand, in the buffer or in the boarding queue at most once, and only
\* while it waits, for any number of tourists, dangers and interrupted calls.
THEOREM NoDoubleBoardingHolds == Spec => []NoDoubleBoarding
<1>1. Init => NoDoubleBoarding
  BY BoardingInit DEF NoDoubleBoarding
<1>2. TypeOK /\ CurInHand /\ NoDoubleBoarding /\ [Next]_vars => NoDoubleBoarding'
  BY BoardingNext
<1>3. QED
  BY <1>1, <1>2, TypeCorrect, PTL DEF Spec

\* Every buffered tourist takes a slot, and the slots of a chair are limited.
SlotInv == Len(pending) <= chair_slots_used /\ chair_slots_used <= ChairCapacity

\* Before the first danger and the first pause.
Undisturbed == dangers = 0 /\ pauses = 0

\* The workers have not begun the emergency protocol, and a request is in hand only
\* where it is looked at or waits for its chair to go.
Calm ==
  /\ wpc["lower"] \in {"top", "receive", "recheck", "dispatch", "danger"}
  /\ wpc["upper"] \in {"top", "receive", "asleep", "danger"}
  /\ \A w \in Workers : ~is_initiator[w] /\ ~emergency_signal[w]
  /\ ~emergency_stop
  /\ cur # NoTourist => wpc["lower"] \in {"recheck", "dispatch"}

\* The slots of the current chair.
LEMMA SlotNext ==
  ASSUME TypeOK, CurInHand, SlotInv, [Next]_vars
  PROVE  SlotInv'
<1>1. /\ pending \in Seq(Tourists) /\ Len(pending) \in Nat /\ chair_slots_used \in Nat
      /\ ChairCapacity \in Nat
  BY SizesAssumption, LenProperties DEF TypeOK
<1>2. CASE LowerPlace
  <2>1. /\ cur \in Tourists /\ Fits(cur)
        /\ chair_slots_used' = chair_slots_used + ChairSlots(cur)
        /\ pending' = pending \/ pending' = Append(pending, cur)
    BY <1>2 DEF LowerPlace, CurInHand
  <2>2. ChairSlots(cur) \in 1..4
    BY <2>1, SlotsType
  <2>3. Len(pending') = Len(pending) \/ Len(pending') = Len(pending) + 1
    BY <1>1, <2>1, AppendProperties
  <2>4. QED
    BY <1>1, <2>1, <2>2, <2>3 DEF SlotInv, Fits
<1>3. CASE LowerDispatch
  BY <1>1, <1>3 DEF LowerDispatch, SlotInv
<1>4. CASE UNCHANGED <<pending, chair_slots_used>>
  BY <1>4 DEF SlotInv
<1>5. CASE LowerStep /\ ~EmergencyStep("lower") /\ ~LowerPlace /\ ~LowerDispatch
  BY <1>4, <1>5 DEF LowerStep, LowerCheckFlag, LowerReceive, LowerTimeout, LowerBounce,
     LowerNoFit, LowerDrop, lowerVars
<1>6. CASE \E t \in Tourists : TouristStep(t)
  BY <1>4, <1>6 DEF TouristStep, StartRide, LeaveForGood, EnterGate, EnterStation,
     CountIn, EnterPlatform, CountOut, LeaveStation, ReadEmergency, WaitEmergency,
     EmergencyCleared, SendRequest, Board, EnterExitGate, ArriveUpper, DescendTrail,
     touristRest, lowerVars
<1>7. QED
  BY <1>2, <1>3, <1>4, <1>5, <1>6, BoardingFrame DEF lowerVars

\* The first danger is counted, and nothing else starts the protocol.
LEMMA CalmNext ==
  ASSUME TypeOK, Undisturbed => Calm, [Next]_vars
  PROVE  Undisturbed' => Undisturbed /\ Calm'
<1> SUFFICES ASSUME Undisturbed'
             PROVE  Undisturbed /\ Calm'
  OBVIOUS
<1>1. /\ dangers \in Nat /\ pauses \in Nat /\ wpc \in [Workers -> WorkerPCs]
      /\ "lower" \in Workers /\ "upper" \in Workers
  BY SizesAssumption DEF TypeOK, Workers
<1>2. CASE \E t \in Tourists : TouristStep(t)
  <2>1. UNCHANGED <<dangers, pauses, wpc, is_initiator, emergency_signal, emergency_stop, cur>>
    BY <1>2 DEF TouristStep, StartRide, LeaveForGood, EnterGate, EnterStation,
       CountIn, EnterPlatform, CountOut, LeaveStation, ReadEmergency, WaitEmergency,
       EmergencyCleared, SendRequest, Board, EnterExitGate, ArriveUpper, DescendTrail,
       touristRest, workerVars, lowerVars, flagVars
  <2>2. QED
    BY <2>1 DEF Undisturbed, Calm
<1>3. CASE LowerStep /\ ~EmergencyStep("lower")
  <2>1. UNCHANGED <<dangers, pauses, is_initiator, emergency_signal, emergency_stop>>
    BY <1>3 DEF LowerStep, LowerCheckFlag, LowerReceive, LowerTimeout, LowerBounce,
       LowerPlace, LowerNoFit, LowerDrop, LowerDispatch, lowerRest, handshakeVars, flagVars
  <2>2. Undisturbed /\ Calm
    BY <2>1 DEF Undisturbed
  <2>3. /\ wpc'["upper"] = wpc["upper"]
        /\ wpc'["lower"] \in {"top", "receive", "recheck", "dispatch", "danger"}
        /\ cur' # NoTourist => wpc'["lower"] \in {"recheck", "dispatch"}
    BY <1>1, <1>3, <2>2 DEF LowerStep, LowerCheckFlag, LowerReceive, LowerTimeout, LowerBounce,
       LowerPlace, LowerNoFit, LowerDrop, LowerDispatch, Goto, Calm, lowerVars
  <2>4. QED
    BY <2>1, <2>2, <2>3 DEF Calm
<1>4. CASE UpperStep /\ ~EmergencyStep("upper")
  <2>1. UNCHANGED <<dangers, pauses, is_initiator, emergency_signal, emergency_stop, cur>>
    BY <1>4 DEF UpperStep, UpperWait, UpperSleep, UpperReceive, upperRest, handshakeVars,
       flagVars, lowerVars
  <2>2. Undisturbed /\ Calm
    BY <2>1 DEF Undisturbed
  <2>3. /\ wpc'["lower"] = wpc["lower"]
        /\ wpc'["upper"] \in {"top", "receive", "asleep", "danger"}
    BY <1>1, <1>4 DEF UpperStep, UpperWait, UpperSleep, UpperReceive, Goto
  <2>4. QED
    BY <2>1, <2>2, <2>3 DEF Calm
<1>5. ASSUME NEW w \in Workers, EmergencyStep(w)
      PROVE  Undisturbed /\ Calm'
  <2>1. Undisturbed /\ Calm
    BY <1>1, <1>5 DEF EmergencyStep, NoDanger, DetectDanger, TriggerSetFlag, TriggerKill,
       TriggerAbort, SignalSeen, AckSetFlag, AckReply, AckClearFlag, ResumeSend, ResumeReceive,
       ResumeKill, ResumeClearFlag, ReleaseWaiters, ResumeUnlock, workerRest, handshakeVars,
       Undisturbed
  <2>2. NoDanger(w)
    <3>1. ~DetectDanger(w)
      BY <1>1, <2>1 DEF DetectDanger, Undisturbed
    <3>2. wpc[w] \in {"top", "receive", "recheck", "dispatch", "danger", "asleep"}
      BY <2>1 DEF Calm, Workers
    <3>3. ~SignalSeen(w) /\ ~ResumeSend(w)
      BY <2>1 DEF Calm, SignalSeen, ResumeSend
    <3>4. QED
      BY <1>5, <3>1, <3>2, <3>3 DEF EmergencyStep, TriggerSetFlag, TriggerKill,
         TriggerAbort, AckSetFlag, AckReply, AckClearFlag, ResumeReceive,
         ResumeKill, ResumeClearFlag, ReleaseWaiters, ResumeUnlock, Goto, Kill
  <2>3. /\ UNCHANGED <<is_initiator, emergency_signal, emergency_stop, cur>>
        /\ wpc[w] = "danger" /\ wpc' = [wpc EXCEPT ![w] = "top"]
    BY <2>2 DEF NoDanger, Goto, flagVars, handshakeVars, workerRest, lowerVars
  <2>4. QED
    BY <1>1, <2>1, <2>3 DEF Calm, Workers
<1>6. CASE (\E w \in Workers : DurationPasses(w)) \/ CloseStation \/ UNCHANGED vars
  <2>1. UNCHANGED <<dangers, pauses, wpc, is_initiator, emergency_signal, emergency_stop, cur>>
    BY <1>6 DEF DurationPasses, CloseStation, vars, workerRest, workerVars, lowerVars, flagVars
  <2>2. QED
    BY <2>1 DEF Undisturbed, Calm
<1>7. ~Pause
  BY <1>1 DEF Pause, Undisturbed
<1>8. QED
  BY <1>2, <1>3, <1>4, <1>5, <1>6, <1>7 DEF Next, LowerStep, UpperStep, Workers

\* Undisturbed, every step keeps the account of the requests.
LEMMA RequestNext ==
  ASSUME TypeOK, CurInHand, SlotInv, Calm, RequestAccounting, [Next]_vars,
         ChairCapacity <= MaxPendingPerChair
  PROVE  RequestAccounting'
<1> SUFFICES ASSUME NEW t \in Tourists
             PROVE  UnderWay(t)' = IF tpc'[t] = "confirm" THEN 1 ELSE 0
  BY DEF RequestAccounting
<1>1. UnderWay(t) \in Nat /\ UnderWay(t) = IF tpc[t] = "confirm" THEN 1 ELSE 0
  BY UnderWayType DEF RequestAccounting
<1>2. KeepsRequests
  <2>1. wpc["lower"] = "recheck" /\ Fits(cur) => Len(pending) < MaxPendingPerChair
    <3> SUFFICES ASSUME wpc["lower"] = "recheck", Fits(cur)
                 PROVE  Len(pending) < MaxPendingPerChair
      OBVIOUS
    <3>1. ChairSlots(cur) \in 1..4
      BY SlotsType DEF CurInHand
    <3>2. Len(pending) \in Nat /\ chair_slots_used \in Nat
      BY LenProperties DEF TypeOK
    <3>3. QED
      BY <3>1, <3>2, SizesAssumption DEF SlotInv, Fits, MaxPendingPerChair
  <2>2. QED
    BY <2>1 DEF KeepsRequests, Calm
<1>3. CASE \E u \in Tourists : TouristStep(u)
  BY <1>1, <1>3, TouristUnderWay
<1>4. CASE ~(\E u \in Tourists : TouristStep(u)) /\ LowerStep /\ ~EmergencyStep("lower")
  <2>1. UnderWay(t)' = UnderWay(t)
    BY <1>1, <1>2, <1>4, LowerUnderWay
  <2>2. tpc'[t] = "confirm" <=> tpc[t] = "confirm"
    BY <1>4, ConfirmFrame
  <2>3. QED
    BY <1>1, <2>1, <2>2
<1>5. CASE ~(\E u \in Tourists : TouristStep(u)) /\ ~(LowerStep /\ ~EmergencyStep("lower"))
  <2>1. UNCHANGED <<mq_platform, mq_boarding, cur, pending>>
    BY <1>5, BoardingFrame DEF lowerVars
  <2>2. UnderWay(t)' = UnderWay(t)
    BY <2>1 DEF UnderWay
  <2>3. tpc'[t] = "confirm" <=> tpc[t] = "confirm"
    BY <1>5, ConfirmFrame
  <2>4. QED
    BY <1>1, <2>2, <2>3
<1>6. QED
  BY <1>3, <1>4, <1>5

\* Until the first danger or pause no request is lost either (lower_worker.c), as
\* long as a chair has no more slots than g_pending has entries: CHAIR_CAPACITY and
\* MAX_PENDING_PER_CHAIR are both 4.
THEOREM RequestAccountingHolds ==
  ChairCapacity <= MaxPendingPerChair => (Spec => [](Undisturbed => RequestAccounting))
<1> SUFFICES ASSUME ChairCapacity <= MaxPendingPerChair
             PROVE  Spec => [](Undisturbed => RequestAccounting)
  OBVIOUS
<1> DEFINE I == SlotInv /\ (Undisturbed => Calm /\ RequestAccounting)
<1>1. Init => I
  <2>1. Init => SlotInv
    BY SizesAssumption DEF Init, LowerInit, SlotInv
  <2>2. Init => Calm
    BY DEF Init, LowerInit, WorkerInit, Workers, Calm
  <2>3. Init => RequestAccounting
    BY BoardingInit DEF RequestAccounting
  <2>4. QED
    BY <2>1, <2>2, <2>3
<1>2. TypeOK /\ CurInHand /\ I /\ [Next]_vars => I'
  <2> SUFFICES ASSUME TypeOK, CurInHand, I, [Next]_vars PROVE I'
    OBVIOUS
  <2>1. SlotInv'
    BY SlotNext
  <2>2. Undisturbed' => Undisturbed /\ Calm'
    BY CalmNext
  <2>3. Undisturbed' => RequestAccounting'
    BY <2>2, RequestNext
  <2>4. QED
    BY <2>1, <2>2, <2>3
<1>3. QED
  BY <1>1, <1>2, TypeCorrect, PTL DEF Spec
-----------------------------------------------------------------------------
(* Chairs *)

\* The seats a tourist has been given and has not given up: from the confirmation
\* to the message to the upper worker.
SeatsOf(t) ==
  {r \in Seat : \/ tpc[t] \in {"ride", "arrive"} /\ seat[t] = r
                \/ \E i \in DOMAIN mq_boarding[t] : mq_boarding[t][i] = r}

\* The passengers of chair c the upper worker has seen, those that ride and those
\* whose arrival it has not processed yet.
Passengers(c) == arrived[c] + Cardinality(Riders(c)) + Cardinality(Arrivals(c))

\* Every seat and every arrival carries the number of passengers of its chair.
SeatInv ==
  \A t \in Tourists : \A r \in SeatsOf(t) :
    r.chair \in Chairs /\ r.n = Passengers(r.chair)

ArrivalInv ==
  \A i \in DOMAIN mq_arrivals :
    mq_arrivals[i].chair \in Chairs /\ mq_arrivals[i].n = Passengers(mq_arrivals[i].chair)

\* A tracker expects the passengers of its chair, and not all of them have come.
TrackInv ==
  \A c \in Chairs :
    IF expected[c] = 0 THEN arrived[c] = 0
    ELSE expected[c] = Passengers(c) /\ arrived[c] < expected[c]

ChairInv == SeatInv /\ ArrivalInv /\ TrackInv /\ ChairAccounting

\* When the lower worker sends a chair off, the number it takes is not under way.
NumberFree ==
  wpc["lower"] = "dispatch" /\ pending # <<>> /\ sem["chairs"] > 0
    => chair_number \notin InTransit

\* The riders of a chair are the tourists with a seat on it.
RidersSeated == \A c : Riders(c) = {t \in Tourists : \E r \in SeatsOf(t) : r.chair = c}

LEMMA RidersAreSeated == TypeOK => RidersSeated
<1> SUFFICES ASSUME TypeOK, NEW c, NEW t \in Tourists
             PROVE  t \in Riders(c) <=> \E r \in SeatsOf(t) : r.chair = c
  BY DEF RidersSeated, Riders
<1>1. seat[t] \in Seat /\ mq_boarding[t] \in Seq(Seat)
  BY DEF TypeOK
<1>2. \A i \in DOMAIN mq_boarding[t] : mq_boarding[t][i] \in Seat
  BY <1>1, ElementOfSeq, LenProperties
<1>3. QED
  BY <1>1, <1>2 DEF Riders, SeatsOf

\* The sets of riders, arrivals and chairs in transit are finite.
LEMMA ChairSets ==
  ASSUME TypeOK, NEW c
  PROVE  /\ IsFiniteSet(Riders(c)) /\ Cardinality(Riders(c)) \in Nat
         /\ IsFiniteSet(Arrivals(c)) /\ Cardinality(Arrivals(c)) \in Nat
         /\ IsFiniteSet(InTransit) /\ Cardinality(InTransit) \in Nat
         /\ IsFiniteSet(Chairs)
<1>1. IsFiniteSet(Riders(c))
  BY TouristsAssumption, FS_Subset DEF Riders
<1>2. IsFiniteSet(Arrivals(c))
  <2>1. mq_arrivals \in Seq(ArrivalMsg)
    BY DEF TypeOK
  <2>2. IsFiniteSet(DOMAIN mq_arrivals)
    BY <2>1, LenProperties, FS_Interval
  <2>3. QED
    BY <2>2, FS_Subset DEF Arrivals
<1>3. IsFiniteSet(Chairs)
  BY SizesAssumption, FS_Interval DEF Chairs
<1>4. IsFiniteSet(InTransit)
  BY <1>3, FS_Subset DEF InTransit
<1>5. QED
  BY <1>1, <1>2, <1>3, <1>4, FS_CardinalityType

\* A step that moves nobody on or off a chair keeps the chairs' invariant.
LEMMA ChairFrame ==
  ASSUME RidersSeated, RidersSeated', ChairInv,
         \A t \in Tourists : SeatsOf(t)' = SeatsOf(t),
         UNCHANGED <<mq_arrivals, expected, arrived>>, sem'["chairs"] = sem["chairs"]
  PROVE  ChairInv'
<1>1. \A c : Riders(c)' = Riders(c)
  BY DEF RidersSeated
<1>2. \A c : Arrivals(c)' = Arrivals(c)
  BY DEF Arrivals
<1>3. \A c : Passengers(c)' = Passengers(c)
  BY <1>1, <1>2 DEF Passengers
<1>4. InTransit' = InTransit
  BY <1>1, <1>2 DEF InTransit, Tracked
<1>5. QED
  BY <1>3, <1>4 DEF ChairInv, SeatInv, ArrivalInv, TrackInv, ChairAccounting

\* What NoDoubleBoarding says of one tourist.
LEMMA OneSeat ==
  ASSUME TypeOK, NoDoubleBoarding, NEW t \in Tourists
  PROVE  /\ tpc[t] # "confirm" => mq_boarding[t] = <<>>
         /\ Len(mq_boarding[t]) <= 1
         /\ Contains(pending, t) => tpc[t] = "confirm" /\ mq_boarding[t] = <<>>
         /\ \A i, j \in DOMAIN pending : pending[i] = t /\ pending[j] = t => i = j
<1>1. /\ Occurrences(t, mq_platform[1]) \in Nat /\ Occurrences(t, mq_platform[2]) \in Nat
      /\ Occurrences(t, pending) \in Nat /\ Len(mq_boarding[t]) \in Nat
  BY UnderWayType
<1>2. /\ Occurrences(t, pending) + Len(mq_boarding[t]) <= 1
      /\ tpc[t] # "confirm" => Occurrences(t, pending) + Len(mq_boarding[t]) <= 0
  BY <1>1 DEF NoDoubleBoarding, UnderWay
<1>3. /\ mq_boarding[t] \in Seq(Seat) /\ pending \in Seq(Tourists)
      /\ Len(mq_boarding[t]) = 0 => mq_boarding[t] = <<>>
  BY EmptySeq DEF TypeOK
<1>4. Contains(pending, t) => Occurrences(t, pending) >= 1
  BY <1>3, OccurrencesChange
<1>5. ASSUME NEW i \in DOMAIN pending, NEW j \in DOMAIN pending, pending[i] = t, pending[j] = t
      PROVE  i = j
  <2> DEFINE S == {k \in DOMAIN pending : pending[k] = t}
  <2>1. S = Where({t}, pending)
    BY DEF Where
  <2>2. IsFiniteSet(S) /\ Cardinality(S) \in Nat /\ Cardinality(S) <= 1
    <3>1. IsFiniteSet(S)
      <4>1. IsFiniteSet(Where({t}, pending))
        BY <1>3, WhereFinite
      <4>2. QED
        BY <2>1, <4>1
    <3>2. Cardinality(S) = Occurrences(t, pending)
      BY DEF Occurrences
    <3> HIDE DEF S
    <3>3. QED
      BY <1>1, <1>2, <3>1, <3>2
  <2>3. i \in S /\ j \in S
    BY <1>5
  <2> HIDE DEF S
  <2>4. Cardinality(S) = 1
    <3>1. Cardinality(S) # 0
      BY <2>2, <2>3, FS_EmptySet
    <3>2. QED
      BY <2>2, <3>1
  <2>5. \E x : S = {x}
    BY <2>2, <2>4, FS_Singleton
  <2>6. QED
    BY <2>3, <2>5
<1>6. QED
  BY <1>1, <1>2, <1>3, <1>4, <1>5

\* A tourist that waits for its confirmation or is not on the way has no seat, and
\* nobody has two.
LEMMA SeatFacts ==
  ASSUME TypeOK, NoDoubleBoarding, NEW t \in Tourists
  PROVE  /\ tpc[t] \notin {"confirm", "ride", "arrive"} => SeatsOf(t) = {}
         /\ tpc[t] \in {"ride", "arrive"} => SeatsOf(t) = {seat[t]}
         /\ mq_boarding[t] = <<>> /\ tpc[t] = "confirm" => SeatsOf(t) = {}
         /\ mq_boarding[t] # <<>> => SeatsOf(t) = {Head(mq_boarding[t])}
<1>1. seat[t] \in Seat /\ mq_boarding[t] \in Seq(Seat)
  BY DEF TypeOK
<1>2. /\ tpc[t] # "confirm" => mq_boarding[t] = <<>>
      /\ Len(mq_boarding[t]) <= 1
  BY OneSeat
<1>3. mq_boarding[t] = <<>> => DOMAIN mq_boarding[t] = {}
  BY <1>1
<1>4. ASSUME mq_boarding[t] # <<>>
      PROVE  SeatsOf(t) = {Head(mq_boarding[t])}
  <2>1. Len(mq_boarding[t]) \in Nat /\ Len(mq_boarding[t]) # 0
    BY <1>1, <1>4, EmptySeq, LenProperties
  <2>2. DOMAIN mq_boarding[t] = {1} /\ Head(mq_boarding[t]) = mq_boarding[t][1]
    BY <1>1, <1>2, <1>4, <2>1, LenProperties, HeadTailProperties
  <2>3. Head(mq_boarding[t]) \in Seat
    BY <1>1, <1>4, HeadTailProperties
  <2>4. QED
    BY <1>2, <1>4, <2>2, <2>3 DEF SeatsOf
<1>5. QED
  BY <1>1, <1>2, <1>3, <1>4 DEF SeatsOf

\* The buffered tourists are as many as the buffer is long.
LEMMA GroupSize ==
  ASSUME TypeOK, NoDoubleBoarding
  PROVE  /\ IsFiniteSet({t \in Tourists : Contains(pending, t)})
         /\ Cardinality({t \in Tourists : Contains(pending, t)}) = Len(pending)
<1> DEFINE G == {t \in Tourists : Contains(pending, t)}
<1>1. /\ pending \in [1..Len(pending) -> Tourists] /\ Len(pending) \in Nat
      /\ DOMAIN pending = 1..Len(pending)
  BY LenProperties DEF TypeOK
<1>2. pending \in [1..Len(pending) -> G]
  BY <1>1 DEF Contains
<1>3. \A i, j \in 1..Len(pending) : pending[i] = pending[j] => i = j
  BY <1>1, OneSeat
<1>4. \A t \in G : \E i \in 1..Len(pending) : pending[i] = t
  BY DEF Contains
<1>5. pending \in Bijection(1..Len(pending), G)
  BY <1>2, <1>3, <1>4 DEF Bijection, Injection, Surjection, IsInjective
<1>6. IsFiniteSet(1..Len(pending)) /\ Cardinality(1..Len(pending)) = Len(pending)
  <2>1. 1 \in Int /\ Len(pending) \in Int /\ Len(pending) >= 0
    BY <1>1
  <2>2. /\ IsFiniteSet(1..Len(pending))
        /\ Cardinality(1..Len(pending))
             = IF 1 > Len(pending) THEN 0 ELSE Len(pending) - 1 + 1
    BY <2>1, FS_Interval
  <2>3. QED
    BY <2>1, <2>2
<1>7. QED
  BY <1>5, <1>6, FS_Bijection DEF ExistsBijection

\* The tourists placed on the chair that waits (g_pending of lower_worker.c).
Buffered == {t \in Tourists : Contains(pending, t)}

\* What a departure changes: the chair's number was not under way, and the buffered
\* tourists are its riders, each with a seat that tells how many they are.
LEMMA Departure ==
  ASSUME TypeOK, RidersSeated, RidersSeated', NoDoubleBoarding, ChairInv, NumberFree,
         LowerDispatch, pending # <<>>,
         NEW new, new = [chair |-> chair_number, n |-> Len(pending)]
  PROVE  /\ chair_number \in Chairs /\ chair_number \notin InTransit
         /\ sem["chairs"] \in Nat /\ sem["chairs"] > 0 /\ sem'["chairs"] = sem["chairs"] - 1
         /\ Buffered # {} /\ IsFiniteSet(Buffered) /\ Cardinality(Buffered) = Len(pending)
         /\ new.chair = chair_number /\ new.n = Len(pending) /\ Len(pending) \in Nat
         /\ \A t \in Buffered : /\ tpc[t] = "confirm" /\ SeatsOf(t)' = {new}
                                /\ mq_boarding[t] = <<>> /\ mq_boarding'[t] # <<>>
         /\ \A t \in Tourists \ Buffered : /\ mq_boarding'[t] = mq_boarding[t]
                                           /\ SeatsOf(t)' = SeatsOf(t)
         /\ \A c : Riders(c)' = IF c = chair_number THEN Buffered ELSE Riders(c)
         /\ UNCHANGED <<tpc, mq_arrivals, expected, arrived, total_rides>>
<1>0. PICK k, G : k = chair_number /\ G = Buffered
  OBVIOUS
<1>1. /\ DispatchChair /\ wpc["lower"] = "dispatch"
      /\ UNCHANGED <<mq_arrivals, expected, arrived, tpc, seat, total_rides>>
  BY DEF LowerDispatch, Goto, lowerRest, touristVars, upperVars, statVars
<1>2. /\ sem["chairs"] > 0 /\ sem'["chairs"] = sem["chairs"] - 1 /\ sem["chairs"] \in Nat
  BY <1>1 DEF DispatchChair, SemWait, TypeOK, Semaphores
<1>3. k \in Chairs /\ k \notin InTransit
  BY <1>0, <1>1, <1>2 DEF NumberFree, TypeOK
<1>4. Riders(k) = {}
  BY <1>3 DEF InTransit
<1>5. IsFiniteSet(G) /\ Cardinality(G) = Len(pending) /\ Len(pending) \in Nat /\ G # {}
  <2>1. Len(pending) \in Nat \ {0}
    BY EmptySeq DEF TypeOK
  <2>2. IsFiniteSet(G) /\ Cardinality(G) = Len(pending)
    BY <1>0, GroupSize DEF Buffered
  <2>3. QED
    BY <2>1, <2>2, FS_EmptySet
<1>6. new \in Seat /\ new.chair = k /\ new.n = Len(pending)
  BY <1>0, <1>3, <1>5, SizesAssumption DEF Seat, Chairs
<1>7. \A t \in Tourists :
        mq_boarding'[t] = IF t \in G THEN Append(mq_boarding[t], new) ELSE mq_boarding[t]
  BY <1>0, <1>1 DEF DispatchChair, Buffered
<1>8. ASSUME NEW t \in G
      PROVE  /\ tpc[t] = "confirm" /\ mq_boarding[t] = <<>> /\ mq_boarding'[t] = <<new>>
             /\ SeatsOf(t)' = {new} /\ SeatsOf(t) = {}
  <2>1. t \in Tourists /\ tpc[t] = "confirm" /\ mq_boarding[t] = <<>>
    BY <1>0, OneSeat DEF Buffered
  <2>2. mq_boarding'[t] = <<new>>
    <3>1. mq_boarding'[t] = Append(mq_boarding[t], new)
      BY <1>7, <1>8, <2>1
    <3>2. QED
      BY <2>1, <3>1
  <2>3. DOMAIN mq_boarding'[t] = {1} /\ mq_boarding'[t][1] = new
    BY <2>2
  <2>4. SeatsOf(t)' = {new}
    BY <1>1, <1>6, <2>1, <2>3 DEF SeatsOf
  <2>5. QED
    BY <2>1, <2>2, <2>4, SeatFacts
<1>9. \A t \in Tourists \ G : mq_boarding'[t] = mq_boarding[t] /\ SeatsOf(t)' = SeatsOf(t)
  BY <1>1, <1>7 DEF SeatsOf
<1>10. G \subseteq Tourists
  BY <1>0 DEF Buffered
<1>11. \A c : Riders(c)' = IF c = k THEN G ELSE Riders(c)
  BY <1>4, <1>6, <1>8, <1>9, <1>10 DEF RidersSeated
<1>12. <<new>> # <<>>
  OBVIOUS
<1>13. QED
  BY <1>0, <1>1, <1>2, <1>3, <1>5, <1>6, <1>8, <1>9, <1>11, <1>12

\* A chair goes: the invariant.
LEMMA ChairDispatch ==
  ASSUME TypeOK, RidersSeated, RidersSeated', NoDoubleBoarding, ChairInv, NumberFree,
         LowerDispatch, pending # <<>>
  PROVE  ChairInv'
<1>0. PICK k, G, new : /\ k = chair_number /\ G = Buffered
                       /\ new = [chair |-> chair_number, n |-> Len(pending)]
  OBVIOUS
<1>1. /\ k \in Chairs /\ k \notin InTransit
      /\ sem["chairs"] \in Nat /\ sem'["chairs"] = sem["chairs"] - 1
      /\ G # {} /\ IsFiniteSet(G) /\ Cardinality(G) = Len(pending) /\ Len(pending) \in Nat
      /\ new.chair = k /\ new.n = Len(pending)
      /\ \A t \in G : SeatsOf(t)' = {new}
      /\ \A t \in Tourists \ G : SeatsOf(t)' = SeatsOf(t)
      /\ \A c : Riders(c)' = IF c = k THEN G ELSE Riders(c)
      /\ UNCHANGED <<mq_arrivals, expected, arrived>>
  BY <1>0, Departure
<1>2. Riders(k) = {} /\ Arrivals(k) = {} /\ expected[k] = 0 /\ arrived[k] = 0
  BY <1>1 DEF InTransit, Tracked, ChairInv, TrackInv
<1>3. \A c : Arrivals(c)' = Arrivals(c)
  BY <1>1 DEF Arrivals
<1>4. \A c : c # k => Passengers(c)' = Passengers(c)
  BY <1>1, <1>3 DEF Passengers
<1>5. Passengers(k)' = Len(pending)
  <2>1. Riders(k)' = G /\ Arrivals(k)' = {} /\ arrived'[k] = 0
    BY <1>1, <1>2, <1>3
  <2>2. QED
    BY <1>1, <2>1, FS_EmptySet DEF Passengers
<1>6. InTransit' = InTransit \cup {k}
  BY <1>1, <1>3 DEF InTransit, Tracked
<1>7. SeatInv'
  <2> SUFFICES ASSUME NEW t \in Tourists, NEW r \in SeatsOf(t)'
               PROVE  r.chair \in Chairs /\ r.n = Passengers(r.chair)'
    BY DEF SeatInv
  <2>1. CASE t \in G
    BY <1>1, <1>5, <2>1
  <2>2. CASE t \notin G
    <3>1. r \in SeatsOf(t)
      BY <1>1, <2>2
    <3>2. r.chair # k
      BY <1>2, <3>1 DEF RidersSeated
    <3>3. QED
      BY <1>4, <3>1, <3>2 DEF ChairInv, SeatInv
  <2>3. QED
    BY <2>1, <2>2
<1>8. ArrivalInv'
  BY <1>1, <1>2, <1>4 DEF ArrivalInv, ChairInv, Arrivals
<1>9. TrackInv'
  BY <1>1, <1>2, <1>4 DEF TrackInv, ChairInv
<1>10. ChairAccounting'
  <2>1. IsFiniteSet(InTransit) /\ Cardinality(InTransit) \in Nat
    BY ChairSets
  <2>2. Cardinality(InTransit)' = Cardinality(InTransit) + 1
    BY <1>1, <1>6, <2>1, FS_AddElement
  <2>3. QED
    BY <1>1, <2>1, <2>2, SizesAssumption DEF ChairAccounting, ChairInv
<1>11. QED
  BY <1>7, <1>8, <1>9, <1>10 DEF ChairInv

\* Getting off: the passenger's name goes from the riders to the arrivals.
LEMMA GettingOff ==
  ASSUME TypeOK, RidersSeated, RidersSeated', NoDoubleBoarding, ChairInv,
         NEW t \in Tourists, ArriveUpper(t)
  PROVE  LET d == seat[t].chair
             z == Len(mq_arrivals) + 1
         IN  /\ tpc[t] = "arrive" /\ tpc' = [tpc EXCEPT ![t] = "trail"]
             /\ t \in Riders(d) /\ d \in Chairs
             /\ \A u \in Tourists : SeatsOf(u)' = IF u = t THEN {} ELSE SeatsOf(u)
             /\ \A c : Riders(c)' = IF c = d THEN Riders(c) \ {t} ELSE Riders(c)
             /\ z \notin DOMAIN mq_arrivals /\ DOMAIN mq_arrivals' = DOMAIN mq_arrivals \cup {z}
             /\ \A i \in DOMAIN mq_arrivals : mq_arrivals'[i] = mq_arrivals[i]
             /\ mq_arrivals'[z].tourist = t /\ mq_arrivals'[z].chair = d
             /\ mq_arrivals'[z].n = Passengers(d)
             /\ sem'["chairs"] = sem["chairs"]
             /\ UNCHANGED <<mq_boarding, expected, arrived, total_rides>>
<1>0. PICK d, z, m : /\ d = seat[t].chair
                     /\ z = Len(mq_arrivals) + 1
                     /\ m = [tourist |-> t, chair |-> seat[t].chair, n |-> seat[t].n]
  OBVIOUS
<1>1. /\ tpc[t] = "arrive" /\ tpc' = [tpc EXCEPT ![t] = "trail"]
      /\ mq_arrivals' = Append(mq_arrivals, m)
      /\ seat' = [seat EXCEPT ![t] = NoSeat]
      /\ UNCHANGED <<mq_boarding, expected, arrived, total_rides>>
  BY <1>0 DEF ArriveUpper, Move, touristRest, upperVars, statVars
<1>2. sem'["chairs"] = sem["chairs"]
  BY DEF ArriveUpper, SemPost, TypeOK, Semaphores
<1>3. SeatsOf(t) = {seat[t]} /\ mq_boarding[t] = <<>>
  BY <1>1, SeatFacts, OneSeat
<1>4. d \in Chairs /\ seat[t] \in Seat /\ seat[t].n = Passengers(d)
  BY <1>0, <1>3 DEF ChairInv, SeatInv, TypeOK
<1>5. m \in ArrivalMsg /\ m.chair = d /\ m.tourist = t /\ m.n = seat[t].n
  BY <1>0, <1>4 DEF ArrivalMsg, Seat
<1>6. \A u \in Tourists : SeatsOf(u)' = IF u = t THEN {} ELSE SeatsOf(u)
  <2>1. SeatsOf(t)' = {}
    BY <1>1, <1>3 DEF SeatsOf, TypeOK
  <2>2. \A u \in Tourists \ {t} : tpc'[u] = tpc[u] /\ seat'[u] = seat[u]
    BY <1>1 DEF TypeOK
  <2>3. \A u \in Tourists \ {t} : SeatsOf(u)' = SeatsOf(u)
    BY <1>1, <2>2 DEF SeatsOf
  <2>4. QED
    BY <2>1, <2>3
<1>7. /\ Len(mq_arrivals) \in Nat /\ DOMAIN mq_arrivals = 1..Len(mq_arrivals)
      /\ DOMAIN mq_arrivals' = 1..z
      /\ \A i \in 1..Len(mq_arrivals) : mq_arrivals'[i] = mq_arrivals[i]
      /\ mq_arrivals'[z] = m
  BY <1>0, <1>1, <1>5, LenProperties, AppendProperties DEF TypeOK
<1>8. z \notin DOMAIN mq_arrivals /\ DOMAIN mq_arrivals' = DOMAIN mq_arrivals \cup {z}
  BY <1>0, <1>7
<1>9. t \in Riders(d)
  BY <1>0, <1>3 DEF RidersSeated
<1>10. ASSUME NEW c
       PROVE  Riders(c)' = IF c = d THEN Riders(c) \ {t} ELSE Riders(c)
  <2>1. /\ Riders(c) = {u \in Tourists : \E r \in SeatsOf(u) : r.chair = c}
        /\ Riders(c)' = {u \in Tourists : \E r \in SeatsOf(u)' : r.chair = c}
    BY DEF RidersSeated
  <2>2. c # d => t \notin Riders(c)
    BY <1>0, <1>3, <2>1
  <2>3. QED
    BY <1>6, <2>1, <2>2
<1>11. QED
  BY <1>0, <1>1, <1>2, <1>4, <1>5, <1>6, <1>7, <1>8, <1>9, <1>10

\* A passenger gets off: the invariant.
LEMMA ChairArrive ==
  ASSUME TypeOK, RidersSeated, RidersSeated', NoDoubleBoarding, ChairInv,
         NEW t \in Tourists, ArriveUpper(t)
  PROVE  ChairInv'
<1>0. PICK d, z : d = seat[t].chair /\ z = Len(mq_arrivals) + 1
  OBVIOUS
<1>1. /\ t \in Riders(d) /\ d \in Chairs
      /\ \A u \in Tourists : SeatsOf(u)' = IF u = t THEN {} ELSE SeatsOf(u)
      /\ \A c : Riders(c)' = IF c = d THEN Riders(c) \ {t} ELSE Riders(c)
      /\ z \notin DOMAIN mq_arrivals /\ DOMAIN mq_arrivals' = DOMAIN mq_arrivals \cup {z}
      /\ \A i \in DOMAIN mq_arrivals : mq_arrivals'[i] = mq_arrivals[i]
      /\ mq_arrivals'[z].chair = d /\ mq_arrivals'[z].n = Passengers(d)
      /\ sem'["chairs"] = sem["chairs"] /\ UNCHANGED <<expected, arrived>>
  BY <1>0, GettingOff
<1>2. /\ Arrivals(d)' = Arrivals(d) \cup {z} /\ z \notin Arrivals(d)
      /\ \A c : c # d => Arrivals(c)' = Arrivals(c)
  BY <1>1 DEF Arrivals
<1>3. \A c : Passengers(c)' = Passengers(c)
  <2>1. /\ IsFiniteSet(Riders(d)) /\ Cardinality(Riders(d)) \in Nat
        /\ IsFiniteSet(Arrivals(d)) /\ Cardinality(Arrivals(d)) \in Nat
    BY ChairSets
  <2>2. /\ Cardinality(Riders(d))' = Cardinality(Riders(d)) - 1
        /\ Cardinality(Arrivals(d))' = Cardinality(Arrivals(d)) + 1
    <3>1. Cardinality(Riders(d) \ {t}) = Cardinality(Riders(d)) - 1
      BY <1>1, <2>1, FS_RemoveElement
    <3>2. Cardinality(Arrivals(d) \cup {z}) = Cardinality(Arrivals(d)) + 1
      BY <1>2, <2>1, FS_AddElement
    <3>3. QED
      BY <1>1, <1>2, <3>1, <3>2
  <2>3. arrived[d] \in Nat
    BY <1>1 DEF TypeOK
  <2>4. Passengers(d)' = Passengers(d)
    BY <1>1, <2>1, <2>2, <2>3 DEF Passengers
  <2>5. \A c : c # d => Passengers(c)' = Passengers(c)
    BY <1>1, <1>2 DEF Passengers
  <2>6. QED
    BY <2>4, <2>5
<1>4. InTransit' = InTransit
  BY <1>1, <1>2 DEF InTransit, Tracked
<1>5. SeatInv'
  BY <1>1, <1>3 DEF SeatInv, ChairInv
<1>6. ArrivalInv'
  <2> SUFFICES ASSUME NEW i \in DOMAIN mq_arrivals'
               PROVE  (/\ mq_arrivals[i].chair \in Chairs
                       /\ mq_arrivals[i].n = Passengers(mq_arrivals[i].chair))'
    BY DEF ArrivalInv
  <2>1. CASE i = z
    BY <1>1, <1>3, <2>1
  <2>2. CASE i # z
    <3>1. i \in DOMAIN mq_arrivals /\ mq_arrivals'[i] = mq_arrivals[i]
      BY <1>1, <2>2
    <3>2. QED
      BY <1>3, <3>1 DEF ArrivalInv, ChairInv
  <2>3. QED
    BY <2>1, <2>2
<1>7. TrackInv'
  BY <1>1, <1>3 DEF TrackInv, ChairInv
<1>8. QED
  BY <1>1, <1>4, <1>5, <1>6, <1>7 DEF ChairInv, ChairAccounting

\* Receiving an arrival takes it out of the queue.
LEMMA ArrivalsTail ==
  ASSUME NEW s \in Seq(ArrivalMsg), s # <<>>, NEW c
  PROVE  LET On(q) == {i \in DOMAIN q : q[i].chair = c}
         IN  /\ IsFiniteSet(On(Tail(s))) /\ Cardinality(On(Tail(s))) \in Nat
             /\ Cardinality(On(Tail(s)))
                  = Cardinality(On(s)) - (IF Head(s).chair = c THEN 1 ELSE 0)
<1> DEFINE On(q) == {i \in DOMAIN q : q[i].chair = c}
           D == {m \in ArrivalMsg : m.chair = c}
<1>1. ASSUME NEW q \in Seq(ArrivalMsg)
      PROVE  On(q) = Where(D, q)
  <2>1. \A i \in DOMAIN q : q[i] \in ArrivalMsg
    BY ElementOfSeq, LenProperties
  <2>2. QED
    BY <2>1 DEF Where
<1>2. Tail(s) \in Seq(ArrivalMsg) /\ Head(s) \in ArrivalMsg
  BY HeadTailProperties
<1>3. On(s) = Where(D, s) /\ On(Tail(s)) = Where(D, Tail(s))
  BY <1>1, <1>2
<1>4. Head(s) \in D <=> Head(s).chair = c
  BY <1>2
<1> HIDE DEF D
<1>5. IsFiniteSet(Where(D, Tail(s))) /\ Cardinality(Where(D, Tail(s))) \in Nat
  BY <1>2, WhereFinite
<1>6. Cardinality(Where(D, Tail(s)))
        = Cardinality(Where(D, s)) - (IF Head(s) \in D THEN 1 ELSE 0)
  BY WhereTail
<1>7. QED
  BY <1>3, <1>4, <1>5, <1>6

\* The upper worker always finds or makes the tracker, since there are never more
\* chairs in transit than trackers, and both ways it expects what the message says.
LEMMA TrackerFound ==
  ASSUME TypeOK, ChairInv, mq_arrivals # <<>>, MaxChairs <= MaxActiveChairs,
         NEW d, d = Head(mq_arrivals).chair, TrackArrival(d, Head(mq_arrivals).n)
  PROVE  LET n == Passengers(d)
             a == arrived[d] + 1
         IN  /\ d \in Chairs /\ 1 \in Arrivals(d)
             /\ expected' = [expected EXCEPT ![d] = IF a >= n THEN 0 ELSE n]
             /\ arrived' = [arrived EXCEPT ![d] = IF a >= n THEN 0 ELSE a]
             /\ sem'["chairs"] = sem["chairs"] + (IF a >= n THEN 1 ELSE 0)
<1>1. /\ mq_arrivals \in Seq(ArrivalMsg) /\ 1 \in DOMAIN mq_arrivals
      /\ Head(mq_arrivals) = mq_arrivals[1]
  BY EmptySeq, LenProperties DEF TypeOK
<1>2. d \in Chairs /\ 1 \in Arrivals(d) /\ Head(mq_arrivals).n = Passengers(d)
  BY <1>1 DEF ChairInv, ArrivalInv, Arrivals
<1>3. /\ arrived \in [Chairs -> Nat] /\ expected \in [Chairs -> Nat]
      /\ sem \in [Semaphores -> Nat] /\ sem["chairs"] \in Nat /\ "chairs" \in Semaphores
  BY DEF TypeOK, Semaphores
<1>4. d \notin Tracked => Cardinality(Tracked) < MaxActiveChairs
  <2> SUFFICES ASSUME d \notin Tracked PROVE Cardinality(Tracked) < MaxActiveChairs
    OBVIOUS
  <2>1. IsFiniteSet(InTransit) /\ Cardinality(InTransit) \in Nat /\ d \in InTransit
    BY <1>2, ChairSets DEF InTransit
  <2>2. /\ IsFiniteSet(InTransit \ {d})
        /\ Cardinality(InTransit \ {d}) = Cardinality(InTransit) - 1
    BY <2>1, FS_RemoveElement
  <2>3. Tracked \in SUBSET (InTransit \ {d})
    BY DEF Tracked, InTransit
  <2>4. Cardinality(Tracked) <= Cardinality(InTransit) - 1 /\ Cardinality(Tracked) \in Nat
    BY <2>2, <2>3, FS_Subset, FS_CardinalityType
  <2>5. Cardinality(InTransit) <= MaxChairs
    BY <1>3, <2>1, SizesAssumption DEF ChairInv, ChairAccounting
  <2>6. QED
    BY <2>1, <2>4, <2>5, SizesAssumption
<1>5. /\ d \in Tracked => expected[d] = Passengers(d)
      /\ d \notin Tracked => arrived[d] = 0
  BY <1>2 DEF Tracked, ChairInv, TrackInv
<1>6. Passengers(d) \in Nat
  BY <1>2, <1>3, ChairSets DEF Passengers
<1>7. /\ expected' = [expected EXCEPT ![d] =
             IF arrived[d] + 1 >= Passengers(d) THEN 0 ELSE Passengers(d)]
      /\ arrived' = [arrived EXCEPT ![d] =
             IF arrived[d] + 1 >= Passengers(d) THEN 0 ELSE arrived[d] + 1]
      /\ IF arrived[d] + 1 >= Passengers(d) THEN SemPost("chairs", 1) ELSE UNCHANGED sem
  <2>1. CASE d \in Tracked
    BY <1>2, <1>5, <2>1 DEF TrackArrival, ChairComplete
  <2>2. CASE d \notin Tracked
    BY <1>2, <1>4, <1>5, <2>2 DEF TrackArrival, ChairComplete
  <2>3. QED
    BY <2>1, <2>2
<1>8. sem'["chairs"] = sem["chairs"] + (IF arrived[d] + 1 >= Passengers(d) THEN 1 ELSE 0)
  BY <1>3, <1>7 DEF SemPost
<1>9. QED
  BY <1>2, <1>7, <1>8

\* The upper worker processes an arrival; with the last passenger of a chair the
\* chair is given back.
LEMMA ChairUpper ==
  ASSUME TypeOK, RidersSeated, RidersSeated', ChairInv, UpperReceive,
         MaxChairs <= MaxActiveChairs
  PROVE  ChairInv'
<1>0. PICK d, n, a : d = Head(mq_arrivals).chair /\ n = Passengers(d) /\ a = arrived[d]
  OBVIOUS
<1>1. /\ mq_arrivals # <<>> /\ mq_arrivals \in Seq(ArrivalMsg) /\ mq_arrivals' = Tail(mq_arrivals)
      /\ TrackArrival(d, Head(mq_arrivals).n)
      /\ UNCHANGED <<tpc, seat, mq_boarding>>
  BY <1>0 DEF UpperReceive, upperRest, touristVars, TypeOK
<1>2. /\ d \in Chairs /\ 1 \in Arrivals(d)
      /\ expected' = [expected EXCEPT ![d] = IF a + 1 >= n THEN 0 ELSE n]
      /\ arrived' = [arrived EXCEPT ![d] = IF a + 1 >= n THEN 0 ELSE a + 1]
      /\ sem'["chairs"] = sem["chairs"] + (IF a + 1 >= n THEN 1 ELSE 0)
  BY <1>0, <1>1, TrackerFound
<1>3. /\ expected \in [Chairs -> Nat] /\ arrived \in [Chairs -> Nat]
      /\ sem["chairs"] \in Nat /\ a \in Nat
  BY <1>0, <1>2 DEF TypeOK, Semaphores
<1>4. \A t \in Tourists : SeatsOf(t)' = SeatsOf(t)
  BY <1>1 DEF SeatsOf
<1>5. \A c : Riders(c)' = Riders(c)
  BY <1>4 DEF RidersSeated
<1>6. \A c : /\ IsFiniteSet(Riders(c)) /\ Cardinality(Riders(c)) \in Nat
             /\ IsFiniteSet(Arrivals(c)) /\ Cardinality(Arrivals(c)) \in Nat
             /\ IsFiniteSet(InTransit) /\ Cardinality(InTransit) \in Nat
  BY ChairSets
<1>7. ASSUME NEW c
      PROVE  /\ IsFiniteSet(Arrivals(c)')
             /\ Cardinality(Arrivals(c)')
                  = Cardinality(Arrivals(c)) - (IF c = d THEN 1 ELSE 0)
  <2>1. Arrivals(c)' = {i \in DOMAIN Tail(mq_arrivals) : Tail(mq_arrivals)[i].chair = c}
    BY <1>1 DEF Arrivals
  <2>2. QED
    BY <1>0, <1>1, <2>1, ArrivalsTail DEF Arrivals
<1>8. \A c : c # d => /\ Passengers(c)' = Passengers(c)
                      /\ Arrivals(c)' = {} <=> Arrivals(c) = {}
  <2> SUFFICES ASSUME NEW c, c # d
               PROVE  /\ Passengers(c)' = Passengers(c)
                      /\ Arrivals(c)' = {} <=> Arrivals(c) = {}
    OBVIOUS
  <2>1. arrived'[c] = arrived[c]
    BY <1>2, <1>3
  <2>2. Cardinality(Arrivals(c)') = Cardinality(Arrivals(c))
    BY <1>6, <1>7
  <2>3. Passengers(c)' = Passengers(c)
    BY <1>5, <2>1, <2>2 DEF Passengers
  <2>4. Arrivals(c)' = {} <=> Arrivals(c) = {}
    BY <1>6, <1>7, <2>2, FS_EmptySet
  <2>5. QED
    BY <2>3, <2>4
<1>9. /\ n = a + Cardinality(Riders(d)) + Cardinality(Arrivals(d))
      /\ Cardinality(Arrivals(d)) >= 1 /\ n \in Nat
  <2>1. Cardinality(Arrivals(d)) # 0
    BY <1>2, <1>6, FS_EmptySet
  <2>2. QED
    BY <1>0, <1>3, <1>6, <2>1 DEF Passengers
<1>10. /\ Len(mq_arrivals) \in Nat /\ DOMAIN mq_arrivals = 1..Len(mq_arrivals)
       /\ DOMAIN mq_arrivals' = 1..(Len(mq_arrivals) - 1)
       /\ \A i \in 1..(Len(mq_arrivals) - 1) : mq_arrivals'[i] = mq_arrivals[i + 1]
  BY <1>1, LenProperties, HeadTailProperties
<1>11. \A i \in DOMAIN mq_arrivals' : \E j \in DOMAIN mq_arrivals : mq_arrivals'[i] = mq_arrivals[j]
  <2> SUFFICES ASSUME NEW i \in DOMAIN mq_arrivals'
               PROVE  \E j \in DOMAIN mq_arrivals : mq_arrivals'[i] = mq_arrivals[j]
    OBVIOUS
  <2>1. i + 1 \in DOMAIN mq_arrivals /\ mq_arrivals'[i] = mq_arrivals[i + 1]
    BY <1>10
  <2>2. QED
    BY <2>1
<1>12. \A c \in Chairs : c # d => (c \in InTransit' <=> c \in InTransit)
  BY <1>2, <1>3, <1>5, <1>8 DEF InTransit, Tracked
<1>13. d \in InTransit
  BY <1>2 DEF InTransit
<1>14. CASE a + 1 >= n
  <2>1. /\ expected' = [expected EXCEPT ![d] = 0] /\ arrived' = [arrived EXCEPT ![d] = 0]
        /\ sem'["chairs"] = sem["chairs"] + 1
    BY <1>2, <1>14
  <2>2. Cardinality(Riders(d)) = 0 /\ Cardinality(Arrivals(d)') = 0
    BY <1>3, <1>6, <1>7, <1>9, <1>14
  <2>3. Riders(d) = {} /\ Arrivals(d)' = {}
    BY <1>6, <1>7, <2>2, FS_EmptySet
  <2>4. InTransit' = InTransit \ {d}
    <3>1. d \notin InTransit'
      BY <1>2, <1>3, <1>5, <2>1, <2>3 DEF InTransit, Tracked
    <3>2. InTransit \subseteq Chairs /\ InTransit' \subseteq Chairs
      BY DEF InTransit, Chairs
    <3>3. QED
      BY <1>12, <3>1, <3>2
  <2>5. ChairAccounting'
    <3>1. Cardinality(InTransit \ {d}) = Cardinality(InTransit) - 1
      BY <1>6, <1>13, FS_RemoveElement
    <3>2. Cardinality(InTransit)' = Cardinality(InTransit) - 1
      BY <2>4, <3>1
    <3>3. Cardinality(InTransit) \in Nat /\ sem["chairs"] + Cardinality(InTransit) = MaxChairs
      BY <1>6 DEF ChairInv, ChairAccounting
    <3>4. QED
      BY <1>3, <2>1, <3>2, <3>3 DEF ChairAccounting
  <2>6. SeatInv'
    <3>1. \A t \in Tourists : \A r \in SeatsOf(t) : r.chair # d
      BY <2>3 DEF RidersSeated
    <3>2. QED
      BY <1>4, <1>8, <3>1 DEF SeatInv, ChairInv
  <2>7. ArrivalInv'
    <3>1. \A i \in DOMAIN mq_arrivals' : mq_arrivals'[i].chair # d
      BY <2>3 DEF Arrivals
    <3>2. QED
      BY <1>8, <1>11, <3>1 DEF ArrivalInv, ChairInv
  <2>8. TrackInv'
    BY <1>2, <1>3, <1>8, <2>1 DEF TrackInv, ChairInv
  <2>9. QED
    BY <2>5, <2>6, <2>7, <2>8 DEF ChairInv
<1>15. CASE ~(a + 1 >= n)
  <2>1. /\ expected' = [expected EXCEPT ![d] = n] /\ arrived' = [arrived EXCEPT ![d] = a + 1]
        /\ sem'["chairs"] = sem["chairs"] /\ n # 0 /\ a + 1 < n
    BY <1>2, <1>3, <1>9, <1>15
  <2>2. Passengers(d)' = n
    <3>1. arrived'[d] = a + 1 /\ Riders(d)' = Riders(d)
      BY <1>2, <1>3, <1>5, <2>1
    <3>2. QED
      BY <1>3, <1>6, <1>7, <1>9, <3>1 DEF Passengers
  <2>3. \A c : Passengers(c)' = Passengers(c)
    BY <1>0, <1>8, <2>2
  <2>4. InTransit' = InTransit
    <3>1. d \in InTransit'
      BY <1>2, <1>3, <2>1 DEF InTransit, Tracked, Chairs
    <3>2. InTransit \subseteq Chairs /\ InTransit' \subseteq Chairs
      BY DEF InTransit, Chairs
    <3>3. QED
      BY <1>12, <1>13, <3>1, <3>2
  <2>5. SeatInv'
    BY <1>4, <2>3 DEF SeatInv, ChairInv
  <2>6. ArrivalInv'
    BY <1>11, <2>3 DEF ArrivalInv, ChairInv
  <2>7. TrackInv'
    <3>1. expected'[d] = n /\ arrived'[d] = a + 1 /\ Passengers(d)' = n
      BY <1>2, <1>3, <2>1, <2>2
    <3>2. \A c \in Chairs \ {d} : expected'[c] = expected[c] /\ arrived'[c] = arrived[c]
      BY <1>3, <2>1
    <3>3. QED
      BY <2>1, <2>3, <3>1, <3>2 DEF TrackInv, ChairInv
  <2>8. QED
    BY <2>1, <2>4, <2>5, <2>6, <2>7 DEF ChairInv, ChairAccounting
<1>16. QED
  BY <1>14, <1>15

\* A tourist's step other than ArriveUpper moves nobody on or off a chair: Board only
\* takes the seat from the message.
LEMMA TouristSeats ==
  ASSUME TypeOK, NoDoubleBoarding, NEW t \in Tourists, TouristStep(t), ~ArriveUpper(t)
  PROVE  /\ \A u \in Tourists : SeatsOf(u)' = SeatsOf(u)
         /\ UNCHANGED <<mq_arrivals, expected, arrived>> /\ sem'["chairs"] = sem["chairs"]
<1>1. /\ tpc \in [Tourists -> TouristPCs] /\ seat \in [Tourists -> Seat]
      /\ mq_boarding \in [Tourists -> Seq(Seat)]
      /\ sem \in [Semaphores -> Nat]
  BY DEF TypeOK
<1>2. UNCHANGED <<mq_arrivals, expected, arrived>>
  BY DEF TouristStep, StartRide, LeaveForGood, EnterGate, EnterStation,
     CountIn, EnterPlatform, CountOut, LeaveStation, ReadEmergency, WaitEmergency,
     EmergencyCleared, SendRequest, Board, EnterExitGate, DescendTrail, touristRest,
     upperVars, ipcVars, queueVars
<1>3. sem'["chairs"] = sem["chairs"]
  <2>1. ASSUME NEW s \in Semaphores \ {"chairs"}, NEW n, SemWait(s, n) \/ SemPost(s, n)
        PROVE  sem'["chairs"] = sem["chairs"]
    BY <1>1, <2>1 DEF SemWait, SemPost, Semaphores
  <2>2. QED
    BY <2>1 DEF TouristStep, StartRide, LeaveForGood, EnterGate, EnterStation,
       CountIn, EnterPlatform, CountOut, LeaveStation, ReadEmergency, WaitEmergency,
       EmergencyCleared, SendRequest, Board, EnterExitGate, DescendTrail, ipcVars, Semaphores
<1>4. CASE Board(t)
  <2>1. /\ tpc[t] = "confirm" /\ tpc' = [tpc EXCEPT ![t] = "ride"] /\ mq_boarding[t] # <<>>
        /\ seat' = [seat EXCEPT ![t] = Head(mq_boarding[t])]
        /\ mq_boarding' = [mq_boarding EXCEPT ![t] = Tail(@)]
    BY <1>4 DEF Board, Move
  <2>2. SeatsOf(t) = {Head(mq_boarding[t])} /\ Head(mq_boarding[t]) \in Seat
    BY <1>1, <2>1, SeatFacts, HeadTailProperties
  <2>3. DOMAIN Tail(mq_boarding[t]) = {}
    <3>1. /\ mq_boarding[t] \in Seq(Seat) /\ Len(mq_boarding[t]) <= 1
          /\ Len(mq_boarding[t]) \in Nat
      BY <1>1, OneSeat, LenProperties
    <3>2. /\ Tail(mq_boarding[t]) \in Seq(Seat)
          /\ Len(Tail(mq_boarding[t])) = Len(mq_boarding[t]) - 1
      BY <2>1, <3>1, HeadTailProperties
    <3>3. DOMAIN Tail(mq_boarding[t]) = 1..Len(Tail(mq_boarding[t]))
      BY <3>2, LenProperties
    <3>4. QED
      BY <3>1, <3>2, <3>3
  <2>4. /\ tpc'[t] = "ride" /\ seat'[t] = Head(mq_boarding[t])
        /\ mq_boarding'[t] = Tail(mq_boarding[t])
    BY <1>1, <2>1
  <2>5. SeatsOf(t)' = {Head(mq_boarding[t])}
    BY <2>2, <2>3, <2>4 DEF SeatsOf
  <2>6. \A u \in Tourists \ {t} : /\ tpc'[u] = tpc[u] /\ seat'[u] = seat[u]
                                  /\ mq_boarding'[u] = mq_boarding[u]
    BY <1>1, <2>1
  <2>7. \A u \in Tourists \ {t} : SeatsOf(u)' = SeatsOf(u)
    BY <2>6 DEF SeatsOf
  <2>8. QED
    BY <1>2, <1>3, <2>2, <2>5, <2>7
<1>5. CASE ~Board(t)
  <2>1. UNCHANGED <<mq_boarding, seat>>
    BY <1>5 DEF TouristStep, StartRide, LeaveForGood, EnterGate, EnterStation,
       CountIn, EnterPlatform, CountOut, LeaveStation, ReadEmergency, WaitEmergency,
       EmergencyCleared, SendRequest, EnterExitGate, DescendTrail, ipcVars, queueVars
  <2>2. \E a, b : Move(t, a, b) /\ (a \in {"ride", "arrive"} <=> b \in {"ride", "arrive"})
    BY <1>5 DEF TouristStep, StartRide, LeaveForGood, EnterGate, EnterStation,
       CountIn, EnterPlatform, CountOut, LeaveStation, ReadEmergency, WaitEmergency,
       EmergencyCleared, SendRequest, EnterExitGate, DescendTrail
  <2>3. \A u \in Tourists : tpc'[u] \in {"ride", "arrive"} <=> tpc[u] \in {"ride", "arrive"}
    BY <1>1, <2>2 DEF Move
  <2>4. \A u \in Tourists : SeatsOf(u)' = SeatsOf(u)
    BY <2>1, <2>3 DEF SeatsOf
  <2>5. QED
    BY <1>2, <1>3, <2>4
<1>6. QED
  BY <1>4, <1>5

\* Neither do the workers, except where a chair goes or an arrival is processed.
LEMMA WorkerSeats ==
  ASSUME TypeOK, [Next]_vars, ~(\E t \in Tourists : TouristStep(t)), ~UpperReceive,
         ~(LowerDispatch /\ pending # <<>>)
  PROVE  /\ \A u \in Tourists : SeatsOf(u)' = SeatsOf(u)
         /\ UNCHANGED <<mq_arrivals, expected, arrived>> /\ sem'["chairs"] = sem["chairs"]
<1> SUFFICES /\ UNCHANGED <<mq_boarding, seat, mq_arrivals, expected, arrived>>
             /\ sem'["chairs"] = sem["chairs"]
             /\ \A u \in Tourists :
                  tpc'[u] \in {"ride", "arrive"} <=> tpc[u] \in {"ride", "arrive"}
  BY DEF SeatsOf
<1>1. \A u \in Tourists : tpc'[u] \in {"ride", "arrive"} <=> tpc[u] \in {"ride", "arrive"}
  <2>1. CASE Pause
    BY <2>1 DEF TypeOK, Pause, Blocked
  <2>2. CASE ~Pause
    BY <2>2, WorkersLeaveTouristsAlone
  <2>3. QED
    BY <2>1, <2>2
<1>2. ASSUME NEW w \in Workers, EmergencyStep(w)
      PROVE  /\ UNCHANGED <<mq_boarding, seat, mq_arrivals, expected, arrived>>
             /\ sem'["chairs"] = sem["chairs"]
  <2>1. UNCHANGED <<mq_boarding, seat, mq_arrivals, expected, arrived>>
    BY <1>2, EmergencyFrame DEF touristVars, upperVars
  <2>2. ASSUME NEW s \in {"lock", "clear"}, NEW n, SemWait(s, n) \/ SemPost(s, n)
        PROVE  sem'["chairs"] = sem["chairs"]
    BY <2>2 DEF TypeOK, SemWait, SemPost, Semaphores
  <2>3. sem'["chairs"] = sem["chairs"]
    BY <1>2, <2>2 DEF EmergencyStep, NoDanger, DetectDanger, TriggerSetFlag,
       TriggerKill, TriggerAbort, SignalSeen, AckSetFlag, AckReply, AckClearFlag,
       ResumeSend, ResumeReceive, ResumeKill, ResumeClearFlag, ReleaseWaiters,
       ResumeUnlock, ipcVars
  <2>4. QED
    BY <2>1, <2>3
<1>3. CASE LowerStep /\ ~EmergencyStep("lower")
  <2>1. UNCHANGED <<mq_boarding, sem>>
    BY <1>3 DEF LowerStep, LowerCheckFlag, LowerReceive, LowerTimeout, LowerBounce,
       LowerPlace, LowerNoFit, LowerDrop, LowerDispatch, ipcVars
  <2>2. UNCHANGED <<seat, mq_arrivals, expected, arrived>>
    BY <1>3 DEF LowerStep, LowerCheckFlag, LowerReceive, LowerTimeout, LowerBounce,
       LowerPlace, LowerNoFit, LowerDrop, LowerDispatch, ipcVars, lowerRest,
       touristVars, upperVars
  <2>3. QED
    BY <1>1, <2>1, <2>2
<1>4. CASE UpperStep /\ ~EmergencyStep("upper")
  BY <1>1, <1>4 DEF UpperStep, UpperWait, UpperSleep, upperRest, upperVars, touristVars, ipcVars
<1>5. CASE (\E w \in Workers : DurationPasses(w)) \/ CloseStation \/ Pause \/ UNCHANGED vars
  BY <1>1, <1>5 DEF DurationPasses, CloseStation, Pause, vars, ipcVars, touristVars, upperVars,
     workerRest
<1>6. QED
  BY <1>1, <1>2, <1>3, <1>4, <1>5 DEF Next, LowerStep, UpperStep, Workers

\* Every step keeps the chairs' invariant.
LEMMA ChairNext ==
  ASSUME MaxChairs <= MaxActiveChairs, TypeOK, RidersSeated, RidersSeated', NoDoubleBoarding,
         ChairInv, NumberFree, [Next]_vars
  PROVE  ChairInv'
<1>1. ASSUME NEW t \in Tourists, TouristStep(t)
      PROVE  ChairInv'
  <2>1. CASE ArriveUpper(t)
    BY <2>1, ChairArrive
  <2>2. CASE ~ArriveUpper(t)
    BY <1>1, <2>2, TouristSeats, ChairFrame
  <2>3. QED
    BY <2>1, <2>2
<1>2. CASE LowerDispatch /\ pending # <<>>
  BY <1>2, ChairDispatch
<1>3. CASE UpperReceive
  BY <1>3, ChairUpper
<1>4. CASE /\ ~(\E t \in Tourists : TouristStep(t)) /\ ~UpperReceive
           /\ ~(LowerDispatch /\ pending # <<>>)
  BY <1>4, WorkerSeats, ChairFrame
<1>5. QED
  BY <1>1, <1>2, <1>3, <1>4

\* Initially no chair is under way.
LEMMA ChairInit == Init => ChairInv
<1> SUFFICES ASSUME Init PROVE ChairInv
  OBVIOUS
<1>1. /\ \A t \in Tourists : tpc[t] = "head" /\ mq_boarding[t] = <<>>
      /\ mq_arrivals = <<>> /\ sem["chairs"] = MaxChairs
      /\ \A c \in Chairs : expected[c] = 0 /\ arrived[c] = 0
  BY DEF Init, TouristInit, UpperInit, SemInit, Semaphores
<1>2. \A t \in Tourists : SeatsOf(t) = {}
  BY <1>1 DEF SeatsOf
<1>3. SeatInv /\ ArrivalInv /\ TrackInv
  BY <1>1, <1>2 DEF SeatInv, ArrivalInv, TrackInv
<1>4. InTransit = {}
  BY <1>1 DEF InTransit, Tracked, Riders, Arrivals
<1>5. QED
  BY <1>1, <1>3, <1>4, FS_EmptySet, SizesAssumption DEF ChairInv, ChairAccounting

\* The chairs' invariant, as long as no chair number comes round while its last chair
\* is under way.
THEOREM ChairInvariant ==
  MaxChairs <= MaxActiveChairs => (Spec /\ []NumberFree => []ChairInv)
<1> SUFFICES ASSUME MaxChairs <= MaxActiveChairs
             PROVE  Spec /\ []NumberFree => []ChairInv
  OBVIOUS
<1>1. Init => ChairInv
  BY ChairInit
<1>2. TypeOK /\ RidersSeated /\ RidersSeated' /\ NoDoubleBoarding /\ ChairInv /\ NumberFree
        /\ [Next]_vars => ChairInv'
  BY ChairNext
<1>3. QED
  BY <1>1, <1>2, RidersAreSeated, TypeCorrect, NoDoubleBoardingHolds, PTL DEF Spec

\* SEM_CHAIRS and the chairs under way add up (lower_worker.c, upper_worker.c), for
\* any number of tourists and chairs and with interrupted calls: under the two
\* conditions that there are as many trackers as chairs (MAX_ACTIVE_CHAIRS is 64,
\* MAX_CHAIRS_IN_TRANSIT 36) and that no chair departs with a number that is still
\* under way, which the code leaves to the timing.
THEOREM ChairAccountingHolds ==
  MaxChairs <= MaxActiveChairs => (Spec /\ []NumberFree => []ChairAccounting)
<1>1. ChairInv => ChairAccounting
  BY DEF ChairInv
<1>2. QED
  BY <1>1, ChairInvariant, PTL

\* Under the same conditions every tracker of the upper worker is exact: the
\* passengers it has seen and those still to come are the ones it expects, and
\* somebody is to come.
THEOREM TrackerExactHolds ==
  MaxChairs <= MaxActiveChairs => (Spec /\ []NumberFree => []TrackerExact)
<1>1. ChairInv => TrackerExact
  BY DEF ChairInv, TrackInv, TrackerExact, Tracked, Passengers
<1>2. QED
  BY <1>1, ChairInvariant, PTL

\* The numbers of the chairs have not started again: no chair has departed with the
\* last number, TOTAL_CHAIRS (lower_worker.c counts from 1).
FirstRound == [][LowerDispatch => chair_number < TotalChairs]_vars

\* In the first round every chair under way has a number that has been used.
RoundInv == \A c \in InTransit : c < chair_number

\* A chair is under way from its departure, and only from there.
LEMMA InTransitNext ==
  ASSUME MaxChairs <= MaxActiveChairs, TypeOK, RidersSeated, RidersSeated', NoDoubleBoarding,
         ChairInv, NumberFree, [Next]_vars
  PROVE  \/ InTransit' \subseteq InTransit
         \/ LowerDispatch /\ InTransit' \subseteq InTransit \cup {chair_number}
<1>1. ASSUME \A u \in Tourists : SeatsOf(u)' = SeatsOf(u), UNCHANGED <<mq_arrivals, expected>>
      PROVE  InTransit' = InTransit
  <2>1. \A c : Riders(c)' = Riders(c) /\ Arrivals(c)' = Arrivals(c)
    BY <1>1 DEF RidersSeated, Arrivals
  <2>2. QED
    BY <1>1, <2>1 DEF InTransit, Tracked
<1>2. ASSUME NEW t \in Tourists, ArriveUpper(t)
      PROVE  InTransit' \subseteq InTransit
  <2>0. PICK d, z : d = seat[t].chair /\ z = Len(mq_arrivals) + 1
    OBVIOUS
  <2>1. /\ t \in Riders(d) /\ d \in Chairs
        /\ \A c : Riders(c)' = IF c = d THEN Riders(c) \ {t} ELSE Riders(c)
        /\ DOMAIN mq_arrivals' = DOMAIN mq_arrivals \cup {z}
        /\ \A i \in DOMAIN mq_arrivals : mq_arrivals'[i] = mq_arrivals[i]
        /\ mq_arrivals'[z].chair = d
        /\ UNCHANGED expected
    BY <1>2, <2>0, GettingOff
  <2>2. \A c : c # d => Riders(c)' = Riders(c) /\ Arrivals(c)' \subseteq Arrivals(c)
    BY <2>1 DEF Arrivals
  <2>3. d \in InTransit
    BY <2>1 DEF InTransit
  <2>4. QED
    BY <2>1, <2>2, <2>3 DEF InTransit, Tracked
<1>3. ASSUME LowerDispatch, pending # <<>>
      PROVE  InTransit' \subseteq InTransit \cup {chair_number}
  <2>1. /\ \A c : Riders(c)' = IF c = chair_number THEN Buffered ELSE Riders(c)
        /\ UNCHANGED <<mq_arrivals, expected>>
    BY <1>3, Departure
  <2>2. \A c : Arrivals(c)' = Arrivals(c)
    BY <2>1 DEF Arrivals
  <2>3. QED
    BY <2>1, <2>2 DEF InTransit, Tracked
<1>4. ASSUME UpperReceive
      PROVE  InTransit' \subseteq InTransit
  <2>0. PICK d : d = Head(mq_arrivals).chair
    OBVIOUS
  <2>1. /\ mq_arrivals # <<>> /\ mq_arrivals \in Seq(ArrivalMsg)
        /\ mq_arrivals' = Tail(mq_arrivals)
        /\ TrackArrival(d, Head(mq_arrivals).n)
        /\ UNCHANGED <<tpc, seat, mq_boarding>>
    BY <1>4, <2>0 DEF UpperReceive, upperRest, touristVars, TypeOK
  <2>2. \A c : Riders(c)' = Riders(c)
    BY <2>1 DEF Riders
  <2>3. /\ d \in Chairs /\ 1 \in Arrivals(d)
        /\ \E v : expected' = [expected EXCEPT ![d] = v]
    BY <2>0, <2>1, TrackerFound
  <2>4. \A c \in Chairs \ {d} : expected'[c] = expected[c]
    BY <2>3 DEF TypeOK
  <2>5. ASSUME NEW c, Arrivals(c)' # {}
        PROVE  Arrivals(c) # {}
    <3>1. PICK i \in DOMAIN Tail(mq_arrivals) : Tail(mq_arrivals)[i].chair = c
      BY <2>1, <2>5 DEF Arrivals
    <3>2. i + 1 \in DOMAIN mq_arrivals /\ mq_arrivals[i + 1] = Tail(mq_arrivals)[i]
      <4>1. /\ Len(mq_arrivals) \in Nat /\ DOMAIN mq_arrivals = 1..Len(mq_arrivals)
            /\ DOMAIN Tail(mq_arrivals) = 1..(Len(mq_arrivals) - 1)
            /\ \A j \in 1..(Len(mq_arrivals) - 1) : Tail(mq_arrivals)[j] = mq_arrivals[j + 1]
        BY <2>1, HeadTailProperties, LenProperties, EmptySeq
      <4>2. QED
        BY <3>1, <4>1
    <3>3. QED
      BY <3>1, <3>2 DEF Arrivals
  <2>6. d \in InTransit
    BY <2>3 DEF InTransit
  <2>7. QED
    BY <2>2, <2>4, <2>5, <2>6 DEF InTransit, Tracked
<1>5. ASSUME NEW t \in Tourists, TouristStep(t), ~ArriveUpper(t)
      PROVE  InTransit' \subseteq InTransit
  BY <1>1, <1>5, TouristSeats
<1>6. CASE /\ ~(\E t \in Tourists : TouristStep(t)) /\ ~UpperReceive
           /\ ~(LowerDispatch /\ pending # <<>>)
  BY <1>1, <1>6, WorkerSeats
<1>7. QED
  BY <1>2, <1>3, <1>4, <1>5, <1>6

\* The lower worker's chair number changes only when a chair goes.
LEMMA ChairNumberNext ==
  ASSUME TypeOK, [Next]_vars, ~LowerDispatch
  PROVE  chair_number' = chair_number
<1>1. CASE \E t \in Tourists : TouristStep(t)
  BY <1>1 DEF TouristStep, StartRide, LeaveForGood, EnterGate, EnterStation,
     CountIn, EnterPlatform, CountOut, LeaveStation, ReadEmergency, WaitEmergency,
     EmergencyCleared, SendRequest, Board, EnterExitGate, ArriveUpper, DescendTrail,
     touristRest, lowerVars
<1>2. CASE LowerStep /\ ~EmergencyStep("lower")
  BY <1>2 DEF LowerStep, LowerCheckFlag, LowerReceive, LowerTimeout, LowerBounce,
     LowerPlace, LowerNoFit, LowerDrop, lowerVars
<1>3. QED
  BY <1>1, <1>2, BoardingFrame DEF lowerVars

\* In the first round of chair numbers (TOTAL_CHAIRS is 72) no number is used twice,
\* whatever the durations and the interruptions: NumberFree follows from the code.
THEOREM FirstRoundNumberFree ==
  MaxChairs <= MaxActiveChairs => (Spec /\ FirstRound => []NumberFree)
<1> SUFFICES ASSUME MaxChairs <= MaxActiveChairs
             PROVE  Spec /\ FirstRound => []NumberFree
  OBVIOUS
<1>1. TypeOK /\ RoundInv => NumberFree
  BY DEF TypeOK, Chairs, RoundInv, NumberFree
<1>2. Init => RoundInv
  <2> SUFFICES ASSUME Init PROVE InTransit = {}
    BY DEF RoundInv
  <2>1. /\ \A t \in Tourists : tpc[t] = "head" /\ mq_boarding[t] = <<>>
        /\ mq_arrivals = <<>> /\ \A c \in Chairs : expected[c] = 0
    BY DEF Init, TouristInit, UpperInit
  <2>2. QED
    BY <2>1 DEF InTransit, Tracked, Riders, Arrivals
<1>3. ASSUME TypeOK, RidersSeated, RidersSeated', NoDoubleBoarding, ChairInv, RoundInv,
             [Next]_vars, [LowerDispatch => chair_number < TotalChairs]_vars
      PROVE  RoundInv'
  <2>1. NumberFree
    BY <1>1, <1>3
  <2>2. \/ InTransit' \subseteq InTransit
        \/ LowerDispatch /\ InTransit' \subseteq InTransit \cup {chair_number}
    BY <1>3, <2>1, InTransitNext
  <2>3. CASE ~LowerDispatch
    BY <1>3, <2>2, <2>3, ChairNumberNext DEF RoundInv
  <2>4. CASE LowerDispatch
    <3>1. chair_number < TotalChairs
      BY <1>3, <2>4 DEF LowerDispatch, Goto, vars, workerVars, TypeOK, Workers
    <3>2. chair_number \in 1..TotalChairs /\ TotalChairs \in Nat
      BY <1>3, SizesAssumption DEF TypeOK, Chairs
    <3>3. chair_number % TotalChairs = chair_number
      BY <3>1, <3>2
    <3>4. chair_number' = chair_number + 1
      BY <2>4, <3>3 DEF LowerDispatch, NextChair
    <3>5. \A c \in InTransit : c \in Int
      BY DEF InTransit, Chairs
    <3>6. QED
      BY <1>3, <2>2, <3>2, <3>4, <3>5 DEF RoundInv
  <2>5. QED
    BY <2>3, <2>4
<1>4. TypeOK /\ RidersSeated /\ RidersSeated' /\ NoDoubleBoarding /\ ChairInv /\ RoundInv
        /\ [Next]_vars => ChairInv'
  BY <1>1, ChairNext
<1>5. QED
  BY <1>1, <1>2, <1>3, <1>4, ChairInit, RidersAreSeated, TypeCorrect, NoDoubleBoardingHolds,
     PTL DEF Spec, FirstRound

-----------------------------------------------------------------------------
(* The refinement of Lift *)

\* The pairs Lift!Total counts: a tourist and one of the places it needs.
Parts(need, S) == UNION {{t} \X (1..need[t]) : t \in S}

\* One more tourist needs its own places more.
LEMMA PartsAdd ==
  ASSUME NEW need \in [Tourists -> Nat], NEW S \in SUBSET Tourists, NEW t \in Tourists
  PROVE  /\ IsFiniteSet(Parts(need, S)) => IsFiniteSet(Parts(need, S \cup {t}))
         /\ IsFiniteSet(Parts(need, S)) =>
              Cardinality(Parts(need, S \cup {t})) <= Cardinality(Parts(need, S)) + need[t]
<1> DEFINE A == Parts(need, S)
           B == {t} \X (1..need[t])
<1> SUFFICES ASSUME IsFiniteSet(A)
             PROVE  /\ IsFiniteSet(Parts(need, S \cup {t}))
                    /\ Cardinality(Parts(need, S \cup {t})) <= Cardinality(A) + need[t]
  OBVIOUS
<1>1. need[t] \in Nat /\ 1 \in Int
  OBVIOUS
<1>2. IsFiniteSet(1..need[t]) /\ Cardinality(1..need[t]) = need[t]
  <2>1. /\ IsFiniteSet(1..need[t])
        /\ Cardinality(1..need[t]) = IF 1 > need[t] THEN 0 ELSE need[t] - 1 + 1
    BY <1>1, FS_Interval
  <2>2. QED
    BY <1>1, <2>1
<1>3. IsFiniteSet({t}) /\ Cardinality({t}) = 1
  BY FS_Singleton
<1>4. IsFiniteSet(B) /\ Cardinality(B) = 1 * need[t]
  BY <1>2, <1>3, FS_Product
<1>5. Parts(need, S \cup {t}) = A \cup B
  BY DEF Parts
<1> HIDE DEF A, B
<1>6. /\ IsFiniteSet(A \cup B)
      /\ Cardinality(A \cup B) = Cardinality(A) + Cardinality(B) - Cardinality(A \cap B)
  BY <1>4, FS_Union
<1>7. Cardinality(A \cap B) \in Nat
  <2>1. A \cap B \in SUBSET A
    OBVIOUS
  <2>2. QED
    BY <2>1, FS_Subset, FS_CardinalityType
<1>8. Cardinality(A) \in Nat
  BY FS_CardinalityType
<1>9. Cardinality(B) = need[t]
  BY <1>1, <1>4
<1>10. Cardinality(A \cup B) <= Cardinality(A) + need[t]
  BY <1>1, <1>6, <1>7, <1>8, <1>9
<1>11. QED
  BY <1>5, <1>6, <1>10

\* The slots each tourist needs on a chair.
Seats == [t \in Tourists |-> ChairSlots(t)]

\* The buffered tourists need no more slots than the lower worker has counted, and
\* that is no more than a chair has.
LoadInv ==
  /\ IsFiniteSet(Parts(Seats, Buffered))
  /\ Cardinality(Parts(Seats, Buffered)) <= chair_slots_used
  /\ chair_slots_used <= ChairCapacity

\* An empty buffer needs none.
LEMMA NoLoad ==
  ASSUME pending = <<>>
  PROVE  /\ IsFiniteSet(Parts(Seats, Buffered))
         /\ Cardinality(Parts(Seats, Buffered)) = 0
<1>1. Buffered = {}
  BY DEF Buffered, Contains
<1>2. Parts(Seats, Buffered) = {}
  BY <1>1 DEF Parts
<1>3. QED
  BY <1>2, FS_EmptySet

\* The load, step by step.
LEMMA LoadNext ==
  ASSUME TypeOK, CurInHand, LoadInv, [Next]_vars
  PROVE  LoadInv'
<1>1. /\ pending \in Seq(Tourists) /\ Len(pending) \in Nat /\ chair_slots_used \in Nat
      /\ ChairCapacity \in Nat
  BY SizesAssumption, LenProperties DEF TypeOK
<1>2. CASE LowerPlace
  <2>1. /\ cur \in Tourists /\ Fits(cur)
        /\ chair_slots_used' = chair_slots_used + ChairSlots(cur)
        /\ pending' = pending \/ pending' = Append(pending, cur)
    BY <1>2 DEF LowerPlace, CurInHand
  <2>2. ChairSlots(cur) \in Nat /\ Seats \in [Tourists -> Nat] /\ Seats[cur] = ChairSlots(cur)
    BY <2>1, SlotsType DEF Seats
  <2>3. Buffered' = Buffered \/ Buffered' = Buffered \cup {cur}
    <3>1. CASE pending' = pending
      BY <3>1 DEF Buffered
    <3>2. CASE pending' = Append(pending, cur)
      <4>1. \A t \in Tourists : Contains(pending', t) <=> Contains(pending, t) \/ t = cur
        <5> SUFFICES ASSUME NEW t \in Tourists
                     PROVE  Contains(pending', t) <=> Contains(pending, t) \/ t = cur
          OBVIOUS
        <5>1. pending' \in Seq(Tourists)
          BY <1>1, <2>1, <3>2
        <5>2. /\ Contains(pending', t) <=> Occurrences(t, pending') >= 1
              /\ Contains(pending, t) <=> Occurrences(t, pending) >= 1
              /\ Occurrences(t, pending) \in Nat
              /\ Occurrences(t, pending')
                   = Occurrences(t, pending) + (IF cur = t THEN 1 ELSE 0)
          BY <1>1, <2>1, <3>2, <5>1, OccurrencesChange
        <5>3. QED
          BY <5>2
      <4>2. QED
        BY <2>1, <4>1 DEF Buffered
    <3>3. QED
      BY <2>1, <3>1, <3>2
  <2>4. /\ IsFiniteSet(Parts(Seats, Buffered'))
        /\ Cardinality(Parts(Seats, Buffered'))
             <= Cardinality(Parts(Seats, Buffered)) + ChairSlots(cur)
        /\ Cardinality(Parts(Seats, Buffered)) \in Nat
        /\ Cardinality(Parts(Seats, Buffered')) \in Nat
    <3>1. Buffered \in SUBSET Tourists /\ IsFiniteSet(Parts(Seats, Buffered))
      BY DEF Buffered, LoadInv
    <3>2. Cardinality(Parts(Seats, Buffered)) \in Nat
      BY <3>1, FS_CardinalityType
    <3>3. /\ IsFiniteSet(Parts(Seats, Buffered \cup {cur}))
          /\ Cardinality(Parts(Seats, Buffered \cup {cur}))
               <= Cardinality(Parts(Seats, Buffered)) + ChairSlots(cur)
      BY <2>1, <2>2, <3>1, PartsAdd
    <3>4. Cardinality(Parts(Seats, Buffered \cup {cur})) \in Nat
      BY <3>3, FS_CardinalityType
    <3>5. QED
      BY <2>2, <2>3, <3>1, <3>2, <3>3, <3>4
  <2>5. Parts(Seats, Buffered)' = Parts(Seats, Buffered')
    BY DEF Parts, Seats, ChairSlots
  <2>6. QED
    BY <1>1, <2>1, <2>2, <2>4, <2>5 DEF LoadInv, Fits
<1>3. CASE LowerDispatch
  <2>1. pending' = <<>> /\ chair_slots_used' = 0
    BY <1>3 DEF LowerDispatch
  <2>2. /\ IsFiniteSet(Parts(Seats, Buffered))'
        /\ Cardinality(Parts(Seats, Buffered))' = 0
    <3>1. (pending = <<>> => /\ IsFiniteSet(Parts(Seats, Buffered))
                             /\ Cardinality(Parts(Seats, Buffered)) = 0)'
      BY NoLoad, PTL
    <3>2. QED
      BY <2>1, <3>1
  <2>3. QED
    BY <1>1, <2>1, <2>2 DEF LoadInv
<1>4. CASE UNCHANGED <<pending, chair_slots_used>>
  BY <1>4 DEF LoadInv, Buffered, Parts, Seats, ChairSlots
<1>5. CASE LowerStep /\ ~EmergencyStep("lower") /\ ~LowerPlace /\ ~LowerDispatch
  BY <1>4, <1>5 DEF LowerStep, LowerCheckFlag, LowerReceive, LowerTimeout, LowerBounce,
     LowerNoFit, LowerDrop, lowerVars
<1>6. CASE \E t \in Tourists : TouristStep(t)
  BY <1>4, <1>6 DEF TouristStep, StartRide, LeaveForGood, EnterGate, EnterStation,
     CountIn, EnterPlatform, CountOut, LeaveStation, ReadEmergency, WaitEmergency,
     EmergencyCleared, SendRequest, Board, EnterExitGate, ArriveUpper, DescendTrail,
     touristRest, lowerVars
<1>7. QED
  BY <1>2, <1>3, <1>4, <1>5, <1>6, BoardingFrame DEF lowerVars

\* Nobody is on the same chair twice: the arrivals on a chair come from different
\* tourists, and none of them still rides on it.
OncePerChair ==
  \A i \in DOMAIN mq_arrivals :
    /\ mq_arrivals[i].tourist \notin Riders(mq_arrivals[i].chair)
    /\ \A j \in DOMAIN mq_arrivals :
         mq_arrivals[i].tourist = mq_arrivals[j].tourist
           /\ mq_arrivals[i].chair = mq_arrivals[j].chair => i = j

\* Steps that move nobody on or off a chair.
LEMMA OnceFrame ==
  ASSUME OncePerChair, \A c : Riders(c)' = Riders(c), UNCHANGED mq_arrivals
  PROVE  OncePerChair'
BY DEF OncePerChair

\* Checking off: the first arrival leaves the queue, and its chair is given back if
\* nobody else is on it.
LEMMA CheckingOff ==
  ASSUME TypeOK, RidersSeated, RidersSeated', ChairInv, UpperReceive,
         MaxChairs <= MaxActiveChairs
  PROVE  LET d == Head(mq_arrivals).chair
         IN  /\ d \in Chairs /\ 1 \in Arrivals(d) /\ mq_arrivals[1] = Head(mq_arrivals)
             /\ \A c : Riders(c)' = Riders(c)
             /\ Len(mq_arrivals) \in Nat \ {0} /\ DOMAIN mq_arrivals = 1..Len(mq_arrivals)
             /\ DOMAIN mq_arrivals' = 1..(Len(mq_arrivals) - 1)
             /\ \A i \in 1..(Len(mq_arrivals) - 1) : mq_arrivals'[i] = mq_arrivals[i + 1]
             /\ sem'["chairs"] = sem["chairs"]
                  + (IF Riders(d) = {} /\ Arrivals(d) = {1} THEN 1 ELSE 0)
             /\ UNCHANGED <<tpc, mq_boarding, total_rides>>
<1>0. PICK d, n, a : d = Head(mq_arrivals).chair /\ n = Passengers(d) /\ a = arrived[d]
  OBVIOUS
<1>1. /\ mq_arrivals # <<>> /\ mq_arrivals \in Seq(ArrivalMsg) /\ mq_arrivals' = Tail(mq_arrivals)
      /\ TrackArrival(d, Head(mq_arrivals).n)
      /\ UNCHANGED <<tpc, seat, mq_boarding, total_rides>>
  BY <1>0 DEF UpperReceive, upperRest, touristVars, statVars, TypeOK
<1>2. /\ d \in Chairs /\ 1 \in Arrivals(d)
      /\ sem'["chairs"] = sem["chairs"] + (IF a + 1 >= n THEN 1 ELSE 0)
  BY <1>0, <1>1, TrackerFound
<1>3. \A c : Riders(c)' = Riders(c)
  <2>1. \A t \in Tourists : SeatsOf(t)' = SeatsOf(t)
    BY <1>1 DEF SeatsOf
  <2>2. QED
    BY <2>1 DEF RidersSeated
<1>4. /\ Len(mq_arrivals) \in Nat \ {0} /\ DOMAIN mq_arrivals = 1..Len(mq_arrivals)
      /\ DOMAIN mq_arrivals' = 1..(Len(mq_arrivals) - 1)
      /\ \A i \in 1..(Len(mq_arrivals) - 1) : mq_arrivals'[i] = mq_arrivals[i + 1]
      /\ mq_arrivals[1] = Head(mq_arrivals)
  BY <1>1, LenProperties, HeadTailProperties, EmptySeq
<1>5. a + 1 >= n <=> Riders(d) = {} /\ Arrivals(d) = {1}
  <2>1. /\ IsFiniteSet(Riders(d)) /\ Cardinality(Riders(d)) \in Nat
        /\ IsFiniteSet(Arrivals(d)) /\ Cardinality(Arrivals(d)) \in Nat
    BY ChairSets
  <2>2. n = a + Cardinality(Riders(d)) + Cardinality(Arrivals(d)) /\ a \in Nat
    BY <1>0, <1>2 DEF Passengers, TypeOK
  <2>3. Riders(d) = {} <=> Cardinality(Riders(d)) = 0
    BY <2>1, FS_EmptySet
  <2>4. Cardinality(Arrivals(d)) >= 1
    <3>1. Cardinality(Arrivals(d)) # 0
      BY <1>2, <2>1, FS_EmptySet
    <3>2. QED
      BY <2>1, <3>1
  <2>5. Arrivals(d) = {1} <=> Cardinality(Arrivals(d)) = 1
    <3>1. Cardinality(Arrivals(d)) = 1 <=> \E x : Arrivals(d) = {x}
      BY <2>1, FS_Singleton
    <3>2. QED
      BY <1>2, <3>1
  <2>6. QED
    BY <2>1, <2>2, <2>3, <2>4, <2>5
<1>6. QED
  BY <1>0, <1>1, <1>2, <1>3, <1>4, <1>5

\* Nobody is on a chair twice, step by step.
LEMMA OnceNext ==
  ASSUME MaxChairs <= MaxActiveChairs, TypeOK, RidersSeated, RidersSeated', NoDoubleBoarding,
         ChairInv, NumberFree, OncePerChair, [Next]_vars
  PROVE  OncePerChair'
<1>1. ASSUME NEW t \in Tourists, ArriveUpper(t)
      PROVE  OncePerChair'
  <2>0. PICK d, z : d = seat[t].chair /\ z = Len(mq_arrivals) + 1
    OBVIOUS
  <2>1. /\ t \in Riders(d)
        /\ \A c : Riders(c)' = IF c = d THEN Riders(c) \ {t} ELSE Riders(c)
        /\ z \notin DOMAIN mq_arrivals /\ DOMAIN mq_arrivals' = DOMAIN mq_arrivals \cup {z}
        /\ \A i \in DOMAIN mq_arrivals : mq_arrivals'[i] = mq_arrivals[i]
        /\ mq_arrivals'[z].tourist = t /\ mq_arrivals'[z].chair = d
    BY <1>1, <2>0, GettingOff
  <2>2. \A i \in DOMAIN mq_arrivals : ~(mq_arrivals[i].tourist = t /\ mq_arrivals[i].chair = d)
    BY <2>1 DEF OncePerChair
  <2>3. QED
    BY <2>1, <2>2 DEF OncePerChair
<1>2. CASE LowerDispatch /\ pending # <<>>
  <2>1. /\ chair_number \in Chairs /\ chair_number \notin InTransit
        /\ \A c : Riders(c)' = IF c = chair_number THEN Buffered ELSE Riders(c)
        /\ mq_arrivals' = mq_arrivals
    BY <1>2, Departure
  <2>2. \A i \in DOMAIN mq_arrivals : mq_arrivals[i].chair # chair_number
    BY <2>1 DEF InTransit, Arrivals
  <2>3. QED
    BY <2>1, <2>2 DEF OncePerChair
<1>3. CASE UpperReceive
  <2>1. /\ \A c : Riders(c)' = Riders(c)
        /\ Len(mq_arrivals) \in Nat \ {0} /\ DOMAIN mq_arrivals = 1..Len(mq_arrivals)
        /\ DOMAIN mq_arrivals' = 1..(Len(mq_arrivals) - 1)
        /\ \A i \in 1..(Len(mq_arrivals) - 1) : mq_arrivals'[i] = mq_arrivals[i + 1]
    BY <1>3, CheckingOff
  <2>2. \A i \in DOMAIN mq_arrivals' : i \in Int /\ i + 1 \in DOMAIN mq_arrivals
                                       /\ mq_arrivals'[i] = mq_arrivals[i + 1]
    BY <2>1
  <2>3. \A i, j \in DOMAIN mq_arrivals' : i + 1 = j + 1 => i = j
    BY <2>1
  <2>4. QED
    BY <2>1, <2>2, <2>3 DEF OncePerChair
<1>4. CASE /\ ~(\E t \in Tourists : ArriveUpper(t)) /\ ~UpperReceive
           /\ ~(LowerDispatch /\ pending # <<>>)
  <2>1. (\A u \in Tourists : SeatsOf(u)' = SeatsOf(u)) /\ UNCHANGED mq_arrivals
    <3>1. CASE \E t \in Tourists : TouristStep(t)
      BY <1>4, <3>1, TouristSeats
    <3>2. CASE ~(\E t \in Tourists : TouristStep(t))
      BY <1>4, <3>2, WorkerSeats
    <3>3. QED
      BY <3>1, <3>2
  <2>2. \A c : Riders(c)' = Riders(c)
    BY <2>1 DEF RidersSeated
  <2>3. QED
    BY <2>1, <2>2, OnceFrame
<1>5. QED
  BY <1>1, <1>2, <1>3, <1>4

\* Where the refinement mapping puts a tourist, by its program counter.
PlaceFacts ==
  \A t \in Tourists :
    /\ tpc[t] \in {"head", "gate", "station"} => PlaceOf(t) = "below"
    /\ tpc[t] \in StationPCs => PlaceOf(t) = "room"
    /\ tpc[t] \in {"board", "clear", "blocked", "send"} => PlaceOf(t) = "platform"
    /\ tpc[t] = "confirm" =>
         PlaceOf(t) = IF mq_boarding[t] = <<>> THEN "platform" ELSE "chair"
    /\ tpc[t] \in {"ride", "arrive"} => PlaceOf(t) = "chair"
    /\ tpc[t] = "trail" => PlaceOf(t) = "top"
    /\ tpc[t] = "gone" => PlaceOf(t) = "home"

\* That is what PlaceOf says.
LEMMA PlacesKnown == PlaceFacts
BY DEF PlaceFacts, PlaceOf, StationPCs

\* The lift counts with its own instance of FiniteSets.
LEMMA SameCardinality == \A S : L!Cardinality(S) = Cardinality(S)
BY DEF L!Cardinality, Cardinality

\* The lift's waiting room and platform, in terms of the tourists' places.
LEMMA RoomAndPlatform ==
  ASSUME TypeOK
  PROVE  /\ L!AtPlace("room") = InStation
         /\ L!AtPlace("platform") \in SUBSET PlatformHolders
         /\ \A t \in L!AtPlace("platform") : tpc[t] # "pass_out"
<1>1. \A t \in Tourists : tpc[t] \in TouristPCs
  BY DEF TypeOK
<1>2. PlaceFacts
  BY PlacesKnown
<1>3. ASSUME NEW t \in Tourists
      PROVE  PlaceOf(t) = "room" <=> tpc[t] \in StationPCs
  BY <1>1, <1>2 DEF PlaceFacts, TouristPCs, StationPCs
<1>4. ASSUME NEW t \in Tourists, PlaceOf(t) = "platform"
      PROVE  tpc[t] \in {"board", "clear", "blocked", "send", "confirm"}
  BY <1>1, <1>2, <1>4 DEF PlaceFacts, TouristPCs, StationPCs
<1>5. L!AtPlace("room") = InStation
  BY <1>3 DEF L!AtPlace, InStation, At, StationPCs
<1>6. QED
  BY <1>4, <1>5 DEF L!AtPlace, PlatformHolders, At

\* The places in the waiting room the lift counts are the ones StationAccounting does.
LEMMA RoomTotal ==
  ASSUME NEW S \in SUBSET Tourists
  PROVE  L!Total([t \in Tourists |-> StationSlots(t)], S) = Cardinality(Places(S))
<1> DEFINE need == [t \in Tourists |-> StationSlots(t)]
<1>1. \A t \in Tourists : need[t] = StationSlots(t) /\ StationSlots(t) \in 1..3
  BY SlotsType
<1>2. \A t \in Tourists : \A i : i \in 1..StationSlots(t) <=> i \in 1..3 /\ i <= StationSlots(t)
  BY <1>1
<1>3. UNION {{t} \X (1..need[t]) : t \in S} = Places(S)
  <2>1. ASSUME NEW p \in UNION {{t} \X (1..need[t]) : t \in S}
        PROVE  p \in Places(S)
    <3>1. PICK t \in S : p \in {t} \X (1..need[t])
      BY <2>1
    <3>2. PICK i \in 1..StationSlots(t) : p = <<t, i>>
      BY <1>1, <3>1
    <3>3. QED
      BY <1>2, <3>2 DEF Places
  <2>2. ASSUME NEW p \in Places(S)
        PROVE  p \in UNION {{t} \X (1..need[t]) : t \in S}
    <3>1. PICK t \in S, i \in 1..3 : p = <<t, i>> /\ i <= StationSlots(t)
      BY <2>2 DEF Places
    <3>2. p \in {t} \X (1..need[t])
      BY <1>1, <1>2, <3>1
    <3>3. QED
      BY <3>2
  <2>3. QED
    BY <2>1, <2>2
<1>4. QED
  BY <1>3, SameCardinality DEF L!Total

\* A step that moves nobody, as the mapping sees it, is a stutter of the lift.
LEMMA LiftStutter ==
  ASSUME \A t \in Tourists : PlaceOf(t)' = PlaceOf(t), \A c \in Chairs : OnCable(c)' = OnCable(c),
         sem'["chairs"] = sem["chairs"], total_rides' = total_rides
  PROVE  UNCHANGED L!liftVars
<1>1. [t \in Tourists |-> PlaceOf(t)]' = [t \in Tourists |-> PlaceOf(t)]
  OBVIOUS
<1>2. [c \in Chairs |-> OnCable(c)]' = [c \in Chairs |-> OnCable(c)]
  BY DEF Chairs
<1>3. QED
  BY <1>1, <1>2 DEF L!liftVars

\* A tourist's step leaves the cable as it is: getting off only moves the passenger
\* from the riders to the arrivals.
LEMMA TouristCable ==
  ASSUME TypeOK, RidersSeated, RidersSeated', NoDoubleBoarding, ChairInv,
         NEW t \in Tourists, TouristStep(t)
  PROVE  (\A c : OnCable(c)' = OnCable(c)) /\ sem'["chairs"] = sem["chairs"]
<1>1. CASE ArriveUpper(t)
  <2>0. PICK d, z : d = seat[t].chair /\ z = Len(mq_arrivals) + 1
    OBVIOUS
  <2>1. /\ t \in Riders(d)
        /\ \A c : Riders(c)' = IF c = d THEN Riders(c) \ {t} ELSE Riders(c)
        /\ z \notin DOMAIN mq_arrivals /\ DOMAIN mq_arrivals' = DOMAIN mq_arrivals \cup {z}
        /\ \A i \in DOMAIN mq_arrivals : mq_arrivals'[i] = mq_arrivals[i]
        /\ mq_arrivals'[z].tourist = t /\ mq_arrivals'[z].chair = d
        /\ sem'["chairs"] = sem["chairs"]
    BY <1>1, <2>0, GettingOff
  <2>2. ASSUME NEW c
        PROVE  {mq_arrivals[i].tourist : i \in Arrivals(c)}'
                 = {mq_arrivals[i].tourist : i \in Arrivals(c)} \cup (IF c = d THEN {t} ELSE {})
    <3>1. Arrivals(c)' = Arrivals(c) \cup (IF c = d THEN {z} ELSE {})
      BY <2>1 DEF Arrivals
    <3>2. \A i \in Arrivals(c) : mq_arrivals'[i] = mq_arrivals[i]
      BY <2>1 DEF Arrivals
    <3>3. QED
      BY <2>1, <3>1, <3>2
  <2>3. QED
    BY <2>1, <2>2 DEF OnCable
<1>2. CASE ~ArriveUpper(t)
  <2>1. /\ \A u \in Tourists : SeatsOf(u)' = SeatsOf(u)
        /\ mq_arrivals' = mq_arrivals /\ sem'["chairs"] = sem["chairs"]
    BY <1>2, TouristSeats
  <2>2. \A c : Riders(c)' = Riders(c)
    BY <2>1 DEF RidersSeated
  <2>3. QED
    BY <2>1, <2>2 DEF OnCable, Arrivals
<1>3. QED
  BY <1>1, <1>2

\* A tourist's step as a move of the lift's people.
LEMMA LiftMove ==
  ASSUME TypeOK, NEW t \in Tourists, NEW a, NEW b, Move(t, a, b),
         \A u \in Tourists \ {t} : mq_boarding'[u] = mq_boarding[u],
         NEW x, NEW y, PlaceOf(t) = x, PlaceOf(t)' = y
  PROVE  L!Move(t, x, y)
<1>1. \A u \in Tourists \ {t} : tpc'[u] = tpc[u]
  BY DEF Move, TypeOK
<1>2. \A u \in Tourists \ {t} : PlaceOf(u)' = PlaceOf(u)
  BY <1>1 DEF PlaceOf
<1>3. [u \in Tourists |-> PlaceOf(u)]' = [[u \in Tourists |-> PlaceOf(u)] EXCEPT ![t] = y]
  BY <1>2
<1>4. QED
  BY <1>3 DEF L!Move

\* Every step of a tourist is one of the lift, or none.
LEMMA LiftTourist ==
  ASSUME TypeOK, RidersSeated, RidersSeated', NoDoubleBoarding, ChairInv,
         GateAccounting, StationAccounting, NEW t \in Tourists, TouristStep(t)
  PROVE  [L!Next]_(L!liftVars)
<1>1. /\ \A c : OnCable(c)' = OnCable(c)
      /\ sem'["chairs"] = sem["chairs"]
  BY TouristCable
<1>2. /\ tpc \in [Tourists -> TouristPCs] /\ total_rides \in Nat
      /\ mq_boarding \in [Tourists -> Seq(Seat)]
      /\ sem["station"] \in Nat /\ sem["platform"] \in Nat
  BY DEF TypeOK, Semaphores
<1>3. PlaceFacts
  BY PlacesKnown
<1>4. PlaceFacts'
  BY PlacesKnown, PTL
<1>5. [c \in Chairs |-> OnCable(c)]' = [c \in Chairs |-> OnCable(c)]
  BY <1>1 DEF Chairs
<1>6. ASSUME NEW a, NEW b, Move(t, a, b), PlaceOf(t)' = PlaceOf(t),
             \A u \in Tourists \ {t} : mq_boarding'[u] = mq_boarding[u], total_rides' = total_rides
      PROVE  UNCHANGED L!liftVars
  <2>1. \A u \in Tourists \ {t} : tpc'[u] = tpc[u]
    BY <1>2, <1>6 DEF Move
  <2>2. \A u \in Tourists \ {t} : PlaceOf(u)' = PlaceOf(u)
    BY <1>6, <2>1 DEF PlaceOf
  <2>3. QED
    BY <1>1, <1>6, <2>2, LiftStutter
<1>7. ASSUME NEW a, NEW b, Move(t, a, b)
      PROVE  tpc[t] = a /\ tpc'[t] = b
  BY <1>2, <1>7 DEF Move
<1>8. CASE EnterStation(t)
  <2>1. /\ Move(t, "station", "count") /\ SemWait("station", StationSlots(t))
        /\ UNCHANGED <<mq_boarding, total_rides>>
    BY <1>8 DEF EnterStation, queueVars, statVars
  <2>2. PlaceOf(t) = "below" /\ PlaceOf(t)' = "room"
    BY <1>3, <1>4, <1>7, <2>1 DEF PlaceFacts, StationPCs
  <2>3. L!Move(t, "below", "room")
    BY <2>1, <2>2, LiftMove
  <2>4. L!Total([u \in Tourists |-> StationSlots(u)], L!AtPlace("room"))
          + StationSlots(t) <= StationCapacity
    <3>1. InStation \in SUBSET Tourists
      BY DEF InStation, At
    <3>2. L!Total([u \in Tourists |-> StationSlots(u)], L!AtPlace("room"))
            = Cardinality(Places(InStation))
      BY <3>1, RoomAndPlatform, RoomTotal
    <3>3. Cardinality(Places(InStation)) \in Nat /\ StationSlots(t) \in 1..3
      BY <3>1, PlacesFinite, SlotsType
    <3>4. sem["station"] >= StationSlots(t)
      BY <2>1 DEF SemWait
    <3>5. sem["station"] + Cardinality(Places(InStation)) = StationCapacity
      BY DEF StationAccounting
    <3>6. QED
      BY <1>2, <3>2, <3>3, <3>4, <3>5
  <2>5. L!EnterRoom(t)
    BY <1>1, <1>5, <2>1, <2>3, <2>4 DEF L!EnterRoom
  <2>6. QED
    BY <2>5 DEF L!Next
<1>9. CASE LeaveForGood(t)
  <2>1. Move(t, "head", "gone") /\ UNCHANGED <<mq_boarding, total_rides>>
    BY <1>9 DEF LeaveForGood, ipcVars, statVars
  <2>2. PlaceOf(t) = "below" /\ PlaceOf(t)' = "home"
    BY <1>3, <1>4, <1>7, <2>1 DEF PlaceFacts
  <2>3. L!Move(t, "below", "home")
    BY <2>1, <2>2, LiftMove
  <2>4. L!GoHome(t)
    BY <1>1, <1>5, <2>1, <2>3 DEF L!GoHome
  <2>5. QED
    BY <2>4 DEF L!Next
<1>10. CASE LeaveStation(t)
  <2>1. /\ Move(t, "scared_out", "gone") \/ Move(t, "pass_out", "board")
        /\ UNCHANGED <<mq_boarding, total_rides>>
    BY <1>10 DEF LeaveStation, queueVars, statVars
  <2>2. CASE Move(t, "scared_out", "gone")
    <3>1. PlaceOf(t) = "room" /\ PlaceOf(t)' = "home"
      BY <1>3, <1>4, <1>7, <2>2 DEF PlaceFacts, StationPCs
    <3>2. L!Move(t, "room", "home")
      BY <2>1, <2>2, <3>1, LiftMove
    <3>3. L!GoHome(t)
      BY <1>1, <1>5, <2>1, <3>2 DEF L!GoHome
    <3>4. QED
      BY <3>3 DEF L!Next
  <2>3. CASE Move(t, "pass_out", "board")
    <3>1. PlaceOf(t) = "room" /\ PlaceOf(t)' = "platform"
      BY <1>3, <1>4, <1>7, <2>3 DEF PlaceFacts, StationPCs
    <3>2. L!Move(t, "room", "platform")
      BY <2>1, <2>3, <3>1, LiftMove
    <3>3. L!Cardinality(L!AtPlace("platform")) < PlatformGates
      <4>1. tpc[t] = "pass_out"
        BY <1>7, <2>3
      <4>2. IsFiniteSet(PlatformHolders) /\ Cardinality(PlatformHolders) \in Nat
        BY HolderSets, AtInFinite
      <4>3. t \in PlatformHolders
        BY <4>1 DEF PlatformHolders, At
      <4>4. /\ IsFiniteSet(PlatformHolders \ {t})
            /\ Cardinality(PlatformHolders \ {t}) = Cardinality(PlatformHolders) - 1
        BY <4>2, <4>3, FS_RemoveElement
      <4>5. L!AtPlace("platform") \in SUBSET (PlatformHolders \ {t})
        BY <4>1, RoomAndPlatform
      <4>6. /\ Cardinality(L!AtPlace("platform")) \in Nat
            /\ Cardinality(L!AtPlace("platform")) <= Cardinality(PlatformHolders) - 1
        BY <4>4, <4>5, FS_Subset, FS_CardinalityType
      <4>7. sem["platform"] + Cardinality(PlatformHolders) = PlatformGates
        BY DEF GateAccounting
      <4>8. Cardinality(L!AtPlace("platform")) < PlatformGates
        BY <1>2, <4>2, <4>6, <4>7
      <4>9. QED
        BY <4>8, SameCardinality
    <3>4. L!EnterPlatform(t)
      BY <1>1, <1>5, <2>1, <3>2, <3>3 DEF L!EnterPlatform
    <3>5. QED
      BY <3>4 DEF L!Next
  <2>4. QED
    BY <2>1, <2>2, <2>3
<1>11. CASE ArriveUpper(t)
  <2>1. Move(t, "arrive", "trail") /\ UNCHANGED <<mq_boarding, total_rides>>
    BY <1>11 DEF ArriveUpper, statVars
  <2>2. PlaceOf(t) = "chair" /\ PlaceOf(t)' = "top"
    BY <1>3, <1>4, <1>7, <2>1 DEF PlaceFacts
  <2>3. L!Move(t, "chair", "top")
    BY <2>1, <2>2, LiftMove
  <2>4. L!GetOff(t)
    BY <1>1, <1>5, <2>1, <2>3 DEF L!GetOff
  <2>5. QED
    BY <2>4 DEF L!Next
<1>12. CASE DescendTrail(t)
  <2>1. PICK b \in {"gone", "head"} : Move(t, "trail", b)
    BY <1>12 DEF DescendTrail
  <2>2. total_rides' = total_rides + 1 + KidCount[t] /\ UNCHANGED mq_boarding
    BY <1>12 DEF DescendTrail, ipcVars
  <2>3. PICK y \in {"below", "home"} : PlaceOf(t) = "top" /\ PlaceOf(t)' = y
    BY <1>3, <1>4, <1>7, <2>1 DEF PlaceFacts
  <2>4. L!Move(t, "top", y)
    BY <2>1, <2>2, <2>3, LiftMove
  <2>5. total_rides' = total_rides + [u \in Tourists |-> 1 + KidCount[u]][t]
    <3>1. KidCount[t] \in Nat
      BY TouristsAssumption
    <3>2. [u \in Tourists |-> 1 + KidCount[u]][t] = 1 + KidCount[t]
      OBVIOUS
    <3>3. total_rides' = total_rides + (1 + KidCount[t])
      <4>1. total_rides \in Nat /\ total_rides' = total_rides + 1 + KidCount[t]
        BY <1>2, <2>2
      <4>2. QED
        BY <3>1, <4>1
    <3>4. QED
      BY <3>2, <3>3
  <2>6. L!Descend(t)
    BY <1>1, <1>5, <2>3, <2>4, <2>5 DEF L!Descend
  <2>7. QED
    BY <2>6 DEF L!Next
<1>13. CASE SendRequest(t)
  <2>1. Move(t, "send", "confirm") /\ UNCHANGED <<mq_boarding, total_rides>>
    BY <1>13 DEF SendRequest, statVars
  <2>2. mq_boarding[t] = <<>>
    BY <1>7, <2>1, OneSeat
  <2>3. PlaceOf(t) = "platform" /\ PlaceOf(t)' = "platform"
    BY <1>3, <1>4, <1>7, <2>1, <2>2 DEF PlaceFacts
  <2>4. QED
    BY <1>6, <2>1, <2>3
<1>14. CASE Board(t)
  <2>1. /\ Move(t, "confirm", "ride") /\ mq_boarding[t] # <<>> /\ UNCHANGED total_rides
        /\ mq_boarding' = [mq_boarding EXCEPT ![t] = Tail(@)]
    BY <1>14 DEF Board, statVars
  <2>2. PlaceOf(t) = "chair" /\ PlaceOf(t)' = "chair"
    BY <1>3, <1>4, <1>7, <2>1 DEF PlaceFacts
  <2>3. \A u \in Tourists \ {t} : mq_boarding'[u] = mq_boarding[u]
    BY <1>2, <2>1
  <2>4. QED
    BY <1>6, <2>1, <2>2, <2>3
<1>15. CASE \/ StartRide(t) \/ EnterGate(t) \/ CountIn(t) \/ EnterPlatform(t) \/ CountOut(t)
            \/ ReadEmergency(t) \/ WaitEmergency(t) \/ EmergencyCleared(t) \/ EnterExitGate(t)
  <2>1. UNCHANGED <<mq_boarding, total_rides>>
    BY <1>15 DEF StartRide, EnterGate, CountIn, EnterPlatform, CountOut, ReadEmergency,
       WaitEmergency, EmergencyCleared, EnterExitGate, ipcVars, queueVars, statVars
  <2>2. PICK a, b : /\ Move(t, a, b)
                    /\ \/ a \in {"head", "gate"} /\ b \in {"gate", "station"}
                       \/ a \in StationPCs /\ b \in StationPCs
                       \/ a \in {"board", "clear", "blocked"} /\ b \in {"clear", "blocked", "send"}
                       \/ a = "ride" /\ b = "arrive"
    BY <1>15 DEF StartRide, EnterGate, CountIn, EnterPlatform, CountOut, ReadEmergency,
       WaitEmergency, EmergencyCleared, EnterExitGate, StationPCs
  <2>3. tpc[t] = a /\ tpc'[t] = b
    BY <1>7, <2>2
  <2>4. PlaceOf(t)' = PlaceOf(t)
    BY <1>3, <1>4, <2>2, <2>3 DEF PlaceFacts
  <2>5. QED
    BY <1>6, <2>1, <2>2, <2>4
<1>16. QED
  BY <1>8, <1>9, <1>10, <1>11, <1>12, <1>13, <1>14, <1>15 DEF TouristStep

\* The departure of a chair.
LEMMA LiftDepart ==
  ASSUME TypeOK, RidersSeated, RidersSeated', NoDoubleBoarding, ChairInv, NumberFree, LoadInv,
         LowerDispatch, pending # <<>>
  PROVE  L!Next
<1>0. PICK k, G : k = chair_number /\ G = Buffered
  OBVIOUS
<1>1. /\ k \in Chairs /\ k \notin InTransit
      /\ sem["chairs"] \in Nat /\ sem["chairs"] > 0 /\ sem'["chairs"] = sem["chairs"] - 1
      /\ G # {}
      /\ \A t \in G : tpc[t] = "confirm" /\ mq_boarding[t] = <<>> /\ mq_boarding'[t] # <<>>
      /\ \A t \in Tourists \ G : mq_boarding'[t] = mq_boarding[t]
      /\ \A c : Riders(c)' = IF c = k THEN G ELSE Riders(c)
      /\ UNCHANGED <<tpc, mq_arrivals, total_rides>>
  BY <1>0, Departure
<1>2. PlaceFacts
  BY PlacesKnown
<1>3. PlaceFacts'
  BY PlacesKnown, PTL
<1>4. G \in SUBSET Tourists
  BY <1>0 DEF Buffered
<1>5. \A c : Arrivals(c)' = Arrivals(c)
  BY <1>1 DEF Arrivals
<1>6. Riders(k) = {} /\ Arrivals(k) = {}
  BY <1>1 DEF InTransit
<1>7. OnCable(k) = {}
  BY <1>6 DEF OnCable
<1>8. \A c : OnCable(c)' = IF c = k THEN G ELSE OnCable(c)
  BY <1>1, <1>5, <1>6 DEF OnCable
<1>9. [c \in Chairs |-> OnCable(c)]' = [[c \in Chairs |-> OnCable(c)] EXCEPT ![k] = G]
  BY <1>8 DEF Chairs
<1>10. [c \in Chairs |-> OnCable(c)][k] = {}
  BY <1>1, <1>7
<1>11. \A t \in G : PlaceOf(t) = "platform" /\ PlaceOf(t)' = "chair"
  BY <1>1, <1>2, <1>3, <1>4 DEF PlaceFacts
<1>12. \A t \in Tourists \ G : PlaceOf(t)' = PlaceOf(t)
  BY <1>1 DEF PlaceOf
<1>13. [t \in Tourists |-> PlaceOf(t)]'
         = [t \in Tourists |-> IF t \in G THEN "chair" ELSE [u \in Tourists |-> PlaceOf(u)][t]]
  BY <1>11, <1>12
<1>14. G \subseteq L!AtPlace("platform")
  BY <1>4, <1>11 DEF L!AtPlace
<1>15. L!Total([t \in Tourists |-> ChairSlots(t)], G) <= ChairCapacity
  <2>1. L!Total([t \in Tourists |-> ChairSlots(t)], G) = Cardinality(Parts(Seats, G))
    BY SameCardinality DEF L!Total, Parts, Seats
  <2>2. /\ IsFiniteSet(Parts(Seats, G)) /\ chair_slots_used <= ChairCapacity
        /\ Cardinality(Parts(Seats, G)) <= chair_slots_used
    BY <1>0 DEF LoadInv
  <2>3. Cardinality(Parts(Seats, G)) \in Nat /\ chair_slots_used \in Nat /\ ChairCapacity \in Nat
    BY <2>2, FS_CardinalityType, SizesAssumption DEF TypeOK
  <2>4. QED
    BY <2>1, <2>2, <2>3
<1>16. L!Depart(k, G)
  BY <1>1, <1>9, <1>10, <1>13, <1>14, <1>15 DEF L!Depart
<1>17. QED
  BY <1>1, <1>4, <1>16 DEF L!Next

\* The upper worker checks off a passenger.
LEMMA LiftCheckOff ==
  ASSUME TypeOK, RidersSeated, RidersSeated', ChairInv, OncePerChair, UpperReceive,
         MaxChairs <= MaxActiveChairs
  PROVE  L!Next
<1>0. PICK d, t, n : /\ d = Head(mq_arrivals).chair /\ t = Head(mq_arrivals).tourist
                     /\ n = Len(mq_arrivals)
  OBVIOUS
<1>1. /\ d \in Chairs /\ 1 \in Arrivals(d) /\ mq_arrivals[1] = Head(mq_arrivals)
      /\ \A c : Riders(c)' = Riders(c)
      /\ n \in Nat \ {0} /\ DOMAIN mq_arrivals = 1..n
      /\ DOMAIN mq_arrivals' = 1..(n - 1)
      /\ \A i \in 1..(n - 1) : mq_arrivals'[i] = mq_arrivals[i + 1]
      /\ sem'["chairs"] = sem["chairs"] + (IF Riders(d) = {} /\ Arrivals(d) = {1} THEN 1 ELSE 0)
      /\ UNCHANGED <<tpc, mq_boarding, total_rides>>
  BY <1>0, CheckingOff
<1>2. t \in Tourists /\ sem["chairs"] \in Nat
  <2>1. mq_arrivals \in Seq(ArrivalMsg) /\ mq_arrivals # <<>> /\ sem["chairs"] \in Nat
    BY DEF TypeOK, Semaphores, UpperReceive
  <2>2. Head(mq_arrivals) \in ArrivalMsg
    BY <2>1, HeadTailProperties
  <2>3. QED
    BY <1>0, <2>1, <2>2 DEF ArrivalMsg
<1>3. mq_arrivals[1].tourist = t /\ mq_arrivals[1].chair = d
  BY <1>0, <1>1
<1>4. /\ t \notin Riders(d)
      /\ \A i \in Arrivals(d) : mq_arrivals[i].tourist = t => i = 1
  BY <1>1, <1>3 DEF OncePerChair, Arrivals
<1>5. \A c : c # d => 1 \notin Arrivals(c)
  BY <1>3 DEF Arrivals
<1>6. ASSUME NEW c
      PROVE  {mq_arrivals[i].tourist : i \in Arrivals(c)}'
               = {mq_arrivals[i].tourist : i \in Arrivals(c) \ {1}}
  <2>1. \A i \in Arrivals(c)' : i + 1 \in Arrivals(c) \ {1} /\ mq_arrivals'[i] = mq_arrivals[i + 1]
    BY <1>1 DEF Arrivals
  <2>2. \A j \in Arrivals(c) \ {1} : j - 1 \in Arrivals(c)' /\ mq_arrivals'[j - 1] = mq_arrivals[j]
    BY <1>1 DEF Arrivals
  <2>3. QED
    BY <2>1, <2>2
<1>7. \A c : OnCable(c)' = IF c = d THEN OnCable(c) \ {t} ELSE OnCable(c)
  <2>1. ASSUME NEW c, c # d
        PROVE  OnCable(c)' = OnCable(c)
    <3>1. Arrivals(c) \ {1} = Arrivals(c)
      BY <1>5, <2>1
    <3>2. {mq_arrivals[i].tourist : i \in Arrivals(c)}'
            = {mq_arrivals[i].tourist : i \in Arrivals(c)}
      BY <1>6, <3>1
    <3>3. QED
      BY <1>1, <3>2 DEF OnCable
  <2>2. OnCable(d)' = OnCable(d) \ {t}
    <3>1. {mq_arrivals[i].tourist : i \in Arrivals(d) \ {1}}
            = {mq_arrivals[i].tourist : i \in Arrivals(d)} \ {t}
      BY <1>3, <1>4
    <3>2. {mq_arrivals[i].tourist : i \in Arrivals(d)}'
            = {mq_arrivals[i].tourist : i \in Arrivals(d) \ {1}}
      BY <1>6
    <3>3. Riders(d)' = Riders(d) /\ Riders(d) \ {t} = Riders(d)
      BY <1>1, <1>4
    <3>4. QED
      BY <3>1, <3>2, <3>3 DEF OnCable
  <2>3. QED
    BY <2>1, <2>2
<1>8. t \in OnCable(d)
  BY <1>1, <1>3 DEF OnCable
<1>9. OnCable(d) = {t} <=> Riders(d) = {} /\ Arrivals(d) = {1}
  <2>1. ASSUME OnCable(d) = {t}
        PROVE  Riders(d) = {} /\ Arrivals(d) = {1}
    <3>1. Riders(d) \subseteq {t} /\ \A i \in Arrivals(d) : mq_arrivals[i].tourist = t
      BY <2>1 DEF OnCable
    <3>2. QED
      BY <1>1, <1>4, <3>1
  <2>2. ASSUME Riders(d) = {}, Arrivals(d) = {1}
        PROVE  OnCable(d) = {t}
    BY <1>3, <2>2 DEF OnCable
  <2>3. QED
    BY <2>1, <2>2
<1>10. [c \in Chairs |-> OnCable(c)]'
         = [[c \in Chairs |-> OnCable(c)] EXCEPT ![d] = @ \ {t}]
  BY <1>1, <1>7 DEF Chairs
<1>11. [u \in Tourists |-> PlaceOf(u)]' = [u \in Tourists |-> PlaceOf(u)]
  BY <1>1 DEF PlaceOf
<1>12. [c \in Chairs |-> OnCable(c)][d] = OnCable(d)
  BY <1>1
<1>13. sem'["chairs"]
         = sem["chairs"] + (IF [c \in Chairs |-> OnCable(c)][d] = {t} THEN 1 ELSE 0)
  BY <1>1, <1>9, <1>12
<1>14. t \in [c \in Chairs |-> OnCable(c)][d]
  BY <1>8, <1>12
<1>15. L!CheckOff(d, t)
  BY <1>1, <1>10, <1>11, <1>13, <1>14 DEF L!CheckOff
<1>16. QED
  BY <1>1, <1>2, <1>15 DEF L!Next

\* Every step of the ropeway is one of the lift, or none.
LEMMA LiftNext ==
  ASSUME MaxChairs <= MaxActiveChairs, TypeOK, RidersSeated, RidersSeated', NoDoubleBoarding,
         ChairInv, NumberFree, LoadInv, OncePerChair, GateAccounting, StationAccounting,
         [Next]_vars
  PROVE  [L!Next]_(L!liftVars)
<1>1. CASE \E t \in Tourists : TouristStep(t)
  BY <1>1, LiftTourist
<1>2. CASE LowerDispatch /\ pending # <<>>
  BY <1>2, LiftDepart
<1>3. CASE UpperReceive
  BY <1>3, LiftCheckOff
<1>4. CASE /\ ~(\E t \in Tourists : TouristStep(t)) /\ ~UpperReceive
           /\ ~(LowerDispatch /\ pending # <<>>)
  <2>1. /\ \A u \in Tourists : SeatsOf(u)' = SeatsOf(u)
        /\ mq_arrivals' = mq_arrivals /\ sem'["chairs"] = sem["chairs"]
    BY <1>4, WorkerSeats
  <2>2. \A c \in Chairs : OnCable(c)' = OnCable(c)
    BY <2>1 DEF RidersSeated, OnCable, Arrivals
  <2>3. UNCHANGED <<mq_boarding, total_rides>>
    <3>1. ASSUME NEW w \in Workers, EmergencyStep(w)
          PROVE  UNCHANGED <<mq_boarding, total_rides>>
      BY <3>1 DEF EmergencyStep, NoDanger, DetectDanger, TriggerSetFlag, TriggerKill,
         TriggerAbort, SignalSeen, AckSetFlag, AckReply, AckClearFlag, ResumeSend,
         ResumeReceive, ResumeKill, ResumeClearFlag, ReleaseWaiters, ResumeUnlock,
         workerRest, statVars, ipcVars, queueVars
    <3>2. CASE LowerStep /\ ~EmergencyStep("lower")
      BY <1>4, <3>2 DEF LowerStep, LowerCheckFlag, LowerReceive, LowerTimeout, LowerBounce,
         LowerPlace, LowerNoFit, LowerDrop, LowerDispatch, lowerRest, statVars, ipcVars
    <3>3. CASE UpperStep /\ ~EmergencyStep("upper")
      BY <1>4, <3>3 DEF UpperStep, UpperWait, UpperSleep, upperRest, statVars, ipcVars
    <3>4. CASE (\E w \in Workers : DurationPasses(w)) \/ CloseStation \/ Pause \/ UNCHANGED vars
      BY <3>4 DEF DurationPasses, CloseStation, Pause, vars, ipcVars, statVars, workerRest
    <3>5. QED
      BY <1>4, <3>1, <3>2, <3>3, <3>4 DEF Next, LowerStep, UpperStep, Workers
  <2>4. \A t \in Tourists : PlaceOf(t)' = PlaceOf(t)
    <3>1. CASE Pause
      <4>1. \A t \in Tourists : \/ tpc'[t] = tpc[t]
                                \/ tpc[t] \in {"clear", "blocked"} /\ tpc'[t] = "send"
        BY <3>1 DEF Pause, Blocked
      <4>2. PlaceFacts
        BY PlacesKnown
      <4>3. PlaceFacts'
        BY PlacesKnown, PTL
      <4>4. ASSUME NEW t \in Tourists, tpc'[t] = tpc[t]
            PROVE  PlaceOf(t)' = PlaceOf(t)
        BY <2>3, <4>4 DEF PlaceOf
      <4>5. ASSUME NEW t \in Tourists, tpc[t] \in {"clear", "blocked"}, tpc'[t] = "send"
            PROVE  PlaceOf(t)' = PlaceOf(t)
        BY <4>2, <4>3, <4>5 DEF PlaceFacts
      <4>6. QED
        BY <4>1, <4>4, <4>5
    <3>2. CASE ~Pause
      <4>1. tpc' = tpc
        BY <1>4, <3>2, WorkersLeaveTouristsAlone
      <4>2. QED
        BY <2>3, <4>1 DEF PlaceOf
    <3>3. QED
      BY <3>1, <3>2
  <2>5. QED
    BY <2>1, <2>2, <2>3, <2>4, LiftStutter
<1>5. QED
  BY <1>1, <1>2, <1>3, <1>4

\* The lift begins empty, and so does the ropeway.
LEMMA LiftInit == Init => L!Init /\ LoadInv /\ OncePerChair
<1> SUFFICES ASSUME Init PROVE L!Init /\ LoadInv /\ OncePerChair
  OBVIOUS
<1>1. /\ \A t \in Tourists : tpc[t] = "head" /\ mq_boarding[t] = <<>>
      /\ mq_arrivals = <<>> /\ sem["chairs"] = MaxChairs /\ total_rides = 0
      /\ pending = <<>> /\ chair_slots_used = 0
  BY DEF Init, TouristInit, LowerInit, SemInit, Semaphores
<1>2. \A t \in Tourists : PlaceOf(t) = "below"
  BY <1>1 DEF PlaceOf
<1>3. \A c \in Chairs : OnCable(c) = {}
  BY <1>1 DEF OnCable, Riders, Arrivals
<1>4. L!Init
  BY <1>1, <1>2, <1>3 DEF L!Init
<1>5. LoadInv
  BY <1>1, NoLoad, SizesAssumption DEF LoadInv
<1>6. OncePerChair
  BY <1>1 DEF OncePerChair
<1>7. QED
  BY <1>4, <1>5, <1>6

\* The processes implement the lift: whatever lower_worker.c, upper_worker.c and the
\* tourists' ride loop do, with dangers, pauses and interrupted calls, is one step of
\* Lift or none. One dispatch_chair takes a whole group that fits on the chair, each
\* passenger gets off once, and the permit comes back with the last of them. The upper
\* worker needs a tracker for every chair on the cable, and a chair number must be
\* free when it comes round again (the code leaves that to the ride's duration).
THEOREM ImplementsLiftHolds ==
  MaxChairs <= MaxActiveChairs => (Spec /\ []NumberFree => ImplementsLift)
<1> SUFFICES ASSUME MaxChairs <= MaxActiveChairs
             PROVE  Spec /\ []NumberFree => ImplementsLift
  OBVIOUS
<1>1. Spec /\ []NumberFree => []ChairInv
  BY ChairInvariant
<1>2. TypeOK /\ CurInHand /\ LoadInv /\ [Next]_vars => LoadInv'
  BY LoadNext
<1>3. TypeOK /\ RidersSeated /\ RidersSeated' /\ NoDoubleBoarding /\ ChairInv /\ NumberFree
        /\ OncePerChair /\ [Next]_vars => OncePerChair'
  BY OnceNext
<1>4. TypeOK /\ RidersSeated /\ RidersSeated' /\ NoDoubleBoarding /\ ChairInv /\ NumberFree
        /\ LoadInv /\ OncePerChair /\ GateAccounting /\ StationAccounting /\ [Next]_vars
        => [L!Next]_(L!liftVars)
  BY LiftNext
<1>5. QED
  BY <1>1, <1>2, <1>3, <1>4, LiftInit, RidersAreSeated, TypeCorrect, NoDoubleBoardingHolds,
     GateAccountingHolds, StationAccountingHolds, PTL DEF Spec, ImplementsLift, L!Spec

\* In the first round of chair numbers nothing is left to the timing: with the code's
\* 36 permits and 64 trackers the processes implement the lift and permits and trackers
\* are exact (lower_worker.c, upper_worker.c).
THEOREM FirstRoundImplementsLift ==
  MaxChairs <= MaxActiveChairs
    => (Spec /\ FirstRound => ImplementsLift /\ [](ChairAccounting /\ TrackerExact))
<1> SUFFICES ASSUME MaxChairs <= MaxActiveChairs
             PROVE  Spec /\ FirstRound => ImplementsLift /\ [](ChairAccounting /\ TrackerExact)
  OBVIOUS
<1>1. QED
  BY FirstRoundNumberFree, ImplementsLiftHolds, ChairAccountingHolds, TrackerExactHolds, PTL
=============================================================================
