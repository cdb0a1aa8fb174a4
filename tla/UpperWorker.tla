---------------------------- MODULE UpperWorker ----------------------------
(***************************************************************************)
(* The upper platform worker (processes/upper_worker.c): it counts the     *)
(* arrivals of every chair and gives the chair back when all of its        *)
(* passengers have come.  The tracker array is a pair of functions on the  *)
(* chair numbers, expected[c] = 0 for a chair without a tracker.           *)
(***************************************************************************)
EXTENDS WorkerEmergency

UpperInit ==
  /\ expected = [c \in Chairs |-> 0]
  /\ arrived = [c \in Chairs |-> 0]

Tracked == {c \in Chairs : expected[c] # 0}

upperRest == <<statVars, touristVars, handshakeVars, lowerVars, pauses, flagVars>>

\* Loop head: no signal, not the initiator.  emergency_stop is not looked at.
UpperWait ==
  /\ ~emergency_signal["upper"] /\ ~is_initiator["upper"]
  /\ Goto("upper", "top", "receive")
  /\ UNCHANGED <<ipcVars, upperVars, upperRest>>

\* Nobody has arrived: msgrcv sleeps, with no alarm set.  A signal caught since
\* the loop head does not wake it.
UpperSleep ==
  /\ mq_arrivals = <<>>
  /\ Goto("upper", "receive", "asleep")
  /\ UNCHANGED <<ipcVars, upperVars, upperRest>>

\* Mutant of ChairComplete: one passenger is enough.
ChairCompleteAtFirst(n, a) == a >= 1

ChairComplete(n, a) == a >= n

\* An arrival on chair c with n passengers: the chair's tracker is found or made
\* (no tracker when the array is full), and the chair is given back and its
\* tracker removed when it is complete.
TrackArrival(c, n) ==
  LET known == c \in Tracked
      room  == Cardinality(Tracked) < MaxActiveChairs
      exp   == IF known THEN expected[c] ELSE n
      arr   == (IF known THEN arrived[c] ELSE 0) + 1
      done  == ChairComplete(exp, arr)
  IN  IF known \/ room
      THEN /\ expected' = [expected EXCEPT ![c] = IF done THEN 0 ELSE exp]
           /\ arrived' = [arrived EXCEPT ![c] = IF done THEN 0 ELSE arr]
           /\ IF done THEN SemPost("chairs", 1) ELSE UNCHANGED sem
      ELSE UNCHANGED <<expected, arrived, sem>>

UpperReceive ==
  /\ mq_arrivals # <<>>
  /\ Goto("upper", "receive", "danger") \/ Goto("upper", "asleep", "danger")
  /\ TrackArrival(Head(mq_arrivals).chair, Head(mq_arrivals).n)
  /\ mq_arrivals' = Tail(mq_arrivals)
  /\ UNCHANGED <<mq_platform, mq_boarding, mq_worker, upperRest>>

UpperStep ==
  \/ UpperWait \/ UpperSleep \/ UpperReceive
  \/ EmergencyStep("upper")
=============================================================================
