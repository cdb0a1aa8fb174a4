---------------------------- MODULE LowerWorker ----------------------------
(***************************************************************************)
(* The lower platform worker (processes/lower_worker.c): it collects the   *)
(* tourists that are ready to board until the chair is full, the next one  *)
(* does not fit or nobody comes for 100 ms, and then sends the chair off.  *)
(* Its part in the emergency protocol is in WorkerEmergency.               *)
(***************************************************************************)
EXTENDS WorkerEmergency, SequencesExt

LowerInit ==
  /\ cur = NoTourist
  /\ pending = <<>>
  /\ chair_slots_used = 0
  /\ chair_number = 1

\* g_pending's length.
MaxPendingPerChair == 4

\* Mutant of NextChair: the numbers do not start again.
NextChairUnbounded(c) == c + 1

NextChair(c) == (c % TotalChairs) + 1

PlatformEmpty == mq_platform[1] = <<>> /\ mq_platform[2] = <<>>

\* The queue msgrcv(..., -2, ...) takes the next message from.
FirstType == IF mq_platform[1] # <<>> THEN 1 ELSE 2

\* Mutant of Fits: one slot too many.
FitsWithOneMore(t) == chair_slots_used + ChairSlots(t) <= ChairCapacity + 1

\* There is room on the current chair.
Fits(t) == chair_slots_used + ChairSlots(t) <= ChairCapacity

\* Mutant of Requeue: the message is not sent.
RequeueForgotten == UNCHANGED mq_platform

\* The tourist in hand goes back with mtype 1, to be the next one.
Requeue == mq_platform' = [mq_platform EXCEPT ![1] = Append(@, cur)]

lowerRest == <<statVars, touristVars, handshakeVars, upperVars, pauses, flagVars>>
-----------------------------------------------------------------------------
\* Loop head: no signal, not the initiator.  The flag sends the worker to the
\* receiver's role even when the signal has not arrived.
LowerCheckFlag ==
  /\ ~emergency_signal["lower"] /\ ~is_initiator["lower"]
  /\ Goto("lower", "top", IF emergency_stop THEN "ack_set" ELSE "receive")
  /\ UNCHANGED <<ipcVars, lowerVars, lowerRest>>

LowerReceive ==
  /\ ~PlatformEmpty
  /\ Goto("lower", "receive", "recheck")
  /\ cur' = Head(mq_platform[FirstType])
  /\ mq_platform' = [mq_platform EXCEPT ![FirstType] = Tail(@)]
  /\ UNCHANGED <<sem, mq_boarding, mq_arrivals, mq_worker, pending,
                 chair_slots_used, chair_number, lowerRest>>

\* EINTR while nobody is waiting, from the 100 ms alarm or from another signal:
\* a chair with somebody on it goes, whatever emergency_stop says.
LowerTimeout ==
  /\ PlatformEmpty
  /\ Goto("lower", "receive", IF pending = <<>> THEN "top" ELSE "dispatch")
  /\ UNCHANGED <<ipcVars, lowerVars, lowerRest>>

\* Mutant of LowerBounce: after putting the request back, the worker goes on.
LowerBounceContinues ==
  /\ wpc["lower"] = "recheck" /\ emergency_stop
  /\ Requeue /\ cur' = NoTourist
  /\ pending' = Append(pending, cur)
  /\ chair_slots_used' = chair_slots_used + ChairSlots(cur)
  /\ Goto("lower", "recheck", "danger")
  /\ UNCHANGED <<sem, mq_boarding, mq_arrivals, mq_worker, chair_number, lowerRest>>

\* A request in hand and emergency_stop set: back into the queue.
LowerBounce ==
  /\ wpc["lower"] = "recheck" /\ emergency_stop
  /\ Goto("lower", "recheck", "top")
  /\ Requeue /\ cur' = NoTourist
  /\ UNCHANGED <<sem, mq_boarding, mq_arrivals, mq_worker, pending,
                 chair_slots_used, chair_number, lowerRest>>

\* The tourist fits and is buffered; a full chair goes at once.
LowerPlace ==
  /\ wpc["lower"] = "recheck" /\ ~emergency_stop /\ Fits(cur)
  /\ pending' = IF Len(pending) < MaxPendingPerChair THEN Append(pending, cur)
                                                     ELSE pending
  /\ chair_slots_used' = chair_slots_used + ChairSlots(cur)
  /\ cur' = NoTourist
  /\ Goto("lower", "recheck",
          IF chair_slots_used' >= ChairCapacity THEN "dispatch" ELSE "danger")
  /\ UNCHANGED <<ipcVars, chair_number, lowerRest>>

\* It does not fit: the chair goes first, with the tourist kept in hand.
LowerNoFit ==
  /\ wpc["lower"] = "recheck" /\ ~emergency_stop /\ ~Fits(cur)
  /\ Goto("lower", "recheck", "dispatch")
  /\ UNCHANGED <<ipcVars, lowerVars, lowerRest>>

\* sem_wait on SEM_STATE was interrupted after the receive: "continue", and the
\* request is gone.
LowerDrop ==
  /\ Goto("lower", "drop", "top")
  /\ cur' = NoTourist
  /\ UNCHANGED <<ipcVars, pending, chair_slots_used, chair_number, lowerRest>>
-----------------------------------------------------------------------------
\* Mutant of DispatchChair: no SEM_CHAIRS.
DispatchUnlimited ==
  /\ mq_boarding' = [t \in Tourists |->
       IF Contains(pending, t)
       THEN Append(mq_boarding[t], [chair |-> chair_number, n |-> Len(pending)])
       ELSE mq_boarding[t]]
  /\ UNCHANGED sem

\* Mutant of DispatchChair: tourists_on_chair is the number of slots in use.
DispatchSlotCount ==
  /\ SemWait("chairs", 1)
  /\ mq_boarding' = [t \in Tourists |->
       IF Contains(pending, t)
       THEN Append(mq_boarding[t], [chair |-> chair_number, n |-> chair_slots_used])
       ELSE mq_boarding[t]]

\* dispatch_chair: a chair is taken from SEM_CHAIRS, every buffered tourist is
\* sent a confirmation with the chair's number and its number of passengers.
DispatchChair ==
  /\ SemWait("chairs", 1)
  /\ mq_boarding' = [t \in Tourists |->
       IF Contains(pending, t)
       THEN Append(mq_boarding[t], [chair |-> chair_number, n |-> Len(pending)])
       ELSE mq_boarding[t]]

\* The chair goes and the next one is loaded.  A tourist in hand did not fit and
\* is put back; a full chair is followed by the danger check; after a timeout
\* the loop starts again.
LowerDispatch ==
  /\ IF pending = <<>> THEN UNCHANGED <<sem, mq_boarding>> ELSE DispatchChair
  /\ pending' = <<>> /\ chair_slots_used' = 0
  /\ chair_number' = NextChair(chair_number)
  /\ IF cur # NoTourist THEN Requeue ELSE UNCHANGED mq_platform
  /\ cur' = NoTourist
  /\ Goto("lower", "dispatch",
          IF cur = NoTourist /\ chair_slots_used >= ChairCapacity THEN "danger" ELSE "top")
  /\ UNCHANGED <<mq_arrivals, mq_worker, lowerRest>>

LowerStep ==
  \/ LowerCheckFlag \/ LowerReceive \/ LowerTimeout
  \/ LowerBounce \/ LowerPlace \/ LowerNoFit \/ LowerDrop \/ LowerDispatch
  \/ EmergencyStep("lower")
=============================================================================
