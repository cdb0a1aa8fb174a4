--------------------------- MODULE WorkerEmergency ---------------------------
(***************************************************************************)
(* The emergency stop protocol of the two platform workers                 *)
(* (common/worker_emergency.c), the signals it sends and the tourists it   *)
(* releases (ipc/sync.c).  w is the worker that executes the function,     *)
(* Other(w) the one it talks to.                                           *)
(***************************************************************************)
EXTENDS RopewayState

\* The main loops: at the loop head, about to receive, asleep in msgrcv (upper),
\* a request in hand (lower), a chair ready to go, the danger check.
LoopPCs == {"top", "receive", "asleep", "recheck", "drop", "dispatch", "danger"}

\* worker_trigger_emergency_stop, worker_acknowledge_emergency_stop and
\* worker_initiate_resume, one place per blocking call.
ProtocolPCs == {"trig_set", "trig_kill", "trig_abort",
                "ack_set", "ack_wait", "ack_clear",
                "res_wait", "res_kill", "res_clear", "res_release", "res_unlock"}

WorkerPCs == LoopPCs \cup ProtocolPCs

\* The places where a tourist takes SEM_STATE for a moment.
StatePCs == {"head", "count", "scared", "pass", "board", "clear"}

\* Somebody else may be holding SEM_STATE, so that sem_wait on it can sleep, and
\* only a sleeping semop can fail with EINTR.
StateContended == \E t \in Tourists : tpc[t] \in StatePCs

Goto(w, from, to) == wpc[w] = from /\ wpc' = [wpc EXCEPT ![w] = to]

workerRest == <<statVars, touristVars, lowerVars, upperVars, pauses>>

WorkerInit ==
  /\ wpc = [w \in Workers |-> "top"]
  /\ is_initiator = [w \in Workers |-> FALSE]
  /\ emergency_signal = [w \in Workers |-> FALSE]
  /\ recent_danger = [w \in Workers |-> FALSE]
  /\ dangers = 0
-----------------------------------------------------------------------------
(* Signals. *)

\* Where a signal with a handler can leave worker o: msgrcv fails with EINTR
\* when no message is there for it; sem_wait on SEM_STATE may fail while it is
\* contended, and the lower worker then forgets the request it has just received.
\* Everywhere else the call is repeated, or was not going to sleep.
AfterSignal(o) ==
  CASE wpc[o] = "asleep" /\ mq_arrivals = <<>> -> {"top"}
    [] wpc[o] = "recheck" /\ StateContended    -> {"recheck", "drop"}
    [] OTHER                                   -> {wpc[o]}

\* Worker w sends a signal to the other one and goes on at next.
Kill(w, from, next) ==
  /\ wpc[w] = from
  /\ \E after \in AfterSignal(Other(w)) :
       wpc' = [wpc EXCEPT ![w] = next, ![Other(w)] = after]
-----------------------------------------------------------------------------
(* worker_trigger_emergency_stop *)

\* check_for_danger: detection off, too soon after the last one, or no bad luck.
NoDanger(w) ==
  /\ Goto(w, "danger", "top")
  /\ UNCHANGED <<ipcVars, flagVars, handshakeVars, workerRest>>

\* Mutant of DetectDanger: the initiator's lock is not tried.
DetectDangerUnlocked(w) ==
  /\ dangers < MaxDangers /\ ~recent_danger[w]
  /\ dangers' = dangers + 1
  /\ recent_danger' = [recent_danger EXCEPT ![w] = TRUE]
  /\ Goto(w, "danger", "trig_set")
  /\ is_initiator' = [is_initiator EXCEPT ![w] = TRUE]
  /\ UNCHANGED <<ipcVars, flagVars, emergency_signal, workerRest>>

\* Danger: the worker that gets SEM_EMERGENCY_LOCK becomes the initiator, the
\* other one falls back to the receiver's role.
DetectDanger(w) ==
  /\ dangers < MaxDangers /\ ~recent_danger[w]
  /\ dangers' = dangers + 1
  /\ recent_danger' = [recent_danger EXCEPT ![w] = TRUE]
  /\ \/ /\ Goto(w, "danger", "trig_set")
        /\ SemWait("lock", 1)
        /\ is_initiator' = [is_initiator EXCEPT ![w] = TRUE]
     \/ /\ sem["lock"] = 0
        /\ Goto(w, "danger", "ack_set")
        /\ UNCHANGED <<sem, is_initiator>>
  /\ UNCHANGED <<queueVars, flagVars, emergency_signal, workerRest>>

TriggerSetFlag(w) ==
  /\ Goto(w, "trig_set", "trig_kill")
  /\ emergency_stop' = TRUE
  /\ UNCHANGED <<ipcVars, emergency_waiters, handshakeVars, workerRest>>

\* SIGUSR1; its handler sets the other worker's g_emergency_signal.
TriggerKill(w) ==
  /\ Kill(w, "trig_kill", "top")
  /\ emergency_signal' = [emergency_signal EXCEPT ![Other(w)] = TRUE]
  /\ UNCHANGED <<ipcVars, flagVars, is_initiator, recent_danger, dangers,
                 workerRest>>

\* sem_wait on SEM_STATE was interrupted: the lock is given back, but the
\* worker keeps is_initiator.
TriggerAbort(w) ==
  /\ Goto(w, "trig_abort", "top")
  /\ SemPost("lock", 1)
  /\ UNCHANGED <<queueVars, flagVars, handshakeVars, workerRest>>
-----------------------------------------------------------------------------
(* worker_acknowledge_emergency_stop *)

\* Loop head: the SIGUSR1 handler has run.
SignalSeen(w) ==
  /\ emergency_signal[w]
  /\ Goto(w, "top", "ack_set")
  /\ emergency_signal' = [emergency_signal EXCEPT ![w] = FALSE]
  /\ UNCHANGED <<ipcVars, flagVars, is_initiator, recent_danger, dangers, workerRest>>

AckSetFlag(w) ==
  /\ Goto(w, "ack_set", "ack_wait")
  /\ is_initiator' = [is_initiator EXCEPT ![w] = FALSE]
  /\ emergency_stop' = TRUE
  /\ UNCHANGED <<ipcVars, emergency_waiters, emergency_signal, recent_danger,
                 dangers, workerRest>>

\* Any message addressed to w ends the wait: another type than READY_TO_RESUME
\* is only logged.  The answer follows at once.
AckReply(w) ==
  /\ Goto(w, "ack_wait", "ack_clear")
  /\ mq_worker[w] # <<>>
  /\ mq_worker' = [mq_worker EXCEPT ![w] = Tail(@),
                                    ![Other(w)] = Append(@, "I_AM_READY")]
  /\ UNCHANGED <<sem, mq_platform, mq_boarding, mq_arrivals, flagVars,
                 handshakeVars, workerRest>>

AckClearFlag(w) ==
  /\ Goto(w, "ack_clear", "top")
  /\ emergency_stop' = FALSE
  /\ UNCHANGED <<ipcVars, emergency_waiters, handshakeVars, workerRest>>
-----------------------------------------------------------------------------
(* worker_initiate_resume *)

\* Loop head: the initiator's danger is over.  (Until then it pauses.)
ResumeSend(w) ==
  /\ ~emergency_signal[w] /\ is_initiator[w] /\ ~recent_danger[w]
  /\ Goto(w, "top", "res_wait")
  /\ mq_worker' = [mq_worker EXCEPT ![Other(w)] = Append(@, "READY_TO_RESUME")]
  /\ UNCHANGED <<sem, mq_platform, mq_boarding, mq_arrivals, flagVars,
                 handshakeVars, workerRest>>

\* Mutant of ResumeReceive: it does not wait for the answer.
ResumeReceiveNothing(w) ==
  /\ Goto(w, "res_wait", "res_kill")
  /\ UNCHANGED <<ipcVars, flagVars, handshakeVars, workerRest>>

ResumeReceive(w) ==
  /\ Goto(w, "res_wait", "res_kill")
  /\ mq_worker[w] # <<>>
  /\ mq_worker' = [mq_worker EXCEPT ![w] = Tail(@)]
  /\ UNCHANGED <<sem, mq_platform, mq_boarding, mq_arrivals, flagVars,
                 handshakeVars, workerRest>>

\* SIGUSR2; its handler sets a flag that nothing depends on.
ResumeKill(w) ==
  /\ Kill(w, "res_kill", "res_clear")
  /\ UNCHANGED <<ipcVars, flagVars, handshakeVars, workerRest>>

ResumeClearFlag(w) ==
  /\ Goto(w, "res_clear", "res_release")
  /\ emergency_stop' = FALSE
  /\ UNCHANGED <<ipcVars, emergency_waiters, handshakeVars, workerRest>>

\* Mutant of ReleaseWaiters: the counter is not reset.
ReleaseWaitersTwice(w) ==
  /\ Goto(w, "res_release", "res_unlock")
  /\ SemPost("clear", emergency_waiters)
  /\ UNCHANGED <<queueVars, flagVars, handshakeVars, workerRest>>

\* ipc_release_emergency_waiters: one token for every registered tourist.
ReleaseWaiters(w) ==
  /\ Goto(w, "res_release", "res_unlock")
  /\ SemPost("clear", emergency_waiters)
  /\ emergency_waiters' = 0
  /\ UNCHANGED <<queueVars, emergency_stop, handshakeVars, workerRest>>

\* The lock is given back; is_initiator, which only w itself reads, is cleared
\* right after it and belongs to the same step.
ResumeUnlock(w) ==
  /\ Goto(w, "res_unlock", "top")
  /\ SemPost("lock", 1)
  /\ is_initiator' = [is_initiator EXCEPT ![w] = FALSE]
  /\ UNCHANGED <<queueVars, flagVars, emergency_signal, recent_danger, dangers,
                 workerRest>>

\* danger_duration_sim passes since the last danger w detected; it stored the
\* time for the cooldown and for the resume at that moment.
DurationPasses(w) ==
  /\ recent_danger[w]
  /\ recent_danger' = [recent_danger EXCEPT ![w] = FALSE]
  /\ UNCHANGED <<ipcVars, flagVars, wpc, is_initiator, emergency_signal, dangers,
                 workerRest>>

EmergencyStep(w) ==
  \/ NoDanger(w) \/ DetectDanger(w)
  \/ TriggerSetFlag(w) \/ TriggerKill(w) \/ TriggerAbort(w)
  \/ SignalSeen(w) \/ AckSetFlag(w) \/ AckReply(w) \/ AckClearFlag(w)
  \/ ResumeSend(w) \/ ResumeReceive(w) \/ ResumeKill(w) \/ ResumeClearFlag(w)
  \/ ReleaseWaiters(w) \/ ResumeUnlock(w)
=============================================================================
