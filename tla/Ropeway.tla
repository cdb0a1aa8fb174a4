------------------------------ MODULE Ropeway ------------------------------
(***************************************************************************)
(* The ropeway in service: the tourists, the two platform workers, the     *)
(* main process that closes the station, and the terminal's job control.   *)
(***************************************************************************)
EXTENDS Tourist, LowerWorker, UpperWorker

Init ==
  /\ sem = SemInit
  /\ mq_platform = [k \in 1..2 |-> <<>>]
  /\ mq_boarding = [t \in Tourists |-> <<>>]
  /\ mq_arrivals = <<>>
  /\ mq_worker = [w \in Workers |-> <<>>]
  /\ emergency_stop = FALSE /\ emergency_waiters = 0
  /\ lower_station_count = 0 /\ total_rides = 0 /\ closing = FALSE
  /\ TouristInit /\ WorkerInit /\ LowerInit /\ UpperInit
  /\ pauses = 0

\* The main process sets closing at the end of the simulated day.
CloseStation ==
  /\ MayClose /\ ~closing
  /\ closing' = TRUE
  /\ UNCHANGED <<ipcVars, flagVars, lower_station_count, total_rides, touristVars,
                 workerVars, lowerVars, upperVars, pauses>>

\* Tourists asleep on SEM_EMERGENCY_CLEAR.
Blocked == {t \in Tourists : tpc[t] = "blocked"}

\* Where SIGTSTP and SIGCONT can leave a worker that did not retry: semop fails
\* with EINTR after a stop, on SEM_STATE if it was contended.
AfterPause(w) ==
  {wpc[w]} \cup
  CASE ~StateContended            -> {}
    [] wpc[w] = "recheck"         -> {"drop"}
    [] wpc[w] = "trig_set"        -> {"trig_abort"}
    [] wpc[w] = "res_release"     -> {"res_unlock"}
    [] OTHER                      -> {}

\* The user stops the process group from the terminal and continues it.  The
\* tourists asleep on SEM_EMERGENCY_CLEAR come back with EINTR, except those a
\* token was already there for; a tourist that waits for SEM_STATE on the way
\* there may come back too.
Pause ==
  /\ pauses < MaxPauses
  /\ pauses' = pauses + 1
  /\ \E S \in SUBSET Blocked, R \in SUBSET {t \in Tourists : tpc[t] = "clear"} :
       /\ \/ Cardinality(Blocked \ S) = sem["clear"]
          \/ S = {} /\ Cardinality(Blocked) < sem["clear"]
       /\ \A t \in R : \E u \in Tourists \ {t} : tpc[u] \in StatePCs
       /\ tpc' = [t \in Tourists |-> IF t \in S \cup R THEN "send" ELSE tpc[t]]
  /\ \E l \in AfterPause("lower"), u \in AfterPause("upper") :
       wpc' = [w \in Workers |-> IF w = "lower" THEN l ELSE u]
  /\ UNCHANGED <<ipcVars, flagVars, statVars, rides_completed, seat, handshakeVars,
                 lowerVars, upperVars>>

Next ==
  \/ \E t \in Tourists : TouristStep(t)
  \/ LowerStep
  \/ UpperStep
  \/ \E w \in Workers : DurationPasses(w)
  \/ CloseStation
  \/ Pause

Spec == Init /\ [][Next]_vars

\* Every process keeps running, and the simulated time with them.
FairSpec ==
  /\ Spec
  /\ \A t \in Tourists : WF_vars(TouristStep(t))
  /\ WF_vars(LowerStep)
  /\ WF_vars(UpperStep)
  /\ \A w \in Workers : WF_vars(DurationPasses(w))
-----------------------------------------------------------------------------
(* Types. *)

\* Every variable holds a value of its type.
TypeOK ==
  /\ sem \in [Semaphores -> Nat]
  /\ mq_platform \in [1..2 -> Seq(Tourists)]
  /\ mq_boarding \in [Tourists -> Seq(Seat)]
  /\ mq_arrivals \in Seq(ArrivalMsg)
  /\ mq_worker \in [Workers -> Seq(WorkerMsg)]
  /\ emergency_stop \in BOOLEAN /\ emergency_waiters \in Nat
  /\ lower_station_count \in Int /\ total_rides \in Nat /\ closing \in BOOLEAN
  /\ tpc \in [Tourists -> TouristPCs]
  /\ rides_completed \in [Tourists -> Nat]
  /\ seat \in [Tourists -> Seat]
  /\ wpc \in [Workers -> WorkerPCs]
  /\ is_initiator \in [Workers -> BOOLEAN]
  /\ emergency_signal \in [Workers -> BOOLEAN]
  /\ recent_danger \in [Workers -> BOOLEAN]
  /\ cur \in Tourists \cup {NoTourist}
  /\ pending \in Seq(Tourists)
  /\ chair_slots_used \in Nat
  /\ chair_number \in Chairs
  /\ expected \in [Chairs -> Nat] /\ arrived \in [Chairs -> Nat]
  /\ dangers \in 0..MaxDangers /\ pauses \in 0..MaxPauses
-----------------------------------------------------------------------------
(* The gates and the waiting room. *)

At(pcs) == {t \in Tourists : tpc[t] \in pcs}

EntryHolders == At({"station", "count"}) \ Vips

PlatformHolders == At({"pass", "pass_out", "board", "clear", "blocked", "send",
                       "confirm"})

ExitHolders == At({"arrive"})

\* Every entry, platform and exit gate is either free or held by exactly one
\* tourist: no early exit, scared tourist or VIP leaks or invents a gate.
GateAccounting ==
  /\ sem["entry"] + Cardinality(EntryHolders) = EntryGates
  /\ sem["platform"] + Cardinality(PlatformHolders) = PlatformGates
  /\ sem["exit"] + Cardinality(ExitHolders) = ExitGates

\* The waiting-room places of a set of tourists, one per person.
Places(S) == {p \in S \X (1..3) : p[2] <= StationSlots(p[1])}

InStation == At({"count", "scared", "scared_out", "platform", "pass", "pass_out"})

Counted == At({"scared", "platform", "pass"})

\* The waiting room: every place is free or taken by one person who has passed
\* EnterStation and not yet LeaveStation, and lower_station_count is the number
\* of people counted in; it never exceeds station_capacity.
StationAccounting ==
  /\ sem["station"] + Cardinality(Places(InStation)) = StationCapacity
  /\ lower_station_count = Cardinality(Places(Counted))
  /\ lower_station_count <= StationCapacity
-----------------------------------------------------------------------------
(* Boarding. *)

Occurrences(t, s) == Cardinality({i \in DOMAIN s : s[i] = t})

\* How many requests and confirmations of tourist t are under way: in the
\* platform queue, in the lower worker's hand or buffer, in the boarding queue.
UnderWay(t) ==
  Occurrences(t, mq_platform[1]) + Occurrences(t, mq_platform[2])
  + (IF cur = t THEN 1 ELSE 0) + Occurrences(t, pending) + Len(mq_boarding[t])

\* A tourist waiting for its confirmation is known to the lower worker exactly
\* once, and no other tourist is: no request is lost or boarded twice.
RequestAccounting ==
  \A t \in Tourists : UnderWay(t) = IF tpc[t] = "confirm" THEN 1 ELSE 0

\* Even when signals interrupt the workers, nobody is boarded twice.
NoDoubleBoarding ==
  \A t \in Tourists : UnderWay(t) <= IF tpc[t] = "confirm" THEN 1 ELSE 0
-----------------------------------------------------------------------------
(* Chairs. *)

\* The tourists that have a seat on chair c and have not reached the upper
\* worker's queue.
Riders(c) ==
  {t \in Tourists : \/ tpc[t] \in {"ride", "arrive"} /\ seat[t].chair = c
                    \/ \E i \in DOMAIN mq_boarding[t] : mq_boarding[t][i].chair = c}

\* The arrivals on chair c the upper worker has not processed yet.
Arrivals(c) == {i \in DOMAIN mq_arrivals : mq_arrivals[i].chair = c}

InTransit == {c \in Chairs : c \in Tracked \/ Riders(c) # {} \/ Arrivals(c) # {}}

\* SEM_CHAIRS and the chairs in transit always add up: a chair is given back
\* when its last passenger has been processed, neither earlier nor never.
ChairAccounting == sem["chairs"] + Cardinality(InTransit) = MaxChairs

\* For every tracked chair, the passengers already processed and those still to
\* come are the tourists_on_chair its tracker expects, and somebody is to come.
TrackerExact ==
  \A c \in Tracked :
    /\ arrived[c] < expected[c]
    /\ arrived[c] + Cardinality(Riders(c)) + Cardinality(Arrivals(c)) = expected[c]

-----------------------------------------------------------------------------
(* Emergencies. *)

\* At most one worker is the initiator, and only while SEM_EMERGENCY_LOCK is
\* taken; the lock never has more than its one permit.  (An interrupted
\* worker_trigger_emergency_stop breaks this: it needs a pause.)
LockDiscipline ==
  pauses = 0 =>
    /\ sem["lock"] <= 1
    /\ \A w \in Workers : is_initiator[w] => sem["lock"] = 0 /\ ~is_initiator[Other(w)]

\* The resume handshake is in step: READY_TO_RESUME is only under way while its
\* sender waits for the answer, I_AM_READY only while its addressee does, and
\* never two messages to one worker.
HandshakeInStep ==
  pauses = 0 =>
    \A w \in Workers :
      /\ Len(mq_worker[w]) <= 1
      /\ mq_worker[w] = <<"READY_TO_RESUME">> => wpc[Other(w)] = "res_wait"
      /\ mq_worker[w] = <<"I_AM_READY">> => wpc[w] = "res_wait"

\* Every tourist asleep on SEM_EMERGENCY_CLEAR is registered as a waiter or has
\* a token waiting for it, and no token is left over.
WaiterAccounting ==
  pauses = 0 => Cardinality(Blocked) = emergency_waiters + sem["clear"]

\* Everybody eventually leaves.
EveryoneLeaves == <>(\A t \in Tourists : tpc[t] = "gone")
-----------------------------------------------------------------------------
(* What the documentation or the tests say and the code does not guarantee. *)

\* No chair departs (takes a permit of SEM_CHAIRS) while emergency_stop is set.
NoDepartureInEmergency ==
  [][emergency_stop => sem'["chairs"] >= sem["chairs"]]_vars

\* The lower worker waits for a chair only the upper worker can give back, and
\* the upper worker for the lower worker's answer.
ChairAgainstResume ==
  /\ wpc["lower"] = "dispatch" /\ pending # <<>> /\ sem["chairs"] = 0
  /\ wpc["upper"] = "res_wait" /\ mq_worker["upper"] = <<>>

\* The two workers never wait for each other: not both for the other one's resume
\* message, and not one for a chair and the other for an answer.
NoMutualWait ==
  /\ ~ \A w \in Workers : wpc[w] = "ack_wait" /\ mq_worker[w] = <<>>
  /\ ~ ChairAgainstResume

\* emergency_stop stays set for the initiator's danger_duration_sim.
StopLastsDuration ==
  \A w \in Workers :
    is_initiator[w] /\ recent_danger[w] /\ wpc[w] = "top" => emergency_stop

\* A worker that has asked the other one to resume eventually gets its answer.
ResumeAnswered ==
  \A w \in Workers : wpc[w] = "res_wait" ~> wpc[w] # "res_wait"

\* When everybody has gone and every arrival is processed, no chair is missing.
ChairsReturned ==
  (\A t \in Tourists : tpc[t] = "gone") /\ mq_arrivals = <<>>
    => sem["chairs"] = MaxChairs
=============================================================================
