------------------------------ MODULE Tourist ------------------------------
(***************************************************************************)
(* A tourist process in its ride loop (tourist/main.c), from the moment it *)
(* has bought its ticket.  One action per blocking call or critical        *)
(* section; a sem_post that only follows one is part of the same step.     *)
(***************************************************************************)
EXTENDS RopewayState

\* Outside the loop's body, queueing, in the station, on the platform, riding.
TouristPCs == {"head", "gate", "station", "count", "scared", "scared_out",
               "platform", "pass", "pass_out", "board", "clear", "blocked",
               "send", "confirm", "ride", "arrive", "trail", "gone"}

TouristInit ==
  /\ tpc = [t \in Tourists |-> "head"]
  /\ rides_completed = [t \in Tourists |-> 0]
  /\ seat = [t \in Tourists |-> NoSeat]

\* tourist_is_ticket_valid is deterministic for a single ticket; a time ticket
\* compares the clock with its validity, so both answers are possible until
\* the bound on its rides is reached.
TicketValid(t) ==
  IF t \in SingleTickets THEN rides_completed[t] = 0
                         ELSE rides_completed[t] < MaxRides

TicketExpired(t) == t \in SingleTickets => rides_completed[t] > 0

MayBeScared(t) == ScaredEnabled /\ rides_completed[t] <= 1

Move(t, from, to) == tpc[t] = from /\ tpc' = [tpc EXCEPT ![t] = to]

touristRest == <<workerVars, lowerVars, upperVars, pauses>>
-----------------------------------------------------------------------------
\* Another ride: the ticket is valid and the station is not closing.  A VIP
\* goes straight to the station, the others to the entry gates.
StartRide(t) ==
  /\ TicketValid(t) /\ ~closing
  /\ Move(t, "head", IF t \in Vips THEN "station" ELSE "gate")
  /\ UNCHANGED <<ipcVars, flagVars, statVars, rides_completed, seat, touristRest>>

\* Ticket used up or expired, or the station is closing: the process ends.
LeaveForGood(t) ==
  /\ TicketExpired(t) \/ closing
  /\ Move(t, "head", "gone")
  /\ UNCHANGED <<ipcVars, flagVars, statVars, rides_completed, seat, touristRest>>

EnterGate(t) ==
  /\ Move(t, "gate", "station")
  /\ SemWait("entry", 1)
  /\ UNCHANGED <<queueVars, flagVars, statVars, rides_completed, seat, touristRest>>

\* Mutant of EnterStation: the family takes one place, as a single person does.
EnterStationAlone(t) ==
  /\ Move(t, "station", "count")
  /\ SemWait("station", 1)
  /\ UNCHANGED <<queueVars, flagVars, statVars, rides_completed, seat, touristRest>>

\* The whole family takes its places with one semop.
EnterStation(t) ==
  /\ Move(t, "station", "count")
  /\ SemWait("station", StationSlots(t))
  /\ UNCHANGED <<queueVars, flagVars, statVars, rides_completed, seat, touristRest>>

\* The station count is updated and the entry gate given back; then the
\* tourist goes on to the platform gates or finds it is too scared.
CountIn(t) ==
  /\ \/ Move(t, "count", "platform")
     \/ MayBeScared(t) /\ Move(t, "count", "scared")
  /\ lower_station_count' = lower_station_count + StationSlots(t)
  /\ IF t \in Vips THEN UNCHANGED sem ELSE SemPost("entry", 1)
  /\ UNCHANGED <<queueVars, flagVars, total_rides, closing, rides_completed,
                 seat, touristRest>>

EnterPlatform(t) ==
  /\ Move(t, "platform", "pass")
  /\ SemWait("platform", 1)
  /\ UNCHANGED <<queueVars, flagVars, statVars, rides_completed, seat, touristRest>>

\* Leaving the waiting room, scared or through the platform gate: first the
\* count, under SEM_STATE ...
CountOut(t) ==
  /\ Move(t, "scared", "scared_out") \/ Move(t, "pass", "pass_out")
  /\ lower_station_count' = lower_station_count - StationSlots(t)
  /\ UNCHANGED <<ipcVars, flagVars, total_rides, closing, rides_completed, seat,
                 touristRest>>

\* ... then the places.
LeaveStation(t) ==
  /\ Move(t, "scared_out", "gone") \/ Move(t, "pass_out", "board")
  /\ SemPost("station", StationSlots(t))
  /\ UNCHANGED <<queueVars, flagVars, statVars, rides_completed, seat, touristRest>>
-----------------------------------------------------------------------------
\* tourist_board_chair: the first look at emergency_stop.
ReadEmergency(t) ==
  /\ Move(t, "board", IF emergency_stop THEN "clear" ELSE "send")
  /\ UNCHANGED <<ipcVars, flagVars, statVars, rides_completed, seat, touristRest>>

\* Mutant of WaitEmergency: the tourist goes to sleep unregistered.
WaitEmergencyUncounted(t) ==
  /\ Move(t, "clear", IF emergency_stop THEN "blocked" ELSE "send")
  /\ UNCHANGED <<ipcVars, flagVars, statVars, rides_completed, seat, touristRest>>

\* ipc_wait_emergency_clear reads the flag again and registers as a waiter in
\* the same critical section.
WaitEmergency(t) ==
  /\ Move(t, "clear", IF emergency_stop THEN "blocked" ELSE "send")
  /\ emergency_waiters' = emergency_waiters + (IF emergency_stop THEN 1 ELSE 0)
  /\ UNCHANGED <<ipcVars, emergency_stop, statVars, rides_completed, seat,
                 touristRest>>

EmergencyCleared(t) ==
  /\ Move(t, "blocked", "send")
  /\ SemWait("clear", 1)
  /\ UNCHANGED <<queueVars, flagVars, statVars, rides_completed, seat, touristRest>>

\* "Ready to board", mtype 2.
SendRequest(t) ==
  /\ Move(t, "send", "confirm")
  /\ mq_platform' = [mq_platform EXCEPT ![2] = Append(@, t)]
  /\ UNCHANGED <<sem, mq_boarding, mq_arrivals, mq_worker, flagVars, statVars,
                 rides_completed, seat, touristRest>>

\* Mutant of Board: the platform gate is not given back.
BoardKeepsGate(t) ==
  /\ Move(t, "confirm", "ride")
  /\ mq_boarding[t] # <<>>
  /\ seat' = [seat EXCEPT ![t] = Head(mq_boarding[t])]
  /\ mq_boarding' = [mq_boarding EXCEPT ![t] = Tail(@)]
  /\ UNCHANGED <<sem, mq_platform, mq_arrivals, mq_worker, flagVars, statVars,
                 rides_completed, touristRest>>

\* The confirmation addressed to this tourist arrives; on its chair, the
\* tourist gives the platform gate back.
Board(t) ==
  /\ Move(t, "confirm", "ride")
  /\ mq_boarding[t] # <<>>
  /\ seat' = [seat EXCEPT ![t] = Head(mq_boarding[t])]
  /\ mq_boarding' = [mq_boarding EXCEPT ![t] = Tail(@)]
  /\ SemPost("platform", 1)
  /\ UNCHANGED <<mq_platform, mq_arrivals, mq_worker, flagVars, statVars,
                 rides_completed, touristRest>>

\* The ride is over (a sleep) and an exit gate is free.
EnterExitGate(t) ==
  /\ Move(t, "ride", "arrive")
  /\ SemWait("exit", 1)
  /\ UNCHANGED <<queueVars, flagVars, statVars, rides_completed, seat, touristRest>>

\* Mutant of ArriveUpper: the exit gate is kept.
ArriveUpperKeepsGate(t) ==
  /\ Move(t, "arrive", "trail")
  /\ mq_arrivals' = Append(mq_arrivals, [tourist |-> t, chair |-> seat[t].chair,
                                         n |-> seat[t].n])
  /\ seat' = [seat EXCEPT ![t] = NoSeat]
  /\ UNCHANGED <<sem, mq_platform, mq_boarding, mq_worker, flagVars, statVars,
                 rides_completed, touristRest>>

\* tourist_arrive_upper tells the upper worker which chair it came with; the
\* seat is dead after that.
ArriveUpper(t) ==
  /\ Move(t, "arrive", "trail")
  /\ mq_arrivals' = Append(mq_arrivals, [tourist |-> t, chair |-> seat[t].chair,
                                         n |-> seat[t].n])
  /\ seat' = [seat EXCEPT ![t] = NoSeat]
  /\ SemPost("exit", 1)
  /\ UNCHANGED <<mq_platform, mq_boarding, mq_worker, flagVars, statVars,
                 rides_completed, touristRest>>

\* Down the trail; the ride is counted for every person of the family.
DescendTrail(t) ==
  /\ Move(t, "trail", IF t \in SingleTickets THEN "gone" ELSE "head")
  /\ rides_completed' = [rides_completed EXCEPT ![t] = @ + 1]
  /\ total_rides' = total_rides + 1 + KidCount[t]
  /\ UNCHANGED <<ipcVars, flagVars, lower_station_count, closing, seat, touristRest>>

TouristStep(t) ==
  \/ StartRide(t) \/ LeaveForGood(t)
  \/ EnterGate(t) \/ EnterStation(t) \/ CountIn(t) \/ EnterPlatform(t)
  \/ CountOut(t) \/ LeaveStation(t)
  \/ ReadEmergency(t) \/ WaitEmergency(t) \/ EmergencyCleared(t)
  \/ SendRequest(t) \/ Board(t) \/ EnterExitGate(t) \/ ArriveUpper(t)
  \/ DescendTrail(t)
=============================================================================
