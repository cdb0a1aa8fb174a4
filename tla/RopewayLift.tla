---------------------------- MODULE RopewayLift ----------------------------
(***************************************************************************)
(* The processes of Ropeway implement Lift.  A tourist counts as being in  *)
(* the waiting room while it holds places of SEM_LOWER_STATION, and as     *)
(* sitting on a chair from the moment the lower worker has confirmed it,   *)
(* although the tourist process learns that later; a passenger leaves the  *)
(* cable when the upper worker has processed its arrival.                  *)
(***************************************************************************)
EXTENDS Ropeway

PlaceOf(t) ==
  CASE tpc[t] \in {"head", "gate", "station"}           -> "below"
    [] tpc[t] \in {"count", "scared", "scared_out", "platform", "pass",
                   "pass_out"}                          -> "room"
    [] tpc[t] \in {"board", "clear", "blocked", "send"} -> "platform"
    [] tpc[t] = "confirm"      -> IF mq_boarding[t] = <<>> THEN "platform" ELSE "chair"
    [] tpc[t] \in {"ride", "arrive"}                    -> "chair"
    [] tpc[t] = "trail"                                 -> "top"
    [] tpc[t] = "gone"                                  -> "home"

OnCable(c) == Riders(c) \cup {mq_arrivals[i].tourist : i \in Arrivals(c)}

L == INSTANCE Lift WITH
       People <- Tourists,
       Rooms <- [t \in Tourists |-> StationSlots(t)],
       Seats <- [t \in Tourists |-> ChairSlots(t)],
       Heads <- [t \in Tourists |-> 1 + KidCount[t]],
       RoomSize <- StationCapacity, PlatformSize <- PlatformGates,
       CableSize <- MaxChairs, ChairSize <- ChairCapacity, ChairIds <- Chairs,
       place <- [t \in Tourists |-> PlaceOf(t)],
       cable <- [c \in Chairs |-> OnCable(c)],
       free <- sem["chairs"],
       carried <- total_rides

\* The processes implement the lift, also with emergencies and interrupted
\* system calls: every step of theirs is one step of the lift or none, nobody is
\* carried on two chairs or on one that is full or still under way, and
\* SEM_CHAIRS counts the chairs that may depart.
ImplementsLift == L!Spec

\* Even when the workers stop for an emergency, whoever is on a chair gets off
\* and comes down.
ImplementsFairLift == L!FairSpec
=============================================================================
