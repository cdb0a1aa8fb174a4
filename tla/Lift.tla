-------------------------------- MODULE Lift --------------------------------
(***************************************************************************)
(* What the ropeway promises, without processes, queues or semaphores: a   *)
(* waiting room and a platform with limited room, a cable with a limited   *)
(* number of chairs, and passengers who get on in groups, get off one by   *)
(* one and are checked off by the upper worker, the last one with the      *)
(* chair.  RopewayLift shows that the processes of Ropeway implement it.   *)
(***************************************************************************)
EXTENDS Integers, FiniteSets

CONSTANTS
  People,        \* the tourists, each with its kids and its bike
  Rooms,         \* [People -> Nat], places each needs in the waiting room
  Seats,         \* [People -> Nat], places each needs on a chair
  Heads,         \* [People -> Nat], persons each stands for
  RoomSize,      \* places in the waiting room
  PlatformSize,  \* tourists on the platform
  CableSize,     \* chairs under way
  ChairSize,     \* places on a chair
  ChairIds       \* the numbers painted on the chairs

VARIABLES
  place,    \* where everybody is
  cable,    \* chair -> its passengers that are not checked off yet
  free,     \* chairs that may still depart
  carried   \* persons brought up and down again

liftVars == <<place, cable, free, carried>>

AtPlace(p) == {t \in People : place[t] = p}

\* The places the people in S need, counted as pairs of one of them and a number.
Total(need, S) == Cardinality(UNION {{t} \X (1..need[t]) : t \in S})

Move(t, from, to) == place[t] = from /\ place' = [place EXCEPT ![t] = to]

Init ==
  /\ place = [t \in People |-> "below"]
  /\ cable = [c \in ChairIds |-> {}]
  /\ free = CableSize
  /\ carried = 0

EnterRoom(t) ==
  /\ Move(t, "below", "room")
  /\ Total(Rooms, AtPlace("room")) + Rooms[t] <= RoomSize
  /\ UNCHANGED <<cable, free, carried>>

GoHome(t) ==
  /\ Move(t, "below", "home") \/ Move(t, "room", "home")
  /\ UNCHANGED <<cable, free, carried>>

EnterPlatform(t) ==
  /\ Move(t, "room", "platform")
  /\ Cardinality(AtPlace("platform")) < PlatformSize
  /\ UNCHANGED <<cable, free, carried>>

\* A chair leaves with a group that waited on the platform and fits.
Depart(c, G) ==
  /\ free > 0 /\ free' = free - 1
  /\ cable[c] = {} /\ G # {} /\ G \subseteq AtPlace("platform")
  /\ Total(Seats, G) <= ChairSize
  /\ cable' = [cable EXCEPT ![c] = G]
  /\ place' = [t \in People |-> IF t \in G THEN "chair" ELSE place[t]]
  /\ UNCHANGED carried

GetOff(t) ==
  /\ Move(t, "chair", "top")
  /\ UNCHANGED <<cable, free, carried>>

\* The upper worker checks off a passenger who got off; the chair is free again
\* with the last one.
CheckOff(c, t) ==
  /\ UNCHANGED <<carried, place>>
  /\ t \in cable[c]
  /\ cable' = [cable EXCEPT ![c] = @ \ {t}]
  /\ free' = free + (IF cable[c] = {t} THEN 1 ELSE 0)

Descend(t) ==
  /\ Move(t, "top", "below") \/ Move(t, "top", "home")
  /\ carried' = carried + Heads[t]
  /\ UNCHANGED <<cable, free>>

Next ==
  \/ \E t \in People :
       \/ EnterRoom(t) \/ GoHome(t) \/ EnterPlatform(t) \/ GetOff(t) \/ Descend(t)
  \/ \E c \in ChairIds :
       \/ \E t \in People : CheckOff(c, t)
       \/ \E G \in SUBSET People : Depart(c, G)

Spec == Init /\ [][Next]_liftVars

\* Whoever is on a chair gets off and comes down.
FairSpec == Spec /\ \A t \in People : WF_liftVars(GetOff(t) \/ Descend(t))
=============================================================================
