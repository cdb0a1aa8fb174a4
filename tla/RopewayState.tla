---------------------------- MODULE RopewayState ----------------------------
(***************************************************************************)
(* The state the processes of the ropeway simulation share: the System V   *)
(* semaphore set, the message queues and the fields of SharedState, and    *)
(* the local state of the tourist processes and of the two platform        *)
(* workers.  The processes themselves are in Tourist, WorkerEmergency,     *)
(* LowerWorker and UpperWorker; Ropeway composes them.                     *)
(*                                                                         *)
(* A critical section protected by SEM_STATE or SEM_STATS is one step, so  *)
(* those two semaphores do not appear.                                     *)
(***************************************************************************)
EXTENDS Integers, Sequences, FiniteSets

CONSTANTS
  Tourists,         \* the tourist processes (their tourist_id is the mtype)
  NoTourist,        \* lower worker: no boarding request in hand
  Cyclists,         \* tourists of type TOURIST_CYCLIST
  KidCount,         \* [Tourists -> 0..MAX_KIDS_PER_ADULT]
  Vips,             \* tourists with is_vip
  SingleTickets,    \* tourists whose ticket is TICKET_SINGLE
  ScaredEnabled,    \* config scared_enabled
  MayClose,         \* does the station close during the run?
  StationCapacity,  \* config station_capacity
  EntryGates,       \* ENTRY_GATES (4)
  ExitGates,        \* EXIT_GATES (2)
  PlatformGates,    \* PLATFORM_GATES (3)
  MaxChairs,        \* MAX_CHAIRS_IN_TRANSIT (36)
  TotalChairs,      \* TOTAL_CHAIRS (72)
  ChairCapacity,    \* CHAIR_CAPACITY (4)
  MaxActiveChairs,  \* MAX_ACTIVE_CHAIRS (64), the upper worker's tracker array
  MaxRides,         \* bound: rides that fit into a time ticket's validity
  MaxDangers,       \* bound: dangers detected in a run (0: danger_probability 0)
  MaxPauses         \* bound: SIGTSTP/SIGCONT job-control pauses of the group

ASSUME TouristsAssumption ==
  /\ IsFiniteSet(Tourists)
  /\ NoTourist \notin Tourists
  /\ Cyclists \subseteq Tourists
  /\ Vips \subseteq Tourists
  /\ SingleTickets \subseteq Tourists
  /\ KidCount \in [Tourists -> 0..2]
  /\ \A t \in Cyclists : KidCount[t] = 0   \* tourist_parse_args

ASSUME SizesAssumption ==
  /\ ScaredEnabled \in BOOLEAN
  /\ MayClose \in BOOLEAN
  /\ StationCapacity \in Nat \ {0}
  /\ EntryGates \in Nat \ {0}
  /\ ExitGates \in Nat \ {0}
  /\ PlatformGates \in Nat \ {0}
  /\ MaxChairs \in Nat \ {0}
  /\ TotalChairs \in Nat \ {0}
  /\ ChairCapacity \in Nat \ {0}
  /\ MaxActiveChairs \in Nat \ {0}
  /\ MaxRides \in Nat \ {0}
  /\ MaxDangers \in Nat
  /\ MaxPauses \in Nat

VARIABLES
  \* --- System V IPC -----------------------------------------------------
  sem,                  \* [Semaphores -> Nat], the semaphore set
  mq_platform,          \* mtype -> FIFO of requests (1: bounced, 2: regular)
  mq_boarding,          \* tourist id (the mtype) -> FIFO of confirmations
  mq_arrivals,          \* FIFO of ArrivalMsg
  mq_worker,            \* worker (WORKER_DEST_*) -> FIFO of handshake messages
  \* --- SharedState --------------------------------------------------------
  emergency_stop,
  emergency_waiters,
  lower_station_count,
  total_rides,
  closing,
  \* --- tourist processes --------------------------------------------------
  tpc,                  \* where each tourist is in its ride loop
  rides_completed,
  seat,                 \* chair_id and tourists_on_chair of the current ride
  \* --- both workers -------------------------------------------------------
  wpc,                  \* where each worker is in its main loop
  is_initiator,         \* g_is_emergency_initiator
  emergency_signal,     \* g_emergency_signal, set by the SIGUSR1 handler
  recent_danger,        \* danger_duration_sim has not passed since its last danger
  \* --- lower worker -------------------------------------------------------
  cur,                  \* the request received and not yet placed
  pending,              \* g_pending[0 .. g_pending_count-1]
  chair_slots_used,     \* current_chair_slots
  chair_number,
  \* --- upper worker -------------------------------------------------------
  expected,             \* chair -> tracker.expected, 0 when not tracked
  arrived,              \* chair -> tracker.arrived
  \* --- bounds -------------------------------------------------------------
  dangers,              \* dangers detected so far
  pauses                \* job-control pauses so far

ipcVars     == <<sem, mq_platform, mq_boarding, mq_arrivals, mq_worker>>
queueVars   == <<mq_platform, mq_boarding, mq_arrivals, mq_worker>>
flagVars    == <<emergency_stop, emergency_waiters>>
statVars    == <<lower_station_count, total_rides, closing>>
touristVars == <<tpc, rides_completed, seat>>
handshakeVars == <<is_initiator, emergency_signal, recent_danger, dangers>>
workerVars  == <<wpc, is_initiator, emergency_signal, recent_danger, dangers>>
lowerVars   == <<cur, pending, chair_slots_used, chair_number>>
upperVars   == <<expected, arrived>>

vars == <<ipcVars, flagVars, statVars, touristVars, workerVars, lowerVars,
          upperVars, pauses>>
-----------------------------------------------------------------------------
(* Processes, semaphores and messages. *)

Workers == {"lower", "upper"}

Other(w) == IF w = "lower" THEN "upper" ELSE "lower"

Semaphores == {"entry", "exit", "platform", "station", "chairs", "clear", "lock"}

Chairs == 1..TotalChairs

\* A seat as the boarding confirmation and the arrival message carry it.
Seat == [chair : 0..TotalChairs, n : Nat]

NoSeat == [chair |-> 0, n |-> 0]

ArrivalMsg == [tourist : Tourists, chair : 0..TotalChairs, n : Nat]

WorkerMsg == {"READY_TO_RESUME", "I_AM_READY"}

\* Places in the waiting room: the person and the kids, a bike takes none.
StationSlots(t) == 1 + KidCount[t]

\* Places on a chair: a cyclist's bike takes one too.
ChairSlots(t) == (IF t \in Cyclists THEN 2 ELSE 1) + KidCount[t]
-----------------------------------------------------------------------------
(* semop on one semaphore of the set. *)

SemWait(s, n) == sem[s] >= n /\ sem' = [sem EXCEPT ![s] = @ - n]

SemPost(s, n) == sem' = [sem EXCEPT ![s] = @ + n]

\* The values ipc_sem_create gives the set.
SemInit == [s \in Semaphores |->
              CASE s = "entry"    -> EntryGates
                [] s = "exit"     -> ExitGates
                [] s = "platform" -> PlatformGates
                [] s = "station"  -> StationCapacity
                [] s = "chairs"   -> MaxChairs
                [] s = "clear"    -> 0
                [] s = "lock"     -> 1]
=============================================================================
