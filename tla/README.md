# Ropeway simulation: TLA+ models, checks and proofs

This directory models the ropeway simulation (`src/`): a C program in which one
main process forks a time server, a cashier, two platform workers and a tourist
generator, and the generator forks one process per tourist. All of them share a
System V segment, a semaphore set and five message queues, and use POSIX signals
for emergencies, for shutdown and for job control. Nearly everything that can go
wrong is an interleaving of blocking calls and signals, which is what the models
are about. Paths below are relative to `src/`.

- [1 The system](#1-the-system): inventory, interactions, what is hard
- [2 The modules](#2-the-modules): what each models, and where it abstracts
- [3 The runs](#3-the-runs): what is checked, bounds, fairness
- [4 Where code and documentation differ](#4-where-code-and-documentation-differ)
- [5 The proofs](#5-the-proofs)
- [6 What is not modelled](#6-what-is-not-modelled), [7 Plan](#7-plan)

## 1 The system

| Component | State | Operations | Talks to |
|---|---|---|---|
| main (`src/main.c`, `src/lifecycle/`) | `main_pid`, `running`, `closing`, `g_running`, `g_child_exited`, children | create IPC, spawn, barrier, loop with alarm and reaping, signal handlers, shutdown, wait | everybody, through SharedState, signals, SEM_WORKER_READY and IPC_RMID |
| IPC objects (`src/ipc/`) | segment, semaphore set, five queues, keyed by `ftok` | clean stale, create exclusively, destroy | main of this and of other runs |
| time server (`src/processes/time_server.c`, `src/core/time_sim.c`) | pause flags and offset, `current_sim_time_ms` | loop, SIGTSTP/SIGCONT/SIGTERM handlers | readers of simulated time |
| cashier (`src/processes/cashier.c`) | its request, `total_tourists` | receive, check closing, count, answer | tourists, over MQ_CASHIER |
| tourist (`src/tourist/`) | ticket, rides, seat | buy, ride loop (gate, station, platform, board, ride, arrive, trail) | cashier, both workers, gates |
| lower worker (`src/processes/lower_worker.c`) | request in hand, buffered tourists, chair number | receive, bounce, place, dispatch | tourists (MQ_PLATFORM, MQ_BOARDING), SEM_CHAIRS, upper worker |
| upper worker (`src/processes/upper_worker.c`) | tracker per chair | receive arrival, complete chair | tourists (MQ_ARRIVALS), SEM_CHAIRS, lower worker |
| emergency protocol (`src/common/worker_emergency.c`, `src/ipc/sync.c`) | `emergency_stop`, `emergency_waiters`, initiator, SEM_EMERGENCY_LOCK/CLEAR | trigger, acknowledge, resume | SIGUSR1/SIGUSR2, MQ_WORKER, tourists at the platform |
| generator (`src/processes/tourist_generator.c`) | `tourist_id`, `active_tourists`, `reaper_running` | draw attributes and spawn, reaper thread, stop and join, final wait | tourists, main (SIGTERM, flags) |
| configuration (`src/core/config.c`) | `Config` | defaults, lines, validation | semaphore values, clock, generator |
| statistics and report (`src/tourist/stats.c`, `src/core/report.c`) | totals, counts per ticket, `TouristEntry` | sale, entry, ride, report | cashier, tourists, main, under SEM_STATS |
| kid and bike threads (`src/tourist/threads.c`) | none | start, join | their tourist |
| logger, keys | | no shared protocol | |

What makes each part correct:

- *Ride loop*: gates and station places are given back exactly once, the station
  is never over capacity (`test1_capacity.sh`), nobody is boarded twice or
  forgotten, everybody leaves.
- *Chairs*: no chair is overloaded; a permit of SEM_CHAIRS returns exactly when
  the last passenger of its chair has been processed.
- *Emergency*: one initiator, a handshake that stays in step, no waiting tourist
  forgotten and no wake-up left over, passengers in the air still get down.
- *Ticket desk*: every purchase is answered exactly once, statistics match the
  tickets, shutdown frees everybody.
- *Time*: pauses are not counted as time, time never runs back.
- *Life cycle*: no tourist before every worker is ready; left alone or interrupted
  at any moment, main ends and leaves no process, zombie or object behind.
- *Generator*: no tourist outlives it, its counter is exact, its second thread can
  always be stopped.
- *Visit*: whoever the generator sends is accepted and fits on a chair, prices and
  validity are right, the report adds up whenever the shutdown comes.
- *IPC objects*: whatever a crash leaves is found by the next run, a run that is
  serving is never touched, a failed start cleans up after itself.

What is hard: signals between a test and the blocking call it guards; EINTR in
the middle of a multi-step operation; two workers detecting danger at once;
requests that go back into a queue; numbers that wrap; one bounded queue for both
directions; removal of IPC objects under running processes; a crash between two
system calls. `PROJECT.json` lists each hazard at its line with the properties
that would notice it.

## 2 The modules

```
RopewayState ── Tourist ─────────────────────┐
      └──────── WorkerEmergency ─ LowerWorker ├─ Ropeway ── RopewayLift ── MCRopeway
                       └───────── UpperWorker ┘     │             ┆ implements
                                                    │       │    Lift
                                                    │       └───────────────┐
                                                    └── RopewayProofs ── RopewayBoardingProofs
Cashier ─┬─ MCCashier               MainProcess ─┬─ MCMainProcess
         └─ CashierProofs                        └─ MainProcessProofs
IpcLifecycle ─┬─ MCIpcLifecycle     Visit ─┬─ MCVisit
              └─ IpcLifecycleProofs        └─ VisitProofs
TimeServer ── TimeServerProofs      Generator ── GeneratorProofs
```

**RopewayState** declares the semaphore set (`sem`), the queues, the fields of
`SharedState`, the local state of the processes, and the constants with their
assumptions. A critical section under SEM_STATE or SEM_STATS is one step, so those
two semaphores are not variables. A `sem_post` or a purely local assignment that
follows a blocking call belongs to the same step.

**Tourist** is the loop of `tourist/main.c`, one action per blocking call:
`StartRide`/`LeaveForGood` (loop condition), `EnterGate`, `EnterStation` (one
semop for the family), `CountIn` (count, release the gate, fear), `EnterPlatform`,
`CountOut`, `LeaveStation`, `ReadEmergency`/`WaitEmergency`/`EmergencyCleared`
(`sync.c`), `SendRequest`, `Board`, `EnterExitGate`, `ArriveUpper`,
`DescendTrail`. A VIP takes no entry gate. Whether a time ticket is still valid is
nondeterministic up to `MaxRides`; durations are left out.

**LowerWorker** is `lower_worker_main`: `LowerCheckFlag`, `LowerReceive`
(`msgrcv(..., -2, ...)`: bounced requests before regular ones), `LowerTimeout` (the
100 ms alarm or any other EINTR), `LowerBounce`, `LowerPlace`, `LowerNoFit`,
`LowerDispatch`, and `LowerDrop`, the `continue` after an interrupted semop.

**UpperWorker** is `upper_worker_main`: `UpperWait`, `UpperSleep` (the check, then
the sleep in msgrcv), `UpperReceive` with `TrackArrival` for the bounded array of
`ChairTracker`.

**WorkerEmergency** is the protocol for either worker: `DetectDanger`,
`TriggerSetFlag`, `TriggerKill`, `TriggerAbort`; `SignalSeen`, `AckSetFlag`,
`AckReply`, `AckClearFlag`; `ResumeSend`, `ResumeReceive`, `ResumeKill`,
`ResumeClearFlag`, `ReleaseWaiters`, `ResumeUnlock`. `recent_danger[w]` stands for
"less than `danger_duration_sim` since w's last danger": the same time stamp
decides the cooldown and the resume. `AfterSignal` says where a signal can leave
the worker it hits.

**Ropeway** composes them, adds `CloseStation` (main) and `Pause` (SIGTSTP and
SIGCONT of the process group), and states the properties.

**Lift** says what all of this is for, in seven actions without processes, queues or
semaphores: `EnterRoom`, `GoHome`, `EnterPlatform`, `Depart` (a group that fits takes
a free chair), `GetOff`, `CheckOff` (the last passenger of a chair frees it),
`Descend`. Its `FairSpec` promises only that whoever is on a chair comes down.
**RopewayLift** is the refinement mapping. A tourist is on the chair from the
moment its confirmation is in MQ_BOARDING, not when the tourist process reads it;
a chair's passengers are its riders and the arrivals the upper worker has not
processed; `free` is SEM_CHAIRS itself. So one dispatch of the lower worker, which
confirms a whole buffer, must be one `Depart`, and every permit must come back
with the right passenger.

**Cashier** is the desk with its one bounded queue: the purchase
(`tourist_buy_ticket`), the cashier's loop, and main's way out: `EndOfDay` or
`Interrupt` with the handler that removes the IPC objects at once, then
`StopRunning`, `TermCashier`, `RemoveQueue`, `RemoveSemaphores`, `WorkersReaped`.
Prices and validities are in Visit.

**TimeServer** is the loop of the time server with the three handlers between
any two of its instructions. SIGTSTP's handler resets itself (SA_RESETHAND) and
raises the signal again, which stops the process when the handler returns; the
SIGCONT handler installs it anew. SIGTSTP discards a pending SIGCONT. `running` is
the loop condition. `stopped_time`, `unhandled_time` and `overlap` are history
variables.

**IpcLifecycle** is start and end of several runs that use the same keys. The
five queues of an abandoned run are removed in one step: the segment goes last
there, so a crash in the middle leaves a state the next run treats alike. `rival`
and `overlap` are history variables.

**MainProcess** is `main.c` from the first fork to the last wait, with the
children reduced to what their lives depend on. Main: `SpawnWorker`,
`CheckSpawned`, `WaitWorkersReady`/`BarrierFails`, `SpawnGenerator`, `LoopTest`,
`ReapZombies` (flag cleared first, then one child per step), `CheckTime`,
`GoToSleep`, `AlarmRings`, then `StopRunning`, `TermChildren`, `RemoveQueues`,
`RemoveSemaphores`, `WaitForWorkers`, `DestroyIpc`; handlers `Sigchld` and
`Interrupt`, the latter with its removals one by one (`HandlerStep`). A worker
installs its handlers (`WorkerInit`), posts SEM_WORKER_READY, and then alternates
between its loop condition and a call of the kind it uses: on a queue, on a
semaphore, or a nap with an alarm. A signal before `WorkerInit` reaches main's
handler in the child and is lost. Faults: a fork fails, a worker is killed
(`Kill`), the group is stopped long enough for an armed alarm to be delivered
before its `pause` (`Stop`).

**Generator** has the two threads of the generator: the spawn loop, the counting,
the stop of the reaper in its three steps (clear the flag, `pthread_kill`, join)
and the final wait; and the thread's `sigwait`, test, reap and count. SIGCHLD is
one bit for the process and one for the thread. Tourists are reduced to the calls
they may wait in when the objects vanish, and main to its shutdown, by the loop's
end or by the handler.

**Visit** follows values instead of interleavings: `Loaded` gives every key the value
of its last line in the configuration file (`LinesFor`) or its default, `ConfigValid` is `config_validate`, `StartUp`
stores the capacity in 16 bits as `sem.c` does, `Generate` draws what the
generator draws, `Enter` is `tourist_parse_args`, `Sale` prices and validity,
`RecordEntry`, `Ride`, `UpdateStats` the statistics, each of which is skipped when
the semaphores are gone, and `WriteReport` the rows and totals.

How system calls behave (taken from how the code depends on them, Linux
semantics): `msgrcv` fails with EINTR only if no message is there; a `semop` on
SEM_STATE fails with EINTR only if somebody else may hold it (`StateContended`);
after a stop and continue `semop` returns EINTR while `msgrcv` and `msgsnd` are
restarted; a call blocked on an object fails when the object is removed, and so
does every later one.

## 3 The runs

Passing runs:

| Run | Question | Properties |
|---|---|---|
| `service` | A day without emergencies: family of three, cyclist, VIP; one entry gate, three places, two platform gates, one chair in transit, station may close | `TypeOK`, `RequestAccounting`, `TrackerExact`, `ImplementsLift` (refinement), `EveryoneLeaves` (liveness) |
| `emergency` | Up to three dangers, by either worker or both | `LockDiscipline`, `HandshakeInStep`, `WaiterAccounting`, `NoDoubleBoarding`, `ChairAccounting`, `ImplementsFairLift` (refinement with liveness) |
| `interrupted` | Two dangers and a pause of the process group anywhere | `GateAccounting`, `StationAccounting`, `ImplementsLift` |
| `desk` | Three tourists, a queue for two messages, end of day or Ctrl-C at any moment | `OneMessageEach`, `SalesAccounting`, `EveryoneAnswered`, `ShutdownCompletes` (liveness, both) |
| `pauses` | SIGTSTP/SIGCONT/SIGTERM between any two instructions | `PauseAccounting`, `PauseExcluded`, `SimTimeMonotone` (action property) |
| `restarts` | Three runs, in sequence or overlapping, two of them killed anywhere | `LeftoversFindable`, `CrashRecovered`, `RunningIntact`, `NothingLeaks` |
| `lifetime` | Startup, day and shutdown of main; a fork fails, a worker is killed, the group is stopped, Ctrl-C, anywhere | `NothingOutlivesMain`, `BarrierHolds`, `Terminates`, `ShutdownCompletes`, `ZombiesReaped` (liveness, the last three) |
| `generator` | Two tourists, two threads, the shutdown; the generator may be killed | `NoOrphans`, `ActiveExact`, `JoinReturns`, `GeneratorEnds` (liveness, both) |
| `visits` | Two visitors of every kind, valid and invalid configuration files, the shutdown anywhere | `EverybodyFits`, `CapacityRespected`, `PricesExact`, `TicketsCoverRides`, `ReportAddsUp`, `UnusedMeansExpired` |

Each module also defines its `TypeOK`. Ropeway's is checked and proved, Visit's and
IpcLifecycle's are proved; the others say nothing beyond the types and hold under the
same configurations, and the proofs state the part of them they use. The gate and
station accounts hold in `service` and `emergency` too; they are checked where
most can disturb them, and proved for all.

Runs whose property the code violates: `mutual_wait`, `desk_full`, `child_death`
(section 4).

`CHECK_DEADLOCK FALSE` is set in the runs with emergencies or pauses, because the
two workers can really stop there: that is what `mutual_wait` shows; in
`lifetime` and `child_death`, where main can sleep for ever after a lost alarm or
the death of the time server; and in `visits`, whose model ends with the report. In
`service`, `desk`, `pauses`, `restarts` and `generator` deadlock is an error.

**Bounds and why they are enough.**

- Gates, places and chairs in transit are set to one to three, so that every
  semaphore is contended with two or three tourists. `StationCapacity` 3 is the
  smallest station a family of three fits into; `ChairCapacity` 4 is the code's.
  The family (3 slots) and the cyclist (2) do not fit on one chair together, so
  the no-fit path is taken.
- `TotalChairs` 4 with `MaxChairs` at most 2 keeps more numbers than chairs in
  transit, as 72 and 36 do. In the passing runs the number of departures is too
  small for a number to meet its predecessor (see Further divergences for what
  happens then).
- `MaxRides` 2 lets a day ticket come back once, which covers everything a ride
  leaves behind for the next one.
- `MaxDangers` 3: one emergency, one that overlaps its end, and one that finds
  what both left behind. `MaxPauses` 1: each EINTR path needs a single stop.
- `QueueCapacity` 2 for three tourists: one more tourist than the queue holds,
  so both a flowing and a blocked desk occur.
- `lifetime`: the time server, which wakes by itself, and the lower worker, which
  blocks on a queue, on a semaphore or in a nap, stand for the four workers: the
  cashier and the upper worker block in the same kinds of call. One fault
  (`MaxFaults` 1) at any place; each fault path needs one. `child_death` has the
  time server and the cashier, the worker that `test16_child_death.sh` kills.
- `generator`: with two tourists (`Total` 2) one can end while the other is reaped,
  so SIGCHLDs merge; `MayBeKilled` adds the death of the generator.
- `visits`: ages on both sides of every limit the code tests (9, 25, 26, 65; the
  limit of ten for the discount is between 9 and 25), one ticket of each kind of
  validity, a day of one minute so that expiry happens, and the files of
  `SmallFiles`: defaults, percentages at 0 and 100, an unknown key, a key given
  twice, capacities above SEMVMX, above 65535 and negative, and one file for each
  kind of rejection. Two rides show the second ride of a time ticket.
- `MaxReal` 7, `MaxPauses` 3 (time server): three pauses of different lengths with
  running time between and after them, or overlapping.
- `Runs` 3, `MaxCrashes` 2, `QueueCount` 2: a run that crashes, one that crashes
  while it cleans up after the first, and one that must succeed. Two queues show
  every position in their order (first, last, between). The runs are symmetric
  and the run has no liveness property.

**Fairness.** `FairSpec` of Ropeway assumes that every tourist, both workers and
simulated time keep going (WF on each process's step and on `DurationPasses`):
the processes are independent and the kernel schedules them. Semaphores and
queues need no strong fairness for the properties checked. The end of the day, a
danger and a pause are never forced. In Cashier, processes that can run do run,
pending signals are delivered, and main's shutdown continues once begun; whether
and when the day ends is open. In MainProcess, main,
its handlers and the workers run on, pending signals are handled, and the day ends
as long as the time server lives; faults and Ctrl-C are never forced. In
Generator, the two threads, every tourist that can move and main's shutdown run
on; nobody is promised to be served and the day need not end. TimeServer,
IpcLifecycle and Visit are checked for safety only.

**Properties with conditions.** `LockDiscipline`, `HandshakeInStep` and
`WaiterAccounting` hold while no pause has happened: an interrupted
`worker_trigger_emergency_stop` gives the lock back and stays the initiator, and an
interrupted waiter leaves its registration behind. `PauseAccounting` and
`PauseExcluded` hold until a SIGTSTP is caught while the pause before is unhandled
(`overlap`); `LeftoversFindable`, `CrashRecovered` and `RunningIntact` until a run
begins while another one is still starting. `EveryoneAnswered` holds unless the
desk blocks itself (`Stuck`), which takes more tourists than the queue holds
messages. `Terminates` and `ShutdownCompletes` of MainProcess hold unless an alarm was
lost between arming and sleeping (`MainLost`, `WorkerLost`), `Terminates` also unless
a worker was killed; `ZombiesReaped` does not speak of main inside the startup
barrier. `NoOrphans` speaks of a generator that ends by itself. `UnusedMeansExpired`
speaks of an open station where nobody is too scared to ride; it allows a time
ticket that is expired when it is sold, which the desk does after the end of the
day and for durations `config_validate` does not check. `ImplementsLift` needs chair numbers that do
not meet their predecessors, as above. `RequestAccounting` is checked without emergencies and
pauses; with them only `NoDoubleBoarding` holds, because a signal while the lower
worker waits for SEM_STATE makes it forget a request.

## 4 Where code and documentation differ

Each of these has a run with a counterexample:

| Run | Property | What happens |
|---|---|---|
| `mutual_wait` | `NoMutualWait` | A SIGUSR1 that is seen late, or a failed `sem_trywait`, lets a worker acknowledge an emergency that is already over; both workers then wait for READY_TO_RESUME. `NoMutualWait` also forbids the second way in, below. |
| `desk_full` | `DeskNotStuck` | Requests fill MQ_CASHIER; the cashier waits for room only it can make. |
| `child_death` | `WorkerDeathNoticed` | The cashier is killed and reaped, and nobody looks at which child it was: with the day not over, main goes back to sleep and `running` stays set (README.md:814 promises a shutdown). |

### Further divergences

These are not among the runs. Each can be reproduced from an existing
configuration by the change named:

- `ChairAgainstResume`, the second part of `NoMutualWait`, happens with a single
  danger: the constants of `mutual_wait` with `Tourists = {anna, bob, cleo}`,
  `MaxDangers = 1`, `MaxRides = 1`, `PlatformGates = 3`, `StationCapacity = 4`, and only that
  part of the invariant. The lower worker waits for SEM_CHAIRS, retrying through
  every signal (`src/processes/lower_worker.c:107`), while the upper worker, the
  only one to give chairs back, waits for its answer.
- `ResumeAnswered` (Ropeway) is refuted under `FairSpec` with the constants of
  `mutual_wait` and `MaxDangers = 1`: SIGUSR1 between the upper worker's test and its
  msgrcv wakes nobody (`src/processes/upper_worker.c:214`; README.md:758 says
  "System recovers").
- `RequestAccounting` is refuted as an invariant of `interrupted`: the `continue`
  after an interrupted `sem_wait` forgets the request just received
  (`src/processes/lower_worker.c:260`; README.md:59 says that every system call
  handles EINTR).
- `ChairsReturned` (Ropeway) is refuted with the constants of `mutual_wait` and
  `MaxDangers = 0`, `MaxChairs = 2`, `MaxRides = 5`, `SingleTickets = {}`: a chair
  number that comes round while its predecessor is in transit shares its tracker
  (`src/processes/upper_worker.c:103`), and a permit is lost (README.md:89).
- `NoTimeJump` (TimeServer) is refuted as an invariant of `pauses`: a second SIGTSTP
  overwrites `g_pause_start` (`src/processes/time_server.c:52`), and the first
  pause counts as time (`tests/test17_pause_resume.sh:6-7`).
- README.md:146 gives VIPs `mtype` 1 on MQ_PLATFORM. Tourists always send 2
  (`src/tourist/boarding.c:43`); 1 is what the lower worker gives the requests it
  puts back. The model follows the code.
- README.md:57, 152 and 175 describe a reaper thread with `sigwait()` in main. Main
  has a SIGCHLD handler and a flag; the thread is the generator's.
- Rides and trails sleep with `nanosleep` in `tourist_pauseable_sleep`
  (`src/tourist/movement.c:33`), called pause-aware in its comment. It counts real
  time, and so does the remainder after EINTR (line 37): a pause shortens the ride,
  although simulated time excludes it. Durations are not modelled.

- `NoDepartureInEmergency` (Ropeway) is refuted with the constants of `emergency`:
  a chair departs while `emergency_stop` is set, because the flag is not read again
  between a timeout and `dispatch_chair` (`src/processes/lower_worker.c:245`).
- `StopLastsDuration` (Ropeway) is refuted with the constants of `mutual_wait`: a
  receiver delayed before line 168 of `src/common/worker_emergency.c` clears the
  flag of the next emergency.
- `EveryoneLeaves` is refuted in `service` with `StationCapacity = 2`, which
  `config_validate` accepts: the family of three never gets in and keeps its entry
  gate (`src/core/config.c:166`).
- `RunningIntact` without its condition `~overlap` is refuted in `restarts`:
  `main_pid` is zero until `src/main.c:198`, and `ipc_cleanup_stale` takes that
  for a dead process (`src/ipc/ipc.c:50`).

## 5 The proofs

TLAPS proves every invariant and every action property the passing runs check, and
the refinement `ImplementsLift`, for every value of the constants that satisfies the
assumptions of their modules: any finite set of tourists, any number of gates,
places, chairs, dangers, pauses, runs, crashes and faults, any configuration file.
The assumptions (`TouristsAssumption` and `SizesAssumption` in RopewayState,
`DeskAssumption`, `TimeAssumption`, `LifecycleAssumption`, `MainAssumption`,
`GeneratorAssumption`, `VisitAssumption`) say no more than the configuration, the
generator and `tourist_parse_args` guarantee.

Hardly any property is inductive. Each module of proofs therefore begins with the
inductive invariant, a conjunction of named parts; one lemma per group of actions
shows that the parts survive a step, after a frame lemma has dealt with the steps
that do not touch them.

### The ride loop: RopewayProofs

| Theorem | States | Argument |
|---|---|---|
| `TypeCorrect` | `Spec => [](TypeOK /\ CurInHand)` | `TypeOK` is not inductive alone: placing and bouncing append the request in hand, so `CurInHand` says there is one wherever the lower worker uses it. |
| `EmergencyInvariant` | `Spec => [](LockInv /\ HandInv)` | `LockInv`: whoever is inside the initiator's code is the initiator and holds the only permit. `HandInv`: while the initiator waits, exactly one of request and answer is under way, and otherwise none. |
| `LockDisciplineHolds`, `HandshakeInStepHolds` | `Spec => []LockDiscipline`, `Spec => []HandshakeInStep` | from `LockInv` and `HandInv` |
| `GateAccountingHolds` | `Spec => []GateAccounting` | Every step moves one tourist, so each set of holders changes by that tourist and its semaphore by one (`MoveCard`, `GateMove`). `VipInv` is needed: a VIP is never at the entry gate. Holds under emergencies and pauses. |
| `StationAccountingHolds` | `Spec => []StationAccounting` | A family occupies as many pairs (tourist, i) as it has persons (`Places`); `MovePlaces` says how their number changes with a tourist's move. |
| `WaiterAccountingHolds` | `Spec => []WaiterAccounting` | `WaiterInv`: sleepers are the registered waiters plus the tokens; the initiator turns the first into the second. |

### Boarding, chairs and the lift: RopewayBoardingProofs

| Theorem | States |
|---|---|
| `NoDoubleBoardingHolds` | `Spec => []NoDoubleBoarding` |
| `RequestAccountingHolds` | `ChairCapacity <= MaxPendingPerChair => (Spec => [](Undisturbed => RequestAccounting))` |
| `ChairInvariant`, `ChairAccountingHolds`, `TrackerExactHolds` | `MaxChairs <= MaxActiveChairs => (Spec /\ []NumberFree => []...)` for `ChairInv`, `ChairAccounting`, `TrackerExact` |
| `ImplementsLiftHolds` | `MaxChairs <= MaxActiveChairs => (Spec /\ []NumberFree => ImplementsLift)` |
| `FirstRoundNumberFree` | `MaxChairs <= MaxActiveChairs => (Spec /\ FirstRound => []NumberFree)` |
| `FirstRoundImplementsLift` | `MaxChairs <= MaxActiveChairs => (Spec /\ FirstRound => ImplementsLift /\ [](ChairAccounting /\ TrackerExact))` |

The conditions, and why they are there:

- `Undisturbed` is `dangers = 0 /\ pauses = 0`: a signal while the lower worker waits
  for SEM_STATE makes it forget the request it holds (section 4). Without the
  condition only `NoDoubleBoarding` remains, which is proved for every behaviour.
- `ChairCapacity <= MaxPendingPerChair`: the buffer of the lower worker has room for
  everybody a chair can carry. Both are constants of the code, and both are 4.
- `MaxChairs <= MaxActiveChairs`: the upper worker has a tracker for every chair on
  the cable (36 and 64 in the code). Otherwise an arrival would not be tracked.
- `NumberFree`: when the lower worker sends a chair off, its number is not still
  under way. The code does not ensure this; it leaves it to the durations of rides.
  That the condition is needed is shown by `ChairsReturned` (section 4). It is an
  assumption about the behaviour, not about a constant, so it is written where one
  sees it, in the theorem. TLC finds it true in `service` and `interrupted`.
- `FirstRound`: no chair has departed with the last number, so there have been fewer
  than `TotalChairs` (72) departures. As long as that is so `NumberFree` follows from the code
  (`FirstRoundNumberFree`), and the theorems on chairs need no assumption about
  durations. The invariant is `RoundInv`: every chair in transit has a number below the
  next one to be given.

`NoDoubleBoarding` counts the positions of a tourist in the platform queue, in the
buffer and in its own queue (`Where`, `Occurrences`) and follows them through
receive, bounce, place and dispatch. `ChairInv` has four parts: a seat names an
existing chair and its number of passengers (`SeatInv`), so does an arrival under way
(`ArrivalInv`), a tracker expects exactly the passengers of its chair (`TrackInv`), and
permits and chairs in transit add up (`ChairAccounting`). `Departure`, `GettingOff` and
`TrackerFound` say what the three steps that move passengers change.

The refinement needs two more invariants: `LoadInv`, the buffered tourists need no
more slots than `chair_slots_used`, and that is at most a chair; and `OncePerChair`,
no tourist is twice among the passengers of one chair. The steps map as follows;
every other step leaves the lift as it is:

| Ropeway | Lift |
|---|---|
| `EnterStation` | `EnterRoom` |
| `LeaveForGood`, `LeaveStation` of a scared tourist | `GoHome` |
| `LeaveStation` otherwise | `EnterPlatform` |
| `LowerDispatch` with a buffer that is not empty | `Depart` |
| `ArriveUpper` | `GetOff` |
| `UpperReceive` | `CheckOff` |
| `DescendTrail` | `Descend` |

That the room and the platform have space comes from `StationAccounting` and
`GateAccounting`, that a departing group fits from `LoadInv`, and that a permit comes
back with the last passenger from `TrackInv` and `OncePerChair`.

### The other components

| Module | Theorems | Inductive invariant and argument |
|---|---|---|
| CashierProofs | `DeskInvariant`, `OneMessageEachHolds`, `SalesAccountingHolds`, `RoomForEveryone` | `DeskInv`: types; messages in the queue belong to different waiting tourists (`OneInQueue`), none of them to the one in the cashier's hand (`OneInHand`); the queue is removed before the semaphores (`QueueFirst`); until then whoever waits has a message or is in the cashier's hand (`NobodyForgotten`). `SalesInv` relates `total_tourists` to the persons with a ticket. `RoomForEveryone`: with `Cardinality(Tourists) <= QueueCapacity` the desk never blocks itself, because one message each leaves room for the answer; `desk_full` shows it does with less. |
| TimeServerProofs | `TimeInvariant`, `PauseAccountingHolds`, `PauseExcludedHolds`, `SimTimeMonotoneHolds` | `TimeInv`: types; `handle_resume` works on a pause (`ResumePaused`); what has been published is not ahead of what the next update can publish (`ReachInv`, the heart of monotony, also when pauses overlap); until pauses overlap, the process is stopped only inside a recorded pause and offset plus current pause are the time lost so far (`PauseInv`). |
| IpcLifecycleProofs | `LifecycleInvariant`, `LeftoversFindableHolds`, `CrashRecoveredHolds`, `RunningIntactHolds`, `NothingLeaksHolds` | `LifecycleInv`: what holds however runs overlap (`Always`: an object exists only between its creation and its removal by the same run, or after a crash; queues are made in order), and, until two runs start at once, `Quiet`: all objects belong to the owner of the segment, a cleanup never meets a serving run, a run has what it created, and one that saw no rival succeeds (`OneOwner`, `CleanupAlone`, `CreationIntact`, `AloneSucceeds`). |
| MainProcessProofs | `MainInvariant`, `NothingOutlivesMainHolds`, `BarrierHoldsAlways` | `MainInv`: each worker posts once (`ReadyOnce`) and the semaphore never holds more than was posted (`ReadyCounted`), so past the barrier all are ready (`BehindBarrier`); past the last wait nobody is left (`NobodyLeft`). |
| GeneratorProofs | `GeneratorInvariant`, `NoOrphansHolds`, `ActiveExactHolds` | `GenInv`: a tourist's number is new when it is forked (`NumbersFresh`), `NoOrphans`, and the counter is exact up to the step each thread has still to take (`ActiveExact`). |
| VisitProofs | `VisitTypes`, `EverybodyFitsHolds`, `CapacityRespectedHolds`, `PricesExactHolds`, `UnusedMeansExpiredHolds`, `TicketsCoverRidesHolds`, `StatsInvariant`, `ReportAddsUpHolds` | `StatsInv`: what is recorded agrees with the visitors (`NotYetSent`, `Recorded`, `RidesCounted`, `AllSoldTo`), the aggregates with the records (`Totals`), and the report comes last (`ReportLast`). `Covered` says who the holders of single tickets are. `Unpaid`, nobody has paid before the desk has sold the ticket, and what each step leaves of a visitor (`FareVisitor`, `FareNext`) give `UnusedMeansExpired`. |

### What stays with TLC

Liveness under fairness is beyond the prover: `EveryoneLeaves`, `ImplementsFairLift`
(its safety part is `ImplementsLift`), `EveryoneAnswered`, both `ShutdownCompletes`,
`Terminates`, `ZombiesReaped`, `JoinReturns` and `GeneratorEnds`. So is induction over
data. Sums (places, seats, persons, rides) are therefore stated as numbers of pairs:
a family of three is the pairs (t, 1), (t, 2), (t, 3), and the cardinality theorems
say what adding or removing a tourist does.

## 6 What is not modelled

- The logger (output only) and the IPC keys (`ftok`).
- Of the configuration: opening the file, splitting a line into key and value,
  `atoi`, and the times of the trails. Of the report: its layout.
- The capacity of the queues other than MQ_CASHIER.
- Durations: ride, trail, spawn delay, sleeps. A ride takes any time, so no
  property depends on them. A simulation that starts at 00:00, where
  `start_time_sim > 0` fails.
- Failing `clock_gettime` and `setitimer`, reuse of pids.
- The removal of IPC objects under the full ride loop: Ropeway covers the day until
  everybody has left; how each waiting call ends when its object vanishes is in
  Cashier, MainProcess and Generator.
- The alarm that expires before msgrcv is entered (`src/processes/lower_worker.c:238`): the
  model lets msgrcv time out whenever the platform is empty.
- A worker interrupted at SEM_STATE inside the emergency protocol by a signal of the
  other worker. That takes two initiators at once, which only a pause can lead to; the
  interruption by the pause itself is modelled (`TriggerAbort`).

## 7 Plan

Done, in this order: the ride loop with its workers (the core), the emergency
protocol, job control; the ticket desk with shutdown; the time server; the IPC
lifecycle; proofs of types, lock and handshake, gates, station, waiters; the
abstract lift and its refinement; the life of main and its workers; the generator;
configuration, tickets, statistics and report; proofs of boarding, of the chairs and
of the refinement; proofs of all invariants of the other components.

Next:

1. A condition under which `NumberFree` follows from the code after the first round
   of numbers: chairs that come back in the order in which they left.
2. What remains of `RequestAccounting` under emergencies: a forgotten request is the
   only way to lose one.
3. The safety part of the documented divergences: which behaviours without a second
   emergency exclude `NoMutualWait`.
