\* Startup, a day and shutdown with two workers; one process may be killed, or the group stopped once.
CONSTANTS
  SpawnOrder <- TwoWorkers
  MaxFaults = 1
SPECIFICATION FairSpec
INVARIANTS
  NothingOutlivesMain
  BarrierHolds
PROPERTIES
  Terminates
  ShutdownCompletes
  ZombiesReaped
CHECK_DEADLOCK FALSE
