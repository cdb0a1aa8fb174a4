\* A worker is killed: does main notice?
CONSTANTS
  SpawnOrder <- CashierAndTime
  MaxFaults = 1
SPECIFICATION Spec
INVARIANT WorkerDeathNoticed
CHECK_DEADLOCK FALSE
