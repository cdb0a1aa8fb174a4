\* SIGTSTP and SIGCONT hit the time server anywhere in its loop.
CONSTANTS
  sim_start_minutes = 2
  sim_end_minutes = 10
  time_acceleration = 2
  MaxReal = 7
  MaxPauses = 3
SPECIFICATION Spec
INVARIANTS
  PauseAccounting
  PauseExcluded
PROPERTIES
  SimTimeMonotone
