\* Runs after each other and at the same time, some of them killed anywhere.
CONSTANTS
  r1 = r1
  r2 = r2
  r3 = r3
  None = None
  Runs = {r1, r2, r3}
  QueueCount = 2
  MaxCrashes = 2
SPECIFICATION Spec
SYMMETRY Symmetry
INVARIANTS
  LeftoversFindable
  CrashRecovered
  RunningIntact
  NothingLeaks
