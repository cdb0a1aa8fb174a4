\* Two tourists, the two threads of the generator and main's shutdown.
CONSTANTS
  Total = 2
  MayBeKilled = TRUE
SPECIFICATION FairSpec
INVARIANTS
  NoOrphans
  ActiveExact
PROPERTIES
  JoinReturns
  GeneratorEnds
