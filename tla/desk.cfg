\* Ticket sales, with a queue one place too small, until the day ends.
CONSTANTS
  anna = anna
  bob = bob
  cleo = cleo
  NoTourist = NoTourist
  Tourists = {anna, bob, cleo}
  KidCount <- OneFamily
  QueueCapacity = 2
SPECIFICATION FairSpec
INVARIANTS
  OneMessageEach
  SalesAccounting
PROPERTIES
  EveryoneAnswered
  ShutdownCompletes
