\* More tourists than the queue has room for: does the desk block itself?
CONSTANTS
  anna = anna
  bob = bob
  cleo = cleo
  NoTourist = NoTourist
  Tourists = {anna, bob, cleo}
  KidCount <- OneFamily
  QueueCapacity = 2
SPECIFICATION FairSpec
INVARIANTS
  DeskNotStuck
