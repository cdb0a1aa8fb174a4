\* Up to three dangers, detected by either worker or by both at once.
CONSTANTS
  anna = anna
  bob = bob
  cleo = cleo
  NoTourist = NoTourist
  Tourists = {anna, bob}
  Cyclists = {}
  KidCount <- SmallFamily
  Vips = {}
  SingleTickets = {bob}
  ScaredEnabled = FALSE
  MayClose = FALSE
  StationCapacity = 3
  EntryGates = 1
  ExitGates = 1
  PlatformGates = 2
  MaxChairs = 1
  TotalChairs = 4
  ChairCapacity = 4
  MaxActiveChairs = 2
  MaxRides = 2
  MaxDangers = 3
  MaxPauses = 0
SPECIFICATION FairSpec
INVARIANTS
  LockDiscipline
  HandshakeInStep
  WaiterAccounting
  NoDoubleBoarding
  ChairAccounting
PROPERTIES
  ImplementsFairLift
CHECK_DEADLOCK FALSE
