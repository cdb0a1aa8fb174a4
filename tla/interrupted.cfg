\* Emergencies and a stop of the process group: system calls fail with EINTR.
CONSTANTS
  anna = anna
  bob = bob
  cleo = cleo
  NoTourist = NoTourist
  Tourists = {anna, bob}
  Cyclists = {}
  KidCount <- SmallFamily
  Vips = {}
  SingleTickets = {bob}
  ScaredEnabled = FALSE
  MayClose = FALSE
  StationCapacity = 3
  EntryGates = 1
  ExitGates = 1
  PlatformGates = 2
  MaxChairs = 2
  TotalChairs = 4
  ChairCapacity = 4
  MaxActiveChairs = 2
  MaxRides = 2
  MaxDangers = 2
  MaxPauses = 1
SPECIFICATION Spec
INVARIANTS
  GateAccounting
  StationAccounting
PROPERTY ImplementsLift
CHECK_DEADLOCK FALSE
