\* A day without emergencies: a family of three, a cyclist and a VIP with a day ticket.
CONSTANTS
  anna = anna
  bob = bob
  cleo = cleo
  NoTourist = NoTourist
  Tourists = {anna, bob, cleo}
  Cyclists = {bob}
  KidCount <- BigFamily
  Vips = {cleo}
  SingleTickets = {anna, bob}
  ScaredEnabled = TRUE
  MayClose = TRUE
  StationCapacity = 3
  EntryGates = 1
  ExitGates = 1
  PlatformGates = 2
  MaxChairs = 1
  TotalChairs = 2
  ChairCapacity = 4
  MaxActiveChairs = 2
  MaxRides = 2
  MaxDangers = 0
  MaxPauses = 0
SPECIFICATION FairSpec
INVARIANTS
  TypeOK
  RequestAccounting
  TrackerExact
PROPERTIES
  ImplementsLift
  EveryoneLeaves
