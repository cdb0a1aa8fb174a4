\* Two tourists of every kind, and a day that may be interrupted at any moment.
CONSTANTS
  Visitors = {1, 2}
  Files <- SmallFiles
  Ages = {9, 25, 26, 65}
  Tickets = {"SINGLE", "T1", "DAILY"}
  MaxRides = 2
  MaxNow = 540
SPECIFICATION Spec
INVARIANTS
  EverybodyFits
  CapacityRespected
  PricesExact
  TicketsCoverRides
  ReportAddsUp
  UnusedMeansExpired
CHECK_DEADLOCK FALSE
