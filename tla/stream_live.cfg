SPECIFICATION FairSpec
CHECK_DEADLOCK FALSE
CONSTANTS
  Clients = {c1}
  Sizes = {1}
  Capacity = 3
  HighWater = 2
  LowWater = 1
  EventCap = 3
  MaxInFlight = 1
  MaxClock = 3
  MaxNotes = 1
  MaxCommands = 4
  Synchronized = FALSE
PROPERTIES
  CatchesUp
  RequestsReturn
