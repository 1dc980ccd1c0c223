SPECIFICATION Spec
CHECK_DEADLOCK FALSE
CONSTANTS
  Clients = {c1, c2}
  Sizes = {1, 2}
  Capacity = 2
  HighWater = 2
  LowWater = 1
  EventCap = 1
  MaxInFlight = 1
  MaxClock = 2
  MaxNotes = 0
  MaxCommands = 4
  Synchronized = FALSE
SYMMETRY Symmetry
INVARIANTS
  TypeOK
  IInv
