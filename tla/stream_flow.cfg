SPECIFICATION Spec
CHECK_DEADLOCK FALSE
CONSTANTS
  Clients = {c1}
  Sizes = {1}
  Capacity = 3
  HighWater = 2
  LowWater = 1
  EventCap = 2
  MaxInFlight = 2
  MaxClock = 3
  MaxNotes = 1
  MaxCommands = 4
  Synchronized = TRUE
INVARIANTS
  ReplicaConsistent
  NoDeltaLost
  OutputLeavesRoom
PROPERTIES
  SeqNeverRegresses
