SPECIFICATION Spec
CHECK_DEADLOCK FALSE
CONSTANTS
  Callers = {a, b}
  Versions = {v1, v2}
  Version = v1
  EventCap = 1
  QueueCap = 1
  WireCap = 1
  MaxInFlight = 2
  MaxRequests = 2
  MaxEvents = 3
SYMMETRY Symmetry
INVARIANTS
  NoOrphanWaiter
  NobodyStranded
  IdsOK
  NoEventSkipped
