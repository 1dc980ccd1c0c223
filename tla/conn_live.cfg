SPECIFICATION FairSpec
CHECK_DEADLOCK FALSE
CONSTANTS
  Callers = {a, b}
  Versions = {v1}
  Version = v1
  EventCap = 1
  QueueCap = 1
  WireCap = 1
  MaxInFlight = 1
  MaxRequests = 2
  MaxEvents = 1
PROPERTIES
  CallsReturn
  DropReturns
