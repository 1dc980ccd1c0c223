SPECIFICATION FairSpec
CONSTANTS
  Actions = {"web", "db"}
  DependsOn <- DependsOnOne
  Serves = {"web","db"}
  Probed = {"db"}
  Single = {"web", "db"}
  Base <- BaseOne
  Span <- SpanOne
  Requests = {"run", "restart", "stop", "close"}
  Workers = {x1, x2}
  Waiters = {w1}
  MaxRows = 3
  MaxTerms = 3
  MaxRequests = 2
  ClaimAttempts = 2
INVARIANTS LaunchesOK ProbeIsOwn StartsOnReady
PROPERTIES WaitersAreWoken
CHECK_DEADLOCK FALSE
