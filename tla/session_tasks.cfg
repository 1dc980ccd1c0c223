SPECIFICATION FairSpec
CHECK_DEADLOCK FALSE
CONSTANTS
  Shells = {}
  Tasks = {k1}
  Editors = {}
  Workers = {w1, w2}
  Requests = {"stop", "close", "killclose", "restart", "sweep"}
  Persist = TRUE
  MaxTerms = 2
  MaxRequests = 2
  MaxBoots = 1
INVARIANTS
  OneRuntime
  NoStrayChild
PROPERTIES
  KillCompletes
  ExitSettles
