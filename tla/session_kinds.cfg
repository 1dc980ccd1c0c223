SPECIFICATION Spec
CHECK_DEADLOCK FALSE
CONSTANTS
  Shells = {h1}
  Tasks = {}
  Editors = {e1}
  Workers = {w1, w2}
  Requests = {"stop", "close", "killclose", "restart", "sweep"}
  Persist = TRUE
  MaxTerms = 2
  MaxRequests = 2
  MaxBoots = 1
SYMMETRY Symmetry
INVARIANTS
  TypeOK
  StartingAttended
