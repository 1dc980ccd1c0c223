SPECIFICATION Spec
CHECK_DEADLOCK FALSE
SYMMETRY Symmetry
CONSTANTS
  Tasks = {k1, k2}
  Sessions = {s1, s2}
  Handlers = {h1, h2}
  None = None
  Modes = {"Write"}
  Places = {"worktree", "integration"}
  MaxAttempts = 2
  MaxActive = 2
  MaxTasks = 2
  MaxRequests = 3
  MaxCrashes = 1
INVARIANTS LedgerOK OneLiveAttempt DecidedOnReport NothingUnsaved
PROPERTIES KeepsBoard
