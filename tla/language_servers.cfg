SPECIFICATION Spec
CHECK_DEADLOCK FALSE
SYMMETRY Symmetry
CONSTANTS
  k1 = k1
  k2 = k2
  f1 = f1
  f2 = f2
  t1 = t1
  t2 = t2
  Keys = {k1, k2}
  Files = {f1, f2}
  Texts = {t1, t2}
  Queries <- AllQueries
  Shut = Shut
  Lookups = {l1, l2}
  MaxServers = 1
  MaxDocs = 1
  Capacity = 1
  GiveUp = 2
  MaxStarts = 2
  MaxFinds = 3
INVARIANTS ManagerOK CrashesRemembered KnownIsSynced FreshAnswer
