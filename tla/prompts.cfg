SPECIFICATION FairSpec
CHECK_DEADLOCK FALSE
CONSTANTS
  Threads = {x1, x2}
  Kinds = {"Agent", "Shell"}
  Watchers = TRUE
  MaxPrompts = 2
  MaxTerms = 2
  MaxEvents = 2
INVARIANTS
  PromptsOK
  SubmitsItsOwn
PROPERTIES
  QueuedPromptGoes
