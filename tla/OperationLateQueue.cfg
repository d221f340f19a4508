\* Store.Create's status write arrives after the operation finished.
CONSTANTS
  r1 = r1
  r2 = r2
  Replica = {r1, r2}
  Kinds = {"update"}
  MaxRetries = 1
  MaxRevision = 1
  MaxFaults = 0
  MaxLosses = 0
  ExclusiveLease = TRUE
  PromptQueue = FALSE
SPECIFICATION Spec
PROPERTY TerminalIsFinal
CHECK_DEADLOCK FALSE
