\* One leader at a time and a prompt creator.
CONSTANTS
  r1 = r1
  r2 = r2
  Replica = {r1, r2}
  Kinds = {"apply-class", "update", "delete-pool", "restore", "unsupported"}
  MaxRetries = 1
  MaxRevision = 3
  MaxFaults = 1
  MaxLosses = 1
  ExclusiveLease = TRUE
  PromptQueue = TRUE
SPECIFICATION FairSpec
INVARIANT TakeoverRecognisesMutation
PROPERTIES TerminalIsFinal ImplementsLifecycle EventuallyTerminal
CHECK_DEADLOCK FALSE
