\* Overlapping leaders and a late creator: what holds whatever the timing.
CONSTANTS
  r1 = r1
  r2 = r2
  Replica = {r1, r2}
  Kinds = {"apply-claim", "apply-class", "apply-pool", "update", "delete", "delete-pool", "longhorn", "restore", "unsupported"}
  MaxRetries = 1
  MaxRevision = 2
  MaxFaults = 1
  MaxLosses = 0
  ExclusiveLease = FALSE
  PromptQueue = FALSE
SPECIFICATION Spec
SYMMETRY Symmetry
INVARIANTS TypeOK MutationMatchesApproval SuccessIsTruthful  RetriesCapped
CHECK_DEADLOCK FALSE
