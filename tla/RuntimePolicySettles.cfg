\* One replica, one administrator, one failure: the policy settles.
CONSTANTS
  r1 = r1
  r2 = r2
  Replica = {r1}
  Admin = {"a1"}
  Providers = {"p1", "p2"}
  Policies <- GatePolicies
  Ceil <- OneCeiling
  Author = "nobody"
  MaxEdits = 1
  MaxFaults = 2
SPECIFICATION FairSpec
PROPERTIES EventuallyCurrent EventuallyReported
CHECK_DEADLOCK FALSE
