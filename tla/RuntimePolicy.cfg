\* Reviews, updates and edits on two replicas, without failures.
CONSTANTS
  r1 = r1
  r2 = r2
  Replica = {r1, r2}
  Admin = {"a1"}
  Providers = {"p1", "p2"}
  Policies <- ScopePolicies
  Ceil <- OneCeiling
  Author = "nobody"
  MaxEdits = 2
  MaxFaults = 0
SPECIFICATION Spec
SYMMETRY Symmetry
INVARIANTS TypeOK AppliedIsObserved StatusHonest
PROPERTIES NoUnreviewedGrant NoRollback
CHECK_DEADLOCK FALSE
