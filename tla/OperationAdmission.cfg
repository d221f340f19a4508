\* One confirmation submitted twice on two replicas while the policy changes.
CONSTANTS
  r1 = r1
  r2 = r2
  q1 = q1
  q2 = q2
  c1 = c1
  c2 = c2
  Replica = {r1, r2}
  Request = {q1, q2}
  Challenge = {c1}
  Target = {"t1"}
  PolicyGrants <- SomeGrants
  MaxVersion = 3
  MaxRevision = 1
  MaxFaults = 1
SPECIFICATION Spec
SYMMETRY Symmetry
INVARIANTS TypeOK OneOperationPerConfirmation AdmittedWithEvidence ApprovedIsReviewed ReviewedPolicyAllows
CHECK_DEADLOCK FALSE
