SPECIFICATION Spec
CONSTANTS
  Replicas = {"r1", "r2"}
  Names = {"admin", "alice"}
  Bootstrap = "admin"
  Managed = {"alice"}
  Modes = {"optional", "required-all"}
  Codes = 1
  Backend = "redis"
  None = None
  MaxRevision = 3
  MaxSessions = 1
  MaxRequests = 3
INVARIANT FreshSessionAccepted
