SPECIFICATION SessionSpec
CONSTANTS
  Users = {"m", "s"}
  Mfa = {"m"}
  Setup = {"s"}
  None = None
  BackoffSteps = 1
  MaxMe = 1
  MaxCalls = 2
INVARIANTS RouteFitsUser StreamFollowsUser
PROPERTIES StreamRecovers EndedSessionNoticed
