SPECIFICATION MCSpec
CONSTANTS
  MaxLaunches = 3
  ClaimAttempts = 2
  Worlds <- MCTogether
  MaxChecks = 3
  MaxInstalls = 2
  MaxEdits = 3
  MaxBegins = 2
  Users <- MCUsers
CHECK_DEADLOCK FALSE
INVARIANTS
  OneProcess
