SPECIFICATION MCSpec
CONSTANTS
  MaxLaunches = 3
  ClaimAttempts = 2
  Worlds <- MCWorlds
  MaxChecks = 3
  MaxInstalls = 2
  MaxEdits = 3
  MaxBegins = 2
  Users <- MCUsers
CHECK_DEADLOCK FALSE
INVARIANTS
  OneProcessWhenCalm
  LinksAreHandedOver
  UpdateIsSafe
PROPERTIES
  EveryWaitEnds
  SettingsAreKept
