SPECIFICATION SettledSpec
CONSTANTS
  Ids = {0, 1, 2}
  Limits = {0, 1}
  AddPaused = {FALSE}
  Permits = 1
  MaxStarts = 1
  MaxCrashes = 0
  Faulty = {}
  Changing = TRUE
  MaxInits = 1
INVARIANTS
  LimitRespected
  LineRespected
  RosterIsWanted
  WishIsOnDisk
