SPECIFICATION UnservedSpec
CONSTANTS
  Ids = {0, 1}
  Limits = {1}
  AddPaused = {FALSE}
  Permits = 1
  MaxStarts = 1
  MaxCrashes = 1
  Faulty = {0}
  Changing = FALSE
  MaxInits = 2
INVARIANTS
  LimitRespected
PROPERTIES
  LimitRecovers
