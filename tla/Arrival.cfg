SPECIFICATION Spec
CONSTANTS
  Torrents = {t1, t2}
  Foldered = {t1}
  Kept = {}
  Ids = {0, 1, 2, 3}
  Limited = TRUE
  Habits = {"stops", "fails", "errors"}
  MaxCommands = 1
  MaxCrashes = 0
  MaxInits = 2
INVARIANTS
  NobodyVanishes
PROPERTIES
  NothingIsLost
  ArrivedIsTakenUp
