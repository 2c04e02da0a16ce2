SPECIFICATION Spec
CONSTANTS
  Torrents = {t1, t2}
  Foldered = {t1}
  Kept = {t2}
  Ids = {0, 1, 2}
  Limited = FALSE
  Habits = {"starts", "rechecks", "removes", "adds", "refuses", "fails", "switches"}
  MaxCommands = 3
  MaxCrashes = 1
  MaxInits = 1
INVARIANTS
  TypeOK
  MovedFirst
