SPECIFICATION Spec
CONSTANTS
  Files = {f1, f2, f3}
  Worlds <- MCWorlds
INVARIANTS
  NarrowedIsRecoverable
  NothingUnticked
PROPERTIES
  TickedArrives
