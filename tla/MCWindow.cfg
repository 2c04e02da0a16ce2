SPECIFICATION Spec
CONSTANTS
  Library <- MCLibrary
  Strays = {3}
  Files = {1, 2}
  MaxActs = 3
  Worlds <- MCWorlds
INVARIANTS
  DrawnAsAsked
  ReachesWhatWasSeen
  NothingHiddenIsSelected
PROPERTIES
  CatchesUp
