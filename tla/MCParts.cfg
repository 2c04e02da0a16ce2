SPECIFICATION MCSpec
\* The bounded parts end; the loop of the queue returns.
CHECK_DEADLOCK FALSE
CONSTANTS
  Inputs <- MCInputs
  Caps = {0, 1, 2, 3}
  LastStep = 3
  Depth <- MCDepth
  Library <- MCLibrary
  Habits <- MCHabits
  MaxActs = 2
  Catalogue <- MCCatalogue
  TypedShelves <- MCTypedShelves
  ShelfFolders = {"c", "d"}
  Queries <- MCQueries
  Speeds = {0, 1, 2}
  MaxGestures = 5
  TableWorlds <- MCTableWorlds
  Rates = {0, 20, 21, 100}
  Amounts <- MCAmounts
  Size = 1048576
  Patience = 3
  Seconds = 3
  MaxTurns = 5
  FigureWorlds <- MCFigureWorlds
  MaxTries = 2
  Mishaps = {"undo", "partial", "metadata", "removal", "stranger", "folder"}
INVARIANTS
  AdmitIsRight
  LeavesNothing
  PanelIsRight
PROPERTIES
  MoveIsSafe
  TreeIsRight
  FiguresAreHonest
  TableIsRight
