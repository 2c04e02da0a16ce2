SPECIFICATION Spec
CONSTANTS
  Library <- MCLibrary
  Strays = {3}
  Files = {1, 2}
  MaxActs = 3
  Worlds <- MCRemoving
INVARIANTS
  ClickOpensDrawer
