SPECIFICATION MCSpec
\* The peers have said what they had to say.
CHECK_DEADLOCK FALSE
CONSTANTS
  MaxInits = 2
  Permits = 2
  MaxPad = 2
  Policies = {"off", "prefer", "require"}
  Worlds = {{}, {"hangs up"}, {"offers", "chooses"}, {"pads", "unknown"}, {"0x13"}}
INVARIANTS
  OneCheckPerInit
  Agreement
PROPERTIES
  NoHungCheck
  TurnComes
  TheyMeet
