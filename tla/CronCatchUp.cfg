SPECIFICATION Spec
CONSTANTS
  Types = {"LIBRARY_SCAN"}
  Exprs = {"often", "once"}
  Asks <- SmallAsks
  MaxSlot = 6
  CatchUp = 2
  MaxEdits = 2
  MaxJumps = 2
INVARIANTS NoMissedSlot MarkersNotAhead
PROPERTIES FiredOnce
CHECK_DEADLOCK FALSE
