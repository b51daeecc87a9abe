CONSTANTS
  Script <- MCScript
  Calls = {c1, c2}
SPECIFICATION PageSpec
SYMMETRY MCAlike
INVARIANTS
  PinnedIsWhole
PROPERTIES
  RowsStay
CHECK_DEADLOCK FALSE
