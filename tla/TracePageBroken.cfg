CONSTANTS
  Script <- MCScript
  Calls = {c1, c2}
SPECIFICATION PageSpec
SYMMETRY MCAlike
INVARIANT PinnedAfterBreak
CHECK_DEADLOCK FALSE
