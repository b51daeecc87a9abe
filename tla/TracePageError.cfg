CONSTANTS
  Script <- MCScript
  Calls = {c1, c2}
SPECIFICATION PageSpec
SYMMETRY MCAlike
INVARIANT NeverOverSuccess
CHECK_DEADLOCK FALSE
