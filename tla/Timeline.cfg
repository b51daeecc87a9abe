CONSTANTS
  Length = 3
  Final = 2
  Gets = {g1, g2}
  Never = Never
  Grace = 3
  FetchTimeout = 1
  CacheTTL = 2
  FastLookback = 4
  Straddle = 2
  HintBefore = 3
  HintAfter = 3
  Lookback = 7
  MaxSpan = 1
  MaxTime = 7
SPECIFICATION Spec
SYMMETRY MCAlike
INVARIANTS
  CompleteHeldStill
  AnswersAreMoments
CHECK_DEADLOCK FALSE
