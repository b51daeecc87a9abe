\* Two rows, two POSTs, one tab and one fault: every row is asked about
\* within the ceiling of six polls.
CONSTANTS
  a1 = a1
  a2 = a2
  Rows <- MCRows
  Tabs = {t1}
  Posts = {p1, p2}
  None = None
  ExecuteCap = 1
  MinAge = 2
  RetryAfter = 3
  GiveUpAfter = 5
  Budget = 1
  AttemptedMax = 2
  MaxFaults = 1
SPECIFICATION Spec
SYMMETRY MCAlike
INVARIANTS
  CacheIsFinal
  TriedBeforeGivingUp
PROPERTIES
  NoRelapse
  LeavesExecuteAlone
  OutageIsOutage
CHECK_DEADLOCK FALSE
