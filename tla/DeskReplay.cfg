\* A replay of a spent approval while a poll settles it (not a run: PageIsOwn
\* is false of the code, see the README).
CONSTANTS
  a1 = a1
  a2 = a2
  Rows <- MCRows
  Tabs = {t1}
  Posts = {p1, p2}
  None = None
  ExecuteCap = 1
  MinAge = 2
  RetryAfter = 3
  GiveUpAfter = 5
  Budget = 1
  AttemptedMax = 2
  MaxFaults = 0
SPECIFICATION Spec
SYMMETRY MCAlike
INVARIANT PageIsOwn
CHECK_DEADLOCK FALSE
