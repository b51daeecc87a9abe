\* Two approvals that could be mistaken for each other; the larger instance of the
\* lane's safety, under symmetry, which its liveness does not allow.
CONSTANTS
  Approvals = {a1, a2}
  Revisions = {r1, r2}
  Ops = {o1, o2}
  Handlers = {h1, h2}
  None = None
SPECIFICATION Spec
SYMMETRY Symmetry
INVARIANTS
  OneShift
  HonestOutcome
  HonestAnswer
PROPERTIES
  SettledForever
  KeepsPromise
