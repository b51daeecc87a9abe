\* One approval and two overlapping requests, with room for a second shift, under
\* the fairness of the deployment: every race of the lane, and its promise.
CONSTANTS
  Approvals = {a1}
  Revisions = {r1, r2}
  Ops = {o1, o2}
  Handlers = {h1, h2}
  None = None
SPECIFICATION FairSpec
INVARIANTS
  HonestOutcome
  HonestAnswer
PROPERTIES
  SettledForever
  KeepsPromise
  OutcomeIsLearned
