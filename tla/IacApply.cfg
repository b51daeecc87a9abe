\* A pull request whose first head updates and whose second one creates; the
\* update is approved twice at a time, the create is driven one POST at a time.
CONSTANTS
  update = update
  create = create
  q1 = q1
  h1 = h1
  h2 = h2
  r1 = r1
  r2 = r2
  Plans = {update, create}
  Creates = {create}
  Pulls = {q1}
  PullOf <- PullOfPlan
  Heads = {h1, h2}
  HeadOf <- HeadOfPlan
  Approvals = {a1, a2}
  Requests = {r1, r2}
  Serves <- OneByOne
  None = None
SPECIFICATION Spec
SYMMETRY Symmetry
INVARIANTS
  HonestVerdict
  SingleAttempt
  MergeOrder
PROPERTIES
  KeepsPromise
CHECK_DEADLOCK FALSE
