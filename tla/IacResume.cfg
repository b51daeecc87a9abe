\* The create's POSTs may overlap: a double click, or a second operator.
CONSTANTS
  update = update
  create = create
  q1 = q1
  h1 = h1
  h2 = h2
  r1 = r1
  r2 = r2
  Plans = {update, create}
  Creates = {create}
  Pulls = {q1}
  PullOf <- PullOfPlan
  Heads = {h1, h2}
  HeadOf <- HeadOfPlan
  Approvals = {a1, a2}
  Requests = {r1, r2}
  Serves <- AnyPlan
  None = None
SPECIFICATION Spec
SYMMETRY Symmetry
PROPERTIES
  ResumedStands
CHECK_DEADLOCK FALSE
