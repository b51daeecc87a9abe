\* /reconcile on documents with no handle.
CONSTANTS
  Approvals = {a1}
  Revisions = {r1, r2}
  Ops = {o1}
  Handlers = {h1}
  None = None
SPECIFICATION Spec
INVARIANT ClaimedMeansNotStarted
