\* A failed repair, no container dying.
CONSTANTS
  Envs = {live}
  Violating = {live}
  Requests = {h1}
  Instances = {i1}
  Home <- OwnInstance
  AckLost = FALSE
  None = None
  MaxRevision = 1
  MaxDecisions = 2
  MaxCrashes = 0
SPECIFICATION Spec
INVARIANT RetryableWhenQuiet
