\* The safety argument of evict_cached_decision under overlapping instances.
CONSTANTS
  Envs = {live}
  Violating = {live}
  Requests = {h1, h2}
  Instances = {i1, i2}
  Home <- OwnInstance
  AckLost = TRUE
  None = None
  MaxRevision = 1
  MaxDecisions = 2
  MaxCrashes = 0
SPECIFICATION Spec
INVARIANT OneLiveApproval
