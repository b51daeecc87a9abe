\* Two overlapping instances on one drifted key, acknowledgements reliable.
CONSTANTS
  Envs = {live}
  Violating = {live}
  Requests = {h1, h2}
  Instances = {i1, i2}
  Home <- OwnInstance
  AckLost = FALSE
  None = None
  MaxRevision = 1
  MaxDecisions = 3
  MaxCrashes = 1
SPECIFICATION Spec
INVARIANTS
  OneLiveApproval
  OneArtifact
PROPERTIES
  FailureFreesItsOwn
