\* One instance: rechecks that follow each other while the service is deployed
\* over and back, acknowledgements are lost and the container dies.
CONSTANTS
  Envs = {mock, live}
  Violating = {live}
  Requests = {h1}
  Instances = {i1}
  Home <- OneInstance
  AckLost = TRUE
  None = None
  MaxRevision = 3
  MaxDecisions = 2
  MaxCrashes = 1
SPECIFICATION Spec
INVARIANTS
  AboutItsKey
PROPERTIES
  ServedIsServable
