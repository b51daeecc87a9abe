CONSTANTS
  Labels = {l1, l2}
  NoBlock = NoBlock
  Changes <- MCFew
  Faults <- MCNoFaults
  BrakeSets <- MCNoBrakes
  Versions <- MCOnePin
  MaxHeads = 2
  MaxBuilds = 2
SPECIFICATION Spec
INVARIANTS
  WaitingIsOffered
CHECK_DEADLOCK FALSE
