CONSTANTS
  Labels = {l1, l2}
  NoBlock = NoBlock
  Changes <- MCFew
  Faults <- MCNoFaults
  BrakeSets <- MCNoBrakes
  Versions <- MCTwoPins
  MaxHeads = 1
  MaxBuilds = 1
SPECIFICATION Spec
INVARIANTS
  RebakedIsAdmitted
CHECK_DEADLOCK FALSE
