CONSTANTS
  Labels = {l1, l2}
  NoBlock = NoBlock
  Changes <- MCEveryFile
  Faults <- MCNoFaults
  BrakeSets <- MCNoBrakes
  Versions <- MCTwoPins
  MaxHeads = 1
  MaxBuilds = 1
SPECIFICATION Spec
INVARIANTS
  AdmittedIsHarmless
  NothingHidden
  MergedIsAppliable
CHECK_DEADLOCK FALSE
