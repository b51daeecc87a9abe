CONSTANTS
  Labels = {l1, l2}
  NoBlock = NoBlock
  Changes <- MCFew
  Faults <- MCFewFaults
  BrakeSets <- MCBrakes
  Versions <- MCOnePin
  MaxHeads = 2
  MaxBuilds = 2
SPECIFICATION Spec
INVARIANTS
  SawWhatApplies
  OfferIsTakeable
CHECK_DEADLOCK FALSE
