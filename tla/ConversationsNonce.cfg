\* A stale turn makes an offer that the store does not take.
CONSTANTS
  Crews = {explore, provision}
  Requests = {r1, r2}
  MaxOffers = 2
  MaxTurns = 8
  MaxFaults = 0
  None = None
SPECIFICATION Spec
SYMMETRY Symmetry
INVARIANTS
  NonceWasRecorded
CHECK_DEADLOCK FALSE
