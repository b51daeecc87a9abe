\* Two requests of a conversation between two crews.
CONSTANTS
  Crews = {explore, provision}
  Requests = {r1, r2}
  MaxOffers = 3
  MaxTurns = 8
  MaxFaults = 1
  None = None
SPECIFICATION Spec
SYMMETRY Symmetry
INVARIANTS
  Attributed
  OfferIsCurrent
  OfferStandsUntilAnswered
  LeaseHasRun
PROPERTIES
  LeaseIsOwn
CHECK_DEADLOCK FALSE
