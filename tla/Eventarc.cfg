\* Two changes, an event delivered up to twice, one container death, under
\* the fairness of Pub/Sub and the event loop.
CONSTANTS
  MaxVersion = 2
  MaxCopies = 2
  MaxDeaths = 1
SPECIFICATION FairTrigger
INVARIANT Accounted
PROPERTY LatestIsAudited
