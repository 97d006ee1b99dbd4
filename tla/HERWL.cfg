SPECIFICATION FairSpec
CONSTANTS
  N = 3
  NData = 2
  RetryPolicy = 1
  HtmTries = 1
  RotTries = 2
  MaxCalls = 3
INVARIANTS TypeOK GlobalRunsAlone OneImage
PROPERTIES ReadersUndisturbed EveryOpEnds ImplementsAtomic
