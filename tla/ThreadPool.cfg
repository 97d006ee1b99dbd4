SPECIFICATION FairSpec
CONSTANTS
  N = 4
  Spurious = FALSE
  MaxPools = 2
  MaxStarts = 3
INVARIANTS TypeOK GoTogether
PROPERTIES ShutdownEnds StartReturns ImplementsForkJoin
