SPECIFICATION Spec
CONSTANTS
  N = 3
  Spurious = TRUE
  MaxPools = 1
  MaxStarts = 1
INVARIANTS GoTogether
