SPECIFICATION Spec
CONSTANTS
  N = 2
  Types = {1}
  MaxTries = 1
  Boot = 10
  Horizon = 2
  WordMod = 1000000
  MaxCalls = 3
  Variants = {"10.04", "10.05", "10.1", "10.2"}
INVARIANTS TypeOK EveryCommitCounted PrintedAgrees AvgBounded DelayBounded
