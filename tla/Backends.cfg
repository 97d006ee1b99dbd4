SPECIFICATION FairSpec
CONSTANTS
  N = 3
  NData = 2
  MaxTries = 1
  MaxOps = 1
  Builds = {"2.0-NoWait", "10.04-RHTMRW", "10.1-RHTMO",
            "1.0-htm-sgl", "brlock", "rwl"}
PROPERTIES ReadersUndisturbed EveryOpEnds ImplementsAtomic
