SPECIFICATION Spec
CONSTANTS
  N = 2
  NData = 6
  RetryPolicy = 1
  NBuckets = 2
  Range = 3
  Multiplier = 2
  Initials = {{2}}
  MaxCalls = 4
INVARIANTS WellFormed NoFreedVisited RemoveFinds
PROPERTIES ImplementsSet
