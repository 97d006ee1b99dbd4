SPECIFICATION Spec
CONSTANTS
  M = 2
  N = 3
  Keys = {1, 2, 3, 4, 5, 6, 7}
  Rows = {1}
  MaxChanges = 2
CHECK_DEADLOCK FALSE
INVARIANTS WellFormed LookupsAgree
PROPERTIES ImplementsMap
