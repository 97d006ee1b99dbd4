SPECIFICATION Spec
CONSTANTS
  N = 2
  NData = 2
  MaxTries = 1
  RetryPolicy = 1
  ReaderWait = "sync"
  ReadersTryHTM = TRUE
  NonVariant = TRUE
  Indicator = "flags"
  MaxOps = 1
INVARIANTS NoOpenTransaction
