SPECIFICATION FairSpec
CONSTANTS
  N = 2
  NData = 2
  MaxTries = 1
  RetryPolicy = 1
  ReaderWait = "sync"
  ReadersTryHTM = TRUE
  NonVariant = FALSE
  Indicator = "snzi"
  MaxOps = 2
INVARIANTS TypeOK LockExcludes OneImage NoLostUpdate NoOpenTransaction
PROPERTIES EveryOpEnds ReadersUndisturbed OnlyHolderCommits ImplementsAtomic
