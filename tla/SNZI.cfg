SPECIFICATION FairSpec
CONSTANTS
  N = 3
  VersionMod = 65536
  CountMax = 2147483647
  Past = 65535
  MaxOps = 1
INVARIANTS TypeOK PresentIsSeen QuietIsClear
PROPERTIES CallsEnd ImplementsIndicator
