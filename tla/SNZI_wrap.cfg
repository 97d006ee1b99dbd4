SPECIFICATION Spec
CONSTANTS
  N = 1
  VersionMod = 65536
  CountMax = 2147483647
  Past = 1073741823
  MaxOps = 2
INVARIANTS QuietIsClear
