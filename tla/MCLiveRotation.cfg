SPECIFICATION RotationSpec
CONSTANTS
  MaxId = 2
  KeyVersions = {1, 2}
  CryptoInstances = {i1, i2}
  RotationBatch = 1
  MaxFailures = 0
INVARIANTS LiveWritesKept
CHECK_DEADLOCK FALSE
