SPECIFICATION Spec
CONSTANTS
  o1 = o1
  Orders = {o1}
  Calls = {c1, c2}
  OrderOf <- MCOrderOf
  NoHash = NoHash
  MaxAttempts = 2
  MaxCrashes = 1
INVARIANTS TypeOK AtMostOneBroadcast BroadcastIsRecorded RowsTellTheTruth
PROPERTIES KeepsPromise SettlesUnlessExhausted
CHECK_DEADLOCK FALSE
