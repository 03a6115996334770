SPECIFICATION Safety
CONSTANTS
  o1 = o1
  Orders = {o1}
  Calls = {c1}
  OrderOf <- MCOrderOf
  NoHash = NoHash
  MaxAttempts = 2
  MaxCrashes = 0
CHECK_DEADLOCK FALSE
INVARIANTS FailedPaidNobody
