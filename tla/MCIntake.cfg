SPECIFICATION Spec
CONSTANTS
  Calls = {c1, c2, c3}
  Keys = {k1}
  KeyOf <- OneKey
  TxOf <- OwnBody
  SlotOf <- OwnBody
  Verify = FALSE
  LockOutlives = TRUE
  MaxFaults = 1
INVARIANTS OneSubmitterPerKey
PROPERTIES RecordsSettle
CHECK_DEADLOCK FALSE
