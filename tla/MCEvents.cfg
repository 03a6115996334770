SPECIFICATION EventsSpec
CONSTANTS
  Subjects = {"listener", "sync"}
  t1 = t1
  Pollers = {p1, p2}
  NumTxs = 3
  Layouts <- AloneOrPaired
  Successful = {1, 2}
  PageSize = 2
  MaxCrashes = 1
  MaxErrors = 1
  Transfers = {t1}
  Deliveries = {d1, d2}
  TransferOf <- Twice
  Approvals = {a1}
  SyncAttempts = 2
  MaxRound = 2
  MaxFaults = 2
INVARIANTS EventsTypeOK PollsAreSafe CountedAtMostOnce
PROPERTIES EventsSettle
CHECK_DEADLOCK FALSE
