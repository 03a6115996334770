SPECIFICATION Spec
CONSTANTS
  Members = {m1, m2}
  Suspended = {m2}
  Procs = {p1}
  Kinds = {"try", "deadline", "admin", "activate", "status", "listener", "manual"}
  TotalRounds = 2
  Penalised = {2}
  MaxTransfers = 3
  MaxCrashes = 1
 
PROPERTIES RoundsProgress
CHECK_DEADLOCK FALSE
