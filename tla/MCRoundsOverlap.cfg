SPECIFICATION Safety
CONSTANTS
  Members = {m1, m2}
  Suspended = {}
  Procs = {p1, p2}
  Kinds = {"try", "deadline", "admin", "activate", "status", "manual"}
  TotalRounds = 3
  Penalised = {}
  MaxTransfers = 2
  MaxCrashes = 1
CHECK_DEADLOCK FALSE
INVARIANTS PaidOutRoundsAreFull FlagsAreCurrent
SYMMETRY Alike
CONSTRAINT Spoken
