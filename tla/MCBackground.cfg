SPECIFICATION BackgroundSpec
CONSTANTS
  Chores = {"tasks", "scores", "balances", "kyc"}
  issuer = issuer
  cron1 = cron1
  Servers = {s1, s2}
  Users = {u1}
  Groups = {g1, g2}
  MaxAttempts = 2
  MaxTaskFaults = 1
  ScoreWorkers = {w1, w2}
  MaxScored = 2
  ScoreBatch = 1
  MaxFacts = 1
  MaxScoreFaults = 1
  Issuer = issuer
  Escrows = {}
  Readers = {cron1, admin1}
  Cron = cron1
  BreakerThreshold = 3
  BaseTimeout = 2
  ProbeInterval = 1
  MinSamples = 2
  MaxSamples = 2
  Uploads = {up1}
  Callbacks = {c1}
  NumProviders = 2
  MaxDocs = 2
  MaxCases = 1
  MaxKycFaults = 1
INVARIANTS BackgroundTypeOK
PROPERTIES TasksSettle ScoresConverge AlertsConverge NobodyWaitsUnflagged
CHECK_DEADLOCK FALSE
