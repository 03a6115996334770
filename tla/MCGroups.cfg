SPECIFICATION GroupsSpec
CONSTANTS
  Subjects = {"mediation", "lifecycle", "templates", "standing", "penalties",
    "plans", "pricing", "reading", "rpc"}
  m1 = m1
  m2 = m2
  ct1 = ct1
  Groups = {g1}
  Workers = {wk1, wk2}
  BatchSize = 1
  SyncAttempts = 2
  MaxRound = 1
  MaxMediationFaults = 2
  Wallets = {wa1, wa2}
  Creator = wa1
  Editors = {ed1, ed2}
  MinMembers = 2
  MaxTerms = 1
  MaxGroupFaults = 2
  Owners = {u1}
  Makers = {x1, x2}
  TemplateRounds = {1, 2}
  MaxMade = 2
  MaxTemplateFaults = 1
  GroupMembers = {m1, m2}
  StandingRequests = {x1, x2}
  OrderOf <- InOrder
  StandingRounds = 2
  Debtors = {x1, x2}
  Assessors = {as1}
  Clerks = {cl1}
  MaxPenalties = 2
  MaxPenaltyRound = 2
  MaxPenaltyFaults = 1
  PlanHolders = {x1, x2}
  NumInstallments = 2
  IntervalLedgers = 2
  ExpiryLedger = 2
  MaxPauses = 2
  PauseCooldown = 1
  MaxLedger = 4
  Payers = {x1, x2}
  Paid = {110}
  Required = 100
  Rates = {85, 120}
  Scale = 100
  ToleranceBps = 1000
  RateLife = 1
  Estimates = {5, 10, 11}
  MaxFee = 10
  BufferPercent = 20
  AlertThreshold = 15
  MaxTime = 2
  MaxPayouts = 2
  MaxPriceFaults = 1
  Contracts = {ct1, ct2}
  DefaultContract = ct1
  Amounts = {1}
  MaxRpcTroubles = 1
  NumNodes = 3
  RpcCalls = {x1, x2}
  MaxInvokeTries = 2
INVARIANTS GroupsTypeOK OneMediatorPerGroup TemplatesHold StandingHolds NobodyIsLetOff PricesHold NodesAreHeard ClockStopsWhilePaused
PROPERTIES StartedGroupsAreKept
CHECK_DEADLOCK FALSE
