SPECIFICATION PlatformSpec
CONSTANTS
  Subjects = {"jobs", "hooks", "sessions", "gdpr", "rates", "caching",
    "rotation", "backfill", "flags", "push", "notes", "files", "board"}
  Payloads = {jp1}
  Admins = {x1}
  Attempts = 1
  PoisonThreshold = 2
  MaxTracked = 1
  MaxJobs = 2
  MaxJobFaults = 1
  EmitsFailed = TRUE
  TellsTracker = FALSE
  QueueOf <- EmailJobs
  Hooks = {x1}
  HookEvents = {he1}
  PostAttempts = 2
  MaxPosts = 2
  MaxHookFaults = 1
  SessionRequests = {x1, x2}
  MaxTokens = 1
  MaxVersion = 1
  MaxChallenges = 1
  MaxSessionFaults = 1
  GdprRequests = {x1}
  GdprWorkers = 2
  GdprAttempts = 2
  MaxGdprJobs = 2
  KycFiles = {kf1}
  KycBucket = kyc
  ExportBucket = exports
  MaxGdprFaults = 1
  Visits = {x1, x2}
  Callers = {ip1}
  WithApiKey = {}
  DefaultLimit = 1
  ApiKeyLimit = 1
  ShortLimit = 1
  WindowTicks = 2
  Sliding = TRUE
  ViolationLimit = 2
  IpBlockTicks = 2
  Writers = {wr1}
  Readers = {x1, x2}
  CacheTicks = 2
  TimeoutTicks = 1
  AnswerTicks = 2
  MaintenanceTicks = 1
  EnvMaintenance = FALSE
  MaxEffects = 2
  MaxId = 3
  KeyVersions = {1, 2}
  CryptoInstances = {x1, x2}
  RotationBatch = 2
  MaxFailures = 0
  MaxRow = 3
  PageSize = 1
  MaxBackfillFaults = 1
  FlagNames = {f1, f2}
  FlagServers = {fs1, fs2}
  Edits = {x1, x2}
  FlagUsers = {fu1}
  Settings <- SomeOrNone
  EnvFlags = {f2}
  EnvSetting <- OnForAll
  FlagCacheLife = 1
  MaxEdits = 1
  MaxFlagFaults = 1
  Devices = {x1, x2}
  PushUsers = {y1, y2}
  PushJobs = {pj1}
  PushAttempts = 2
  MaxPushFaults = 1
  Batches = {x1, x2}
  NoteKeys = {nk1}
  Recipients = {nu1}
  RecipientOf <- OneRecipient
  Streams = {y1, y2}
  MaxStreams = 1
  MaxNoteFaults = 1
  Uploads = {x1, x2}
  Deletions = {y1, y2}
  LinkReaders = {lr1}
  Offered <- SomeFiles
  MaxUploadFaults = 2
  Posters = {x1, x2}
  AnnouncementCap = 1
  MaxPosted = 3
INVARIANTS PlatformTypeOK DeliveriesAreHonest CachesAreCurrent ErasureIsReal BehindCheckpointRotated FlagsAreKept RetriesRepeatNothing
PROPERTIES LimitsHold
CHECK_DEADLOCK FALSE
