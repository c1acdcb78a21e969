SPECIFICATION PlatformSpec
CONSTANTS
  Parts = {"supervisor", "pipeline", "health", "worker"}
  secret1 = secret1 secret2 = secret2 wire = wire macro = macro flash = flash
  Clients = {c1, c2} Requests <- MCRequests Secrets = {secret1, secret2}
  EnvRef = env EnvValue = secret1 Mask = mask NoSecret = nosecret Nobody = nobody
  FirstFile <- MCFile Edits <- MCEdits MaxRequests = 2 MaxEdits = 1 MaxConfigRestarts = 1
  Jobs = {j2} ShutdownJobs = {j2} NoJob = nojob MaxChildren = 1 QueueSize = 1 CircuitFailures = 2
  News <- MCFewNews Sources = {wire, macro} DigestSources = {} Grouped = {wire, macro}
  Sinks = {k1} Skipped = {} DigestSink = digest
  MaxPerMinute = 1 QueueLength = 1 MaxRetries = 2 MaxFetches = 2 MaxFaults = 0 MaxPipelineRestarts = 0
  Callers = {g1, g2} Capacity = 2 RefillRate = 2 BurstMax = 2 MaxClock = 8
  Senders = {p1, p2} Posts = {m1} MaxThreads = 6 MaxSends = 3 MaxBackoff = 2 MaxStale = 1
  Polls = {q1, q2} DegradedThreshold = 1 UnhealthyThreshold = 3 MaxChanges = 2
  BatchSize = 3 Concurrency = 2 MaxStuck = 2 MaxStoreFaults = 1 MaxPrepared = 2
  DayLength = 4 Schedule = {1, 3} Days = 2 TradingDays = {0} MaxCrashes = 1 MaxSlotFaults = 1 MaxSteps = 1
  PriceAlerts = {a1, a2} NewsAlerts = {a3} OneTime = {a1, a3} NewsCheckers = {n1, n2} PriceLoop = loop
  MaxAlertsPerUser = 1 MaxCreates = 2 MaxStoreErrors = 1 MaxAlertRestarts = 1
  NewsIds = {1, 2, 3} Limits = {1, 2} TTL = 2 MaxHour = 4 MaxDeaths = 1
  Users = {u1, u2, u3} Broadcasts = {b1} MaxEvents = 2 MaxRuns = 2
  MaxBytes = 4 MaxTries = 2 MaxText = 4 MaxAttempts = 2
  IxItems = {i1} IxDeliveries = {d1} IxSinks = {s1} Askers = {x1, x2} Times = {1} MaxWrites = 2 MaxForeign = 1
  Upstream <- MCUpstream Shown = 2 Cap = 1 Options = {"repost"} Fetchers = {f1, f2} MaxFeedFetches = 4 MaxFeedFaults = 1
  BriefingStories <- MCStories TopicLimit = 2 MaxRendered = 2 MaxBriefings = 3
PROPERTIES
  CloseEnds RetryQueueDrains KeepsProbing WakeIsServed WorkerEnds
CHECK_DEADLOCK FALSE
