SPECIFICATION BrokerSpec
CONSTANTS
  Queues = {qa}
  Workers = {w1, w2}
  None = None
  MaxRetries = 2
  MaxTasks = 2
  MaxAttempts = 3
  HEARTBEAT_TIMEOUT = 1
  CHECK_INTERVAL = 1
  CRASH_AGE = 2
  MaxSilence = 1
  ReuseIds = TRUE
  Relapses = TRUE
  WalModes = {TRUE}
  PeekLimit = 2
  DashboardReplay = FALSE
  Mortal = {w1, w2}
  MaxCrashes = 0
  MaxWalFailures = 0
SYMMETRY WorkerSymmetry
INVARIANTS
  NoOrphanInFlight
