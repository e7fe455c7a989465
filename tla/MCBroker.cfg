SPECIFICATION BrokerSpec
CONSTANTS
  Queues = {qa}
  Workers = {w1, w2}
  None = None
  MaxRetries = 2
  MaxTasks = 2
  MaxAttempts = 3
  HEARTBEAT_TIMEOUT = 0
  CHECK_INTERVAL = 1
  CRASH_AGE = 1
  MaxSilence = 9
  ReuseIds = TRUE
  Relapses = TRUE
  WalModes = {TRUE}
  PeekLimit = 2
  DashboardReplay = FALSE
  Mortal = {w1, w2}
  MaxCrashes = 1
  MaxWalFailures = 0
SYMMETRY WorkerSymmetry
INVARIANTS
  BrokerTypeOK
  WalTracksMemory
  AckedNeverRunsAgain
  OneDurableCopy
  LossBoundedByFaults
  PurgedStaysPurged
PROPERTIES
  DurableLifecycle
