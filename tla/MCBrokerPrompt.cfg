SPECIFICATION FairBrokerSpec
CONSTANTS
  Queues = {qa}
  Workers = {w1, w2}
  None = None
  MaxRetries = 2
  MaxTasks = 2
  MaxAttempts = 5
  HEARTBEAT_TIMEOUT = 1
  CHECK_INTERVAL = 1
  CRASH_AGE = 2
  MaxSilence = 1
  ReuseIds = FALSE
  Relapses = FALSE
  WalModes = {TRUE, FALSE}
  PeekLimit = 2
  DashboardReplay = FALSE
  Mortal = {w1}
  MaxCrashes = 1
  MaxWalFailures = 0
INVARIANTS
  NoOrphanInFlight
  OneRunner
PROPERTIES
  EveryTaskSettles
