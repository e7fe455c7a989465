SPECIFICATION MonitoredSpec
CONSTANTS
  Queues = {qa}
  Workers = {w1}
  None = None
  MaxRetries = 2
  MaxTasks = 2
  MaxAttempts = 2
  HEARTBEAT_TIMEOUT = 0
  CHECK_INTERVAL = 1
  CRASH_AGE = 1
  MaxSilence = 9
  ReuseIds = TRUE
  Relapses = TRUE
  WalModes = {TRUE, FALSE}
  PeekLimit = 2
  DashboardReplay = FALSE
  Mortal = {w1}
  MaxCrashes = 1
  Star = Star
  SAMPLES = 1
  MaxDispatches = 4
  MaxWalFailures = 1
INVARIANTS
  MonitoredTypeOK
  WalTracksMemory
  AckedNeverRunsAgain
  OneDurableCopy
  LossBoundedByFaults
  TimedTasksLive
  CountersBalance
  EveryAckTimed
