SPECIFICATION WRSpec
CONSTANTS
  Queues = {qa}
  Workers = {w1, w2}
  None = None
  MaxRetries = 1
  MaxTasks = 1
  MaxAttempts = 1
  HEARTBEAT_TIMEOUT = 6
  CHECK_INTERVAL = 2
  CRASH_AGE = 10
  MaxSilence = 6
  ReuseIds = TRUE
  Relapses = TRUE
INVARIANTS
  WRTypeOK
  DetectedInTime
  LiveWorkersStay
PROPERTIES
  SilentWorkerEvicted
