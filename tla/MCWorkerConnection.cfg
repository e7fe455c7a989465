CONSTANTS
  MaxDeliveries = 2
  MaxBreaks = 2
SPECIFICATION ConnectionSpec
INVARIANTS
  ConnectionTypeOK
  RepliesMatch
  ReportedOnce
  NothingLeftBehind
PROPERTIES
  WorkerProtocol
  HeartbeatsFlow
  ShutdownEndsRun
CHECK_DEADLOCK FALSE
