SPECIFICATION QMSpec
CONSTANTS
  Queues = {qa, qb}
  Workers = {w1}
  None = None
  MaxRetries = 2
  MaxTasks = 3
  MaxAttempts = 3
INVARIANTS
  QMTypeOK
  ExclusivePlacement
  StatusNamesPlace
  QueueOfTaskExists
  FreshTasksInOrder
PROPERTIES
  TaskLifecycle
