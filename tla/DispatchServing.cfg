SPECIFICATION TimerSpec
CONSTANTS
  Tasks = {t1, t2, t3}
  Sequence <- TwoInSequence
  MAX_CONCURRENT_TASKS = 1
  QUEUE_CAPACITY = 2
  Middleware = FALSE
  Faults = {"save", "listener", "close"}
INVARIANTS SuccessRecorded
PROPERTIES Served ShutdownEnds
CHECK_DEADLOCK FALSE
