SPECIFICATION Spec
CONSTANTS
  Tasks = {t1, t2, t3, t4}
  Sequence <- NoSequence
  MAX_CONCURRENT_TASKS = 2
  QUEUE_CAPACITY = 1
  Middleware = TRUE
  Faults = {"close"}
SYMMETRY Symmetry
INVARIANTS SlotsExact NoBarging CleanExitFinishesAll
CHECK_DEADLOCK FALSE
