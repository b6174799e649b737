SPECIFICATION Spec
CONSTANTS
  AGENT_SPENDING_LIMIT = 2
  MAX_SOROBAN_FEE_STROOPS = 1
  Tasks <- AllTasks
  Slots = {1, 2}
  MAX_ATTEMPTS = 2
  MaxStarts = 2
INVARIANTS MovedWasCounted ReportedLanded RecoveryHeals
PROPERTIES TasksEnd
CHECK_DEADLOCK FALSE
