SPECIFICATION Spec
CONSTANTS
  Amounts <- AnyAmount
  AGENT_SPENDING_LIMIT = 1
  MAINNET_SPENDING_CAP = 1
  Mainnet = TRUE
  SPENDING_WINDOW_MS = 1
  Faults = {"save", "load", "prune", "clear"}
  MaxTime = 3
  MaxRecords = 3
INVARIANTS WindowMirrored SpentWithinLimit
CHECK_DEADLOCK FALSE
