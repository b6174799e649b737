SPECIFICATION Spec
CONSTANTS
  c1 = c1
  c2 = c2
  c3 = c3
  n1 = n1
  n2 = n2
  Calls <- ThreeCalls
  Nonces <- TwoNonces
  IssuedAt <- Issued
  ExpiresAt <- Expires
  Decimals <- Mixed
  MAX_CONCURRENT_TASKS = 3
  MAX_X402_PAYMENTS_PER_MINUTE = 1
  RATE_LIMIT_WINDOW_MS = 2
  X402_NONCE_TTL_MS = 2
  MAX_NONCE_TTL_MS = 2
  MaxTime = 5
  Faults = {"lost", "store", "crash"}
SYMMETRY Interchangeable
INVARIANTS RecordedBlocks ProofRecorded PaidOnce AtMostTwiceTheLimit
CHECK_DEADLOCK FALSE
