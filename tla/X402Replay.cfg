SPECIFICATION Spec
CONSTANTS
  c1 = c1
  c2 = c2
  c3 = c3
  n1 = n1
  n2 = n2
  Calls <- TwoCalls
  Nonces <- OneNonce
  IssuedAt <- Issued
  ExpiresAt <- Expires
  Decimals <- Mixed
  MAX_CONCURRENT_TASKS = 2
  MAX_X402_PAYMENTS_PER_MINUTE = 3
  RATE_LIMIT_WINDOW_MS = 2
  X402_NONCE_TTL_MS = 2
  MAX_NONCE_TTL_MS = 2
  MaxTime = 3
  Faults = {}
SYMMETRY Interchangeable
INVARIANT ReplayRefused
CHECK_DEADLOCK FALSE
