SPECIFICATION Spec
CONSTANTS
  p1 = p1
  p2 = p2
  r1 = r1
  Payments <- TwoPayments
  Readers <- OneReader
  MAX_RETRIES = 2
  CacheOn = TRUE
  NetworkErrors = TRUE
SYMMETRY Interchangeable
INVARIANTS AtMostOnce SuccessLanded
CHECK_DEADLOCK FALSE
