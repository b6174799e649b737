SPECIFICATION FairSpec
CONSTANTS
  c1 = c1
  c2 = c2
  Calls <- TwoCalls
  MAX_RETRIES = 2
  RetryAfters = {1, 2, 3}
  MaxDelay = 2
  MaxTime = 4
  MaxGenerations = 3
INVARIANTS NoStrandedCall
PROPERTIES LockHonoured NoRequestUnderLock CallAnswered
CHECK_DEADLOCK FALSE
