SPECIFICATION FairSpec
CONSTANTS
  l1 = l1
  l2 = l2
  Listeners <- TwoListeners
  MaxEvents = 3
  MaxDeliveries = 2
  Matching <- FirstTwo
  PageSize = 2
  maxReconnectAttempts = 2
  Faults = {"latest", "events", "callback"}
INVARIANTS NothingSkipped OnceInOrder AtMostOnePageAfterStop OutageEndsProcess
PROPERTIES EventuallyDelivered
CHECK_DEADLOCK FALSE
