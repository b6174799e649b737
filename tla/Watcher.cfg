SPECIFICATION WatcherSpec
CONSTANTS
  k1 = k1
  k2 = k2
  k3 = k3
  v1 = v1
  Absent = Absent
  Keys = {k1, k2, k3}
  Values = {v1}
  Watched = {k1, k2}
  MaxPollsLimit = 2
  Faults = {"rpc", "listener"}
  MaxWrites = 2
  MaxManual = 1
  MaxFaults = 1
INVARIANT ChainsAlive
PROPERTIES KeepsWatcherPromise Converges WatchEnds
CHECK_DEADLOCK FALSE
