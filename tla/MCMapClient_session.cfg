SPECIFICATION FairSpec
CONSTANTS
  Enabled = {"topics", "producer", "consumer", "history"}
  Topics = {t1}
  AdminAttempts = 2
  HistoryAttempts = 2
  MaxDisturbances = 2
  Offset = 1
  Views <- NarrowWideInstant
  k1 = k1
  k2 = k2
  Messages <- TwoEach
  MarkerCap = 1
  LogCap = 1
  RingSize = 1
  MaxEvents = 2
INVARIANTS
  ShutdownReleases
  ViewInForce
  ReceivedReachesMap
PROPERTIES
  ClientGetsThrough
CHECK_DEADLOCK FALSE
