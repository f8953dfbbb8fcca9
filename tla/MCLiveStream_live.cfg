SPECIFICATION FairSpec
CONSTANTS
  NoKey = nokey
  s1 = s1
  s2 = s2
  b1 = b1
  here = here
  there = there
  Clients = {c1, c2}
  Served = {c1}
  Kinds <- OneSensorAndAlerts
  Places <- Here
  Views <- NoViews
  MaxPending = 1
  CoalescedMax = 1
  RingSize = 1
  SnapshotLimit = 1
  MaxMsgs = 2
  MaxConnects = 2
PROPERTIES
  ConsumerNeverStalls
  ServedClientsCatchUp
  DisconnectsAreReaped
CHECK_DEADLOCK FALSE
