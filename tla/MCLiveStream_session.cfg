SPECIFICATION Spec
CONSTANTS
  NoKey = nokey
  s1 = s1
  s2 = s2
  b1 = b1
  here = here
  there = there
  Clients = {c1}
  Served = {c1}
  Kinds <- AllKinds
  Places <- HereAndThere
  Views <- NarrowAndAll
  MaxPending = 2
  CoalescedMax = 2
  RingSize = 2
  SnapshotLimit = 2
  MaxMsgs = 4
  MaxConnects = 1
SYMMETRY SensorSymmetry
INVARIANTS
  TypeOK
  RecentSurvives
  DeliveryOrdered
  EverythingAccounted
  SnapshotJoinsLive
CHECK_DEADLOCK FALSE
