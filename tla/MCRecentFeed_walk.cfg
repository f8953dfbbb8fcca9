SPECIFICATION Spec
CONSTANTS
  here = here
  there = there
  Places <- HereAndThere
  Views <- NarrowAndAll
  Limits <- SomeLimits
  RingSize = 4
  MaxLimit = 3
  MaxEvents = 6
  MaxRestarts = 1
INVARIANTS
  TypeOK
  UnbrokenPagesDescend
  WalkComplete
CHECK_DEADLOCK FALSE
