SPECIFICATION FairSpec
CONSTANTS
  Keys = {k1, k2}
  Malformed = malformed
  IllTyped = illtyped
  BatchSize = 2
  PageSize = 2
  MaxLog = 2
  MaxCrashes = 0
PROPERTY
  ArchiveCatchesUp
CHECK_DEADLOCK FALSE
