SPECIFICATION FairSpec
CONSTANTS
  Keys = {k1, k2}
  Malformed = malformed
  IllTyped = illtyped
  BatchSize = 3
  PageSize = 2
  MaxLog = 5
  MaxCrashes = 2
INVARIANTS
  TypeOK
  CommittedRecordsArchived
PROPERTIES
  ImplementsArchive
  CatchesUpUnlessObstructed
CHECK_DEADLOCK FALSE
