SPECIFICATION Spec
CONSTANTS
  Readings <- Hill
  Cell = cell
  NoBlob = none
  Length = 2
  Delay = 1
  Scale = 10
  WindowCount = 2
  Threshold = 3
  MinWindows = 2
  MinDelta = 5
  MaxRaw = 5
  MaxAlerts = 1
  MaxFaults = 1
INVARIANTS
  WindowsFireOnce
  BlobsAreWhole
  TrendsAreClimbs
CHECK_DEADLOCK FALSE
