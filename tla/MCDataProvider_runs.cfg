SPECIFICATION Spec
CONSTANTS
  None = none
  s1 = s1
  Sensors = {s1}
  Rows <- Drive
  HasUploadTimes = TRUE
  Start = none
  End = none
  Preset <- Event
  BatchSize = 2
  Threshold = 2
  Retries = 1
  MaxInFlight = 2
  MaxRows = 3
  MaxRuns = 2
  MaxFaults = 2
INVARIANTS
  ResumeLosesNothing
  CountersBoundDelivery
  OrderBrokenOnlyByRetry
  LabelsSharpen
CHECK_DEADLOCK FALSE
