SPECIFICATION FairSpec
CONSTANTS
  r1 = r1
  r2 = r2
  tokyo = tokyo
  Requests = {r1, r2}
  Payloads <- AnyPayload
  Settings <- MCSettings
  Defaults <- MCDefaults
  Unset = unset
  NoOne = noone
  Malformed = malformed
  NonObject = nonobject
  Foreign <- AnyForeign
  MaxExtra = 1
  Faults <- AllFaults
  MaxFaults = 2
INVARIANTS
  TypeOK
  ThresholdsOrdered
  NoLostUpdate
  AcceptedIsPublished
  UndisturbedAgreement
  OneConfigPerOffset
PROPERTIES
  EveryRequestAnswered
  ReadUnlessPoisoned
CHECK_DEADLOCK FALSE
