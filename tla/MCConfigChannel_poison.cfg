SPECIFICATION FairSpec
CONSTANTS
  r1 = r1
  r2 = r2
  tokyo = tokyo
  Requests = {r1, r2}
  Payloads <- AnyPayload
  Settings <- MCSettings
  Defaults <- MCDefaults
  Unset = unset
  NoOne = noone
  Malformed = malformed
  NonObject = nonobject
  Foreign <- OnlyNonObject
  MaxExtra = 1
  Faults <- Nothing
  MaxFaults = 0
PROPERTY
  EveryMessageRead
CHECK_DEADLOCK FALSE
