SPECIFICATION Spec
CONSTANTS
  r1 = r1
  r2 = r2
  tokyo = tokyo
  Requests = {r1, r2}
  Payloads <- AnyPayload
  Settings <- MCSettings
  Defaults <- MCDefaults
  Unset = unset
  NoOne = noone
  Malformed = malformed
  NonObject = nonobject
  Foreign <- Nothing
  MaxExtra = 0
  Faults <- PublishFault
  MaxFaults = 1
INVARIANT
  Agreement
CHECK_DEADLOCK FALSE
