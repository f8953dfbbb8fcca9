-------------------------- MODULE MCConfigChannel --------------------------
(***************************************************************************)
(* TLC instances of ConfigChannel.  Two thresholds of two values each and  *)
(* one area let a pair of partial updates be valid apart and invalid       *)
(* together, and let an update omit what an earlier one set.               *)
(***************************************************************************)
EXTENDS ConfigChannel

CONSTANTS tokyo, r1, r2

MCDefaults == [warn |-> 1, danger |-> 3, area |-> Unset, timespan |-> Unset]

MCSettings ==
  [warn : {1, 2, 3}, danger : {2, 3}, area : {Unset, tokyo}, timespan : {Unset}]

RaiseWarn == [warn |-> 2]
LowerDanger == [danger |-> 2]
SetArea == [area |-> tokyo]
Reversed == [warn |-> 3, danger |-> 2]

AnyPayload == {RaiseWarn, LowerDanger, SetArea, Reversed}

\* An update of somebody else's: it sets the thresholds and leaves the area out.
Others == [warn |-> 2, danger |-> 3, area |-> Unset, timespan |-> Unset]

AnyForeign == {Malformed, NonObject, Others}
OnlyNonObject == {NonObject}
Nothing == {}

AllFaults == {"publish", "backend", "job", "retention"}
PublishFault == {"publish"}
=============================================================================
