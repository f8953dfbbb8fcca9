---------------------------- MODULE MCMapClient ----------------------------
(***************************************************************************)
(* TLC instance of MapClient.  A run ends with the messages, so that       *)
(* deadlock is not checked.                                                *)
(***************************************************************************)
EXTENDS MapClient

CONSTANTS k1, k2

here == 1
there == 2

Message(type, key, place, time, zoned) ==
  [type |-> type, key |-> key, place |-> place, time |-> time, zoned |-> zoned]

\* Two sensors and two alerts, against caps of one: in or out of the timespan,
\* and a reading whose time names no zone, in it by the browser's clock only.
TwoEach ==
  {Message("clean", k1, here, 3, FALSE), Message("clean", k2, there, 2, TRUE),
   Message("alert", k1, here, 1, TRUE), Message("alert", k2, there, 3, TRUE)}

\* A narrow view, one of a timespan, and one that the server rejects, of a
\* single instant.
NarrowWideInstant ==
  {[area |-> <<0, 1>>, timespan |-> <<>>], [area |-> <<>>, timespan |-> <<2, 3>>],
   [area |-> <<1, 2>>, timespan |-> <<2, 2>>]}
=============================================================================
