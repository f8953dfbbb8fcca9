--------------------------- MODULE MCDataProvider ---------------------------
(***************************************************************************)
(* TLC instance of DataProvider.                                           *)
(***************************************************************************)
EXTENDS DataProvider

CONSTANT s1

Row(uploaded, place) ==
  [sensor_id |-> None, device_id |-> s1, captured_at |-> 3, uploaded_at |-> uploaded, place |-> place]

\* Files of a sensor that moves and comes back, in any order of upload, with a
\* row without an upload time or coordinates and one that is out of the span.
Drive == {Row(1, 0), Row(2, 5), Row(None, None), [Row(3, 0) EXCEPT !.captured_at = 9]}
Event == [start |-> 2, end |-> 5]
=============================================================================
