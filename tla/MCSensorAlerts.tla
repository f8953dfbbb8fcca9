--------------------------- MODULE MCSensorAlerts ---------------------------
(***************************************************************************)
(* TLC instance of SensorAlerts.                                           *)
(***************************************************************************)
EXTENDS SensorAlerts

At(time, cpm) == [time |-> time, cpm |-> cpm]

\* In windows of 3 a burst of two, a third reading that only the lower threshold
\* makes DANGER and that sustains a window a cooldown later, and a SAFE reading
\* that moves the watermark past them all.
Bursts == {At(1, 3), At(2, 3), At(3, 2), At(6, 0)}
Lowered == <<2>>
=============================================================================
