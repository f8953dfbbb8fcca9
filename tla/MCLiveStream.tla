---------------------------- MODULE MCLiveStream ----------------------------
(***************************************************************************)
(* TLC instances of LiveStream.  The runs stop when the bounded topics are *)
(* consumed and every client has used its connections, so they do not      *)
(* check deadlock.                                                         *)
(***************************************************************************)
EXTENDS LiveStream, TLC

CONSTANTS s1, s2, b1, here, there

\* Three keys, against a coalescing lane of two, and the alerts.
AllKinds ==
  {<<"clean", s1>>, <<"clean", s2>>, <<"aggregated", b1>>, <<"alert", NoKey>>}

\* A keyed stream and the alerts.
OneSensorAndAlerts == {<<"clean", s1>>, <<"alert", NoKey>>}

Here == {here}
HereAndThere == {here, there}
NoViews == {}
\* The sensors are interchangeable: no property names one.
SensorSymmetry == Permutations({s1, s2})

NarrowAndAll == {{here}, {here, there}}
=============================================================================
