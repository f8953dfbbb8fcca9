-------------------------- MODULE MCAggregatedSink --------------------------
(***************************************************************************)
(* TLC instances of AggregatedSink.  Once the bounded topic is consumed    *)
(* the process waits in poll, so the runs do not check deadlock.           *)
(***************************************************************************)
EXTENDS AggregatedSink
=============================================================================
