------------------------------ MODULE Archive ------------------------------
(***************************************************************************)
(* What the sink promises to the readers of the archive (ADR-018), without *)
(* batches, statements or a process: the table changes only by whole runs  *)
(* of records that begin where the acknowledged ones end, of each key the  *)
(* newest record of the run wins, and a run is acknowledged only after the *)
(* table has it.  A run that is not acknowledged may be applied again, cut *)
(* differently.  Records without a row are passed over, and a run with a   *)
(* record the database rejects is never applied.                           *)
(***************************************************************************)
EXTENDS Naturals, Sequences

CONSTANTS Keys, Malformed, IllTyped

VARIABLES
  topic,     \* the records, by offset
  rows,      \* of each key the offset its row comes from, 0 for none
  acked,     \* the records up to here are acknowledged
  applied    \* the records up to here are in the table and may be acknowledged

vars == <<topic, rows, acked, applied>>

Of(k, lo, hi) == {i \in (lo + 1)..hi : topic[i] = k}

\* The table after the records in (lo, hi], the newest of each key.
Latest(table, lo, hi) ==
  [k \in Keys |-> IF Of(k, lo, hi) = {} THEN table[k]
                  ELSE CHOOSE i \in Of(k, lo, hi) : \A j \in Of(k, lo, hi) : j <= i]

Init == topic = <<>> /\ rows = [k \in Keys |-> 0] /\ acked = 0 /\ applied = 0

Produce ==
  /\ \E m \in Keys \union {Malformed, IllTyped} : topic' = Append(topic, m)
  /\ UNCHANGED <<rows, acked, applied>>

Apply ==
  /\ applied = acked
  /\ \E hi \in (acked + 1)..Len(topic) :
       /\ Of(IllTyped, acked, hi) = {}
       /\ rows' = Latest(rows, acked, hi)
       /\ applied' = hi
  /\ UNCHANGED <<topic, acked>>

Acknowledge ==
  /\ acked < applied
  /\ acked' = applied
  /\ UNCHANGED <<topic, rows, applied>>

\* The knowledge that a run is in the table is lost.
Forget ==
  /\ acked < applied
  /\ applied' = acked
  /\ UNCHANGED <<topic, rows, acked>>

Next == Produce \/ Apply \/ Acknowledge \/ Forget

Spec == Init /\ [][Next]_vars
=============================================================================
