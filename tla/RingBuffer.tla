----------------------------- MODULE RingBuffer -----------------------------
(***************************************************************************)
(* The backend's in-memory buffer of recent clean events (class RingBuffer *)
(* of core/ring_buffer.py): a deque of [seq, event] entries, oldest first, *)
(* that keeps the last RingSize of them.                                   *)
(***************************************************************************)
EXTENDS Integers, Sequences

CONSTANT RingSize   \* recent_buffer_size, the deque's maxlen

ASSUME RingAssumption == RingSize \in Nat

\* entries[-n:] for n > 0
LastOf(s, n) == SubSeq(s, IF Len(s) > n THEN Len(s) - n + 1 ELSE 1, Len(s))

\* Faulty variant: a deque without maxlen.
AppendedUnbounded(ring, seq, event) == Append(ring, [seq |-> seq, event |-> event])

\* append: the deque drops its oldest entry when it is full.
Appended(ring, seq, event) ==
  IF RingSize = 0 THEN ring ELSE LastOf(Append(ring, [seq |-> seq, event |-> event]), RingSize)

\* recent: the newest limit events, oldest first.
Recent(ring, limit) ==
  IF limit <= 0 THEN <<>>
  ELSE LET window == LastOf(ring, limit) IN [i \in 1..Len(window) |-> window[i].event]

\* Faulty variant: the cursor's own entry is returned again.
OlderOrEqual(entry, cursor) == cursor = 0 \/ entry.seq <= cursor

\* Sequence numbers start at 1 here, so that 0 stands for "no cursor".
Older(entry, cursor) == cursor = 0 \/ entry.seq < cursor

\* The candidates of a page: the entries older than the cursor that the filter
\* keeps, in order.
Candidates(ring, cursor, wanted) ==
  LET upTo[n \in 0..Len(ring)] ==
        IF n = 0 THEN <<>>
        ELSE IF Older(ring[n], cursor) /\ ring[n].event \in wanted
        THEN Append(upTo[n - 1], ring[n])
        ELSE upTo[n - 1]
  IN  upTo[Len(ring)]

\* next_cursor: the oldest entry of the page, when older ones remain.
NextCursor(entries, window) == IF Len(entries) > Len(window) THEN window[1].seq ELSE 0

\* Faulty variant: the filter narrows the page instead of the candidates.
PageFilteredLate(ring, cursor, limit, wanted) ==
  LET entries == Candidates(ring, cursor, {ring[i].event : i \in 1..Len(ring)})
      window  == Candidates(LastOf(entries, limit), 0, wanted)
  IN  IF limit <= 0 \/ window = <<>>
      THEN [entries |-> <<>>, next |-> 0, more |-> FALSE]
      ELSE [entries |-> window, next |-> NextCursor(entries, window),
            more |-> Len(entries) > Len(window)]

\* page: the newest limit candidates, with the cursor of the next older page.
Page(ring, cursor, limit, wanted) ==
  LET entries == Candidates(ring, cursor, wanted)
      window  == LastOf(entries, limit)
  IN  IF limit <= 0 \/ entries = <<>>
      THEN [entries |-> <<>>, next |-> 0, more |-> FALSE]
      ELSE [entries |-> window, next |-> NextCursor(entries, window),
            more |-> Len(entries) > Len(window)]
=============================================================================
