----------------------------- MODULE Subscriber -----------------------------
(***************************************************************************)
(* One /ws/stream client's pending-message buffer (class Subscriber of     *)
(* core/broadcaster.py): a FIFO lane for alerts and anything without a     *)
(* stable key, and a coalescing lane that keeps the newest message of each *)
(* (type, key), least recently updated first.                              *)
(*                                                                         *)
(* A message is [type, key, place, id]: place is what a view filter looks  *)
(* at, id numbers the messages in the order the backend consumed them.     *)
(***************************************************************************)
EXTENDS Integers, Sequences

CONSTANTS
  NoKey,          \* the key of a message without one
  Places,         \* what an area and a timespan can tell apart
  MaxPending,     \* broadcaster_queue_maxsize
  CoalescedMax    \* broadcaster_coalesced_maxsize

ASSUME SubscriberAssumption ==
  /\ MaxPending \in Nat
  /\ CoalescedMax \in Nat

\* None delivers everything: a view that admits every place.
NewSubscriber ==
  [coalesced |-> <<>>, fifo |-> <<>>, ready |-> FALSE, view |-> Places,
   coalescedCount |-> 0, droppedCount |-> 0, filteredCount |-> 0]

Coalesces(m) == m.type \in {"clean", "aggregated"} /\ m.key # NoKey

SameLane(m, n) ==
  IF Coalesces(m) THEN Coalesces(n) /\ m.type = n.type /\ m.key = n.key
                  ELSE ~Coalesces(n)

\* Position of the message of m's key in a coalescing lane, 0 if none.
PositionOf(lane, m) ==
  IF \E i \in 1..Len(lane) : SameLane(lane[i], m)
  THEN CHOOSE i \in 1..Len(lane) : SameLane(lane[i], m)
  ELSE 0

Without(lane, i) == SubSeq(lane, 1, i - 1) \o SubSeq(lane, i + 1, Len(lane))

\* Faulty variant: the new value replaces the old one without a move to the
\* end, so that the key keeps its old place in the eviction order.
OfferCoalescedInPlace(sub, m) ==
  LET old  == PositionOf(sub.coalesced, m)
      full == Len(sub.coalesced) >= CoalescedMax /\ sub.coalesced # <<>>
  IN  IF old # 0 THEN [sub EXCEPT !.coalesced = [@ EXCEPT ![old] = m],
                                  !.coalescedCount = @ + 1, !.ready = TRUE]
      ELSE [sub EXCEPT !.coalesced = Append(IF full THEN Tail(@) ELSE @, m),
                       !.droppedCount = IF full THEN @ + 1 ELSE @, !.ready = TRUE]

\* Faulty variant: the key is appended without removing its older message.
OfferUncoalesced(sub, m) ==
  LET full == Len(sub.coalesced) >= CoalescedMax /\ sub.coalesced # <<>>
  IN  [sub EXCEPT !.coalesced = Append(IF full THEN Tail(@) ELSE @, m),
                  !.droppedCount = IF full THEN @ + 1 ELSE @, !.ready = TRUE]

\* offer of a keyed message: replace and move to the end, or evict the oldest
\* updated key when the lane is at its cap and not empty.
OfferCoalesced(sub, m) ==
  LET old  == PositionOf(sub.coalesced, m)
      full == Len(sub.coalesced) >= CoalescedMax /\ sub.coalesced # <<>>
  IN  IF old # 0 THEN [sub EXCEPT !.coalesced = Append(Without(@, old), m),
                                  !.coalescedCount = @ + 1, !.ready = TRUE]
      ELSE [sub EXCEPT !.coalesced = Append(IF full THEN Tail(@) ELSE @, m),
                       !.droppedCount = IF full THEN @ + 1 ELSE @, !.ready = TRUE]

\* Faulty variant: the waiting task is not woken.
OfferFifoSilent(sub, m) ==
  LET over == Len(sub.fifo) >= MaxPending
  IN  [sub EXCEPT !.fifo = IF over THEN Tail(Append(@, m)) ELSE Append(@, m),
                  !.droppedCount = IF over THEN @ + 1 ELSE @]

\* offer of an unkeyed message: append, then drop the oldest while over the cap.
OfferFifo(sub, m) ==
  LET over == Len(sub.fifo) >= MaxPending
  IN  [sub EXCEPT !.fifo = IF over THEN Tail(Append(@, m)) ELSE Append(@, m),
                  !.droppedCount = IF over THEN @ + 1 ELSE @, !.ready = TRUE]

\* Faulty variant: the view filter is not consulted.
OfferUnfiltered(sub, m) == IF Coalesces(m) THEN OfferCoalesced(sub, m) ELSE OfferFifo(sub, m)

\* offer: the view filter first, so that a filtered message takes no space.
Offer(sub, m) ==
  IF m.place \notin sub.view THEN [sub EXCEPT !.filteredCount = @ + 1]
  ELSE IF Coalesces(m) THEN OfferCoalesced(sub, m)
  ELSE OfferFifo(sub, m)

Pending(sub) == sub.fifo \o sub.coalesced

\* Faulty variant: drain forgets to clear the FIFO lane.
DrainedKeepsFifo(sub) == [sub EXCEPT !.coalesced = <<>>, !.ready = FALSE]

\* drain empties both lanes and clears the ready event; the batch it returns
\* is Pending(sub), alerts first.
Drained(sub) == [sub EXCEPT !.fifo = <<>>, !.coalesced = <<>>, !.ready = FALSE]
=============================================================================
