----------------------------- MODULE RecentFeed -----------------------------
(***************************************************************************)
(* GET /recent (routers/recent.py): a client pages backwards through the   *)
(* ring buffer with the cursor of each response while the consume loop     *)
(* keeps appending and evicting, and while the backend may restart.        *)
(*                                                                         *)
(* The server keeps nothing about a walk, so one client stands for all.    *)
(* An event is [id, place], id numbering the events as they were consumed. *)
(***************************************************************************)
EXTENDS RingBuffer, FiniteSets

CONSTANTS
  Places,       \* what the view filter of a request can tell apart
  Views,        \* the filters a client may send
  Limits,       \* the limits it may ask for
  MaxLimit,     \* recent_max_limit
  MaxEvents,    \* bound on the events consumed
  MaxRestarts   \* bound on the backend's restarts

ASSUME FeedAssumption ==
  /\ Views \subseteq SUBSET Places
  /\ Limits \subseteq Int
  /\ MaxLimit \in Nat \ {0} /\ MaxEvents \in Nat /\ MaxRestarts \in Nat

VARIABLES
  ring,       \* the deque _events
  nextSeq,    \* _next_seq, from 1 here
  consumed,   \* events consumed so far
  restarts,
  walk,       \* the client: idle, paging or finished
  view,       \* the filter of its walk
  cursor,     \* next_cursor of the last response, 0 for null
  pages,      \* the responses it has, oldest request first
  initial,    \* history: what was buffered at its first request
  broken      \* history: the backend restarted during the walk

vars == <<ring, nextSeq, consumed, restarts, walk, view, cursor, pages, initial, broken>>

Events(s) == {s[i].event : i \in 1..Len(s)}

Init ==
  /\ ring = <<>> /\ nextSeq = 1 /\ consumed = 0 /\ restarts = 0
  /\ walk = "idle" /\ view \in Views /\ cursor = 0 /\ pages = <<>> /\ initial = {} /\ broken = FALSE

\* append, by the consume loop
Consume(place) ==
  /\ consumed < MaxEvents
  /\ consumed' = consumed + 1
  /\ ring' = Appended(ring, nextSeq, [id |-> consumed + 1, place |-> place])
  /\ nextSeq' = nextSeq + 1
  /\ UNCHANGED <<restarts, walk, view, cursor, pages, initial, broken>>

\* A limit is clamped, never rejected.
Clamped(limit) ==
  IF limit > MaxLimit THEN MaxLimit ELSE IF limit < 1 THEN 1 ELSE limit

Wanted == [id : 1..MaxEvents, place : view]

Get(limit) ==
  LET response == Page(ring, cursor, Clamped(limit), Wanted)
  IN  /\ pages' = Append(pages, response.entries)
      /\ cursor' = response.next
      /\ walk' = IF response.more THEN "paging" ELSE "finished"
      /\ UNCHANGED <<ring, nextSeq, consumed, restarts, view, broken>>

\* The first request of a walk has no cursor.
FirstPage(limit) ==
  /\ walk = "idle"
  /\ initial' = Events(ring)
  /\ Get(limit)

\* The next one passes back the cursor, with the same filter.
NextPage(limit) == walk = "paging" /\ Get(limit) /\ UNCHANGED initial

\* The buffer lives in memory: a restart empties it and numbers from the start.
Restart ==
  /\ restarts < MaxRestarts
  /\ restarts' = restarts + 1
  /\ ring' = <<>> /\ nextSeq' = 1
  /\ broken' = (broken \/ walk = "paging")
  /\ UNCHANGED <<consumed, walk, view, cursor, pages, initial>>

Next ==
  \/ \E place \in Places : Consume(place)
  \/ \E limit \in Limits : FirstPage(limit) \/ NextPage(limit)
  \/ Restart

Spec == Init /\ [][Next]_vars

-----------------------------------------------------------------------------
\* Types, and the buffer's order: sequence numbers without a gap, newest last.
TypeOK ==
  /\ Len(ring) <= RingSize
  /\ \A i \in 1..Len(ring) :
       /\ ring[i].seq = nextSeq - 1 - Len(ring) + i
       /\ ring[i].event \in [id : 1..MaxEvents, place : Places]
  /\ nextSeq \in Nat /\ consumed \in 0..MaxEvents /\ restarts \in 0..MaxRestarts
  /\ walk \in {"idle", "paging", "finished"}
  /\ view \in Views /\ cursor \in Nat /\ (walk = "paging" <=> cursor # 0)
  /\ broken \in BOOLEAN /\ initial \subseteq [id : 1..MaxEvents, place : Places]

Returned == UNION {Events(pages[n]) : n \in 1..Len(pages)}

\* Paging walks backwards (ring_buffer.py:66-75): each page is in order, and no
\* event is as new as one of an earlier page, whatever arrived in between.
PagesDescend ==
  \A m, n \in 1..Len(pages) : \A i \in 1..Len(pages[m]), j \in 1..Len(pages[n]) :
    m < n \/ (m = n /\ i > j) => pages[m][i].event.id > pages[n][j].event.id

\* Paging walks backwards for as long as the backend keeps running.
UnbrokenPagesDescend == ~broken => PagesDescend

\* A finished walk has returned every event of its view that was buffered when
\* it began and still is: only eviction makes a client miss an event.
WalkComplete ==
  walk = "finished" =>
    \A e \in initial \intersect Events(ring) : e.place \in view => e \in Returned
=============================================================================
