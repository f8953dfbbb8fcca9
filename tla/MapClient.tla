------------------------------ MODULE MapClient ------------------------------
(***************************************************************************)
(* The map in the browser (frontend/src/App.jsx) at a backend that comes   *)
(* and goes (BackendLifecycle): the WebSocket that reconnects and installs *)
(* the view's filter (view_filter.py) on every connection, and the way of  *)
(* a message through the buffers and React's state to the map.             *)
(*                                                                         *)
(* A view is an area and a timespan.  An area is a range of places, one    *)
(* number instead of two coordinates.  The server's clock is UTC and the   *)
(* browser's is Offset ahead of it: the same text of a time that names no  *)
(* zone is another instant in each of them.                                *)
(* "alert" stands for the aggregates as well, which take the same way.     *)
(* Coalescing in the server is LiveStream's subject: here a connection is  *)
(* a queue.                                                                *)
(***************************************************************************)
EXTENDS BackendLifecycle, SequencesExt

CONSTANTS
  Offset,        \* of the browser's time zone
  Views,         \* records [area, timespan], each empty or two bounds, of the timespan
                 \* as the user types them, without zone
  Messages,      \* records [type, key, place, time, zoned]: the key is a sensor, or sensor
                 \* and window; zoned says whether the text of the time names its zone
  MarkerCap,     \* 2000 markers
  LogCap,        \* 100 alerts or blobs
  RingSize,      \* the catch-up snapshot
  MaxEvents      \* bound of the model; drops and changes of the view are disturbances

\* What Flink makes of a window's bounds is UTC and says so; captured_at is
\* passed on as the source wrote it.
ASSUME ClientAssumption ==
  /\ \A m \in Messages :
       /\ m.type \in {"clean", "alert"} /\ m.place \in Int
       /\ m.time \in Int /\ m.zoned \in BOOLEAN /\ (m.type = "alert" => m.zoned)
  /\ Offset \in Int
  /\ \A v \in Views : \A range \in {v.area, v.timespan} : range = <<>> \/ range \in Int \X Int
  /\ MarkerCap \in Nat /\ LogCap \in Nat \ {0} /\ RingSize \in Nat
  /\ MaxEvents \in Nat

VARIABLES
  socket,    \* "waiting" for the timer, "connecting", "open"
  view,      \* React state
  subscribe, \* subscribeRef: the message for the view
  frames,    \* subscribe frames on their way to the server
  filter,    \* the filter of the server's subscriber
  ring,      \* the backend's ring buffer
  wire,      \* messages on their way to the client
  buffer,    \* bufferRef: markers and log
  updates,   \* state updates React has not run yet
  markers, log,   \* React state
  events,
  received   \* history: the last message received for each type and key

connection == <<socket, frames, filter, wire>>
display == <<buffer, updates, markers, log, received>>
page == <<view, subscribe>>
vars == <<lifecycle, disturbances, connection, ring, display, page, events>>

-----------------------------------------------------------------------------
\* new Date(text) of a text that names no zone, in the browser.
Utc(local) == local - Offset

Within(x, range) == range = <<>> \/ (range[1] <= x /\ x <= range[2])

\* The view as the client sends it, its bounds in UTC.
SubscribeMessage(v) ==
  [area     |-> v.area,
   timespan |-> IF v.timespan = <<>> THEN <<>> ELSE <<Utc(v.timespan[1]), Utc(v.timespan[2])>>]

\* ViewFilter raises, of bounds that the client takes.
Rejected(f) == \E range \in {f.area, f.timespan} : range # <<>> /\ range[1] >= range[2]

NoFilter == [area |-> <<>>, timespan |-> <<>>]

Same(a, b) == a.type = b.type /\ a.key = b.key

\* Map.set, and the findIndex loop of a flush: in place of the message with the
\* same key, or at the end.
Put(s, m) ==
  IF \E i \in DOMAIN s : Same(s[i], m)
  THEN [i \in DOMAIN s |-> IF Same(s[i], m) THEN m ELSE s[i]]
  ELSE Append(s, m)

PutAll(s, ms) ==
  LET upTo[n \in 0..Len(ms)] == IF n = 0 THEN s ELSE Put(upTo[n - 1], ms[n])
  IN  upTo[Len(ms)]

\* At the cap only sensors that have a marker are updated.
PutMarker(s, m) ==
  IF Len(s) >= MarkerCap /\ ~\E i \in DOMAIN s : Same(s[i], m) THEN s ELSE Put(s, m)

PutMarkers(s, ms) ==
  LET upTo[n \in 0..Len(ms)] == IF n = 0 THEN s ELSE PutMarker(upTo[n - 1], ms[n])
  IN  upTo[Len(ms)]

\* slice(-n)
Slice(s, n) == SubSeq(s, IF Len(s) > n THEN Len(s) - n + 1 ELSE 1, Len(s))

Nothing == [markers |-> <<>>, log |-> <<>>]

Init ==
  /\ LifecycleInit
  /\ socket = "connecting" /\ frames = <<>> /\ filter = NoFilter /\ wire = <<>>
  /\ ring = <<>>
  /\ view \in Views /\ subscribe = SubscribeMessage(view)
  /\ buffer = Nothing /\ updates = <<>> /\ markers = <<>> /\ log = <<>> /\ received = <<>>
  /\ events = 0

\* Faulty variant: the filter is sent only when the view changes.
OpenSilently ==
  /\ socket = "connecting" /\ phase = "serving"
  /\ socket' = "open" /\ frames' = <<>>
  /\ filter' = NoFilter /\ wire' = ring
  /\ UNCHANGED <<lifecycle, disturbances, ring, display, page, events>>

\* onopen: the server has a new subscriber and sends the snapshot, unfiltered;
\* the client sends its current filter.
Open ==
  /\ socket = "connecting" /\ phase = "serving"
  /\ socket' = "open" /\ frames' = <<subscribe>>
  /\ filter' = NoFilter /\ wire' = ring
  /\ UNCHANGED <<lifecycle, disturbances, ring, display, page, events>>

\* onclose: what is on the wire is lost, and a timer reconnects.
Closed == socket' = "waiting" /\ frames' = <<>> /\ wire' = <<>> /\ UNCHANGED filter

\* A connection that is refused, or drops.
Close ==
  /\ \/ socket = "connecting" /\ phase # "serving" /\ UNCHANGED disturbances
     \/ socket = "open" /\ Disturbed
  /\ Closed
  /\ UNCHANGED <<lifecycle, ring, display, page, events>>

Reconnect ==
  /\ socket = "waiting"
  /\ socket' = "connecting"
  /\ UNCHANGED <<lifecycle, disturbances, frames, filter, wire, ring, display, page, events>>

\* The user changes the view.
ChangeView(v) ==
  /\ v # view /\ Disturbed
  /\ view' = v
  /\ UNCHANGED <<lifecycle, connection, ring, display, subscribe, events>>

\* The effect on subscribeMessage runs after the render.
SendView ==
  /\ subscribe # SubscribeMessage(view)
  /\ subscribe' = SubscribeMessage(view)
  /\ frames' = IF socket = "open" THEN Append(frames, subscribe') ELSE frames
  /\ UNCHANGED <<lifecycle, disturbances, socket, filter, wire, ring, display, view, events>>

\* The server installs the filter; an invalid one leaves the previous in place.
InstallFilter ==
  /\ frames # <<>>
  /\ filter' = IF Rejected(Head(frames)) THEN filter ELSE Head(frames)
  /\ frames' = Tail(frames)
  /\ UNCHANGED <<lifecycle, disturbances, socket, wire, ring, display, page, events>>

\* The server's filter: the text of a time is read as UTC unless it says otherwise.
matches_message(m) == Within(m.place, filter.area) /\ Within(m.time, filter.timespan)

\* The consume loop publishes a message.
Publish(message) ==
  LET m == [type |-> message.type, key |-> message.key, place |-> message.place,
            time |-> message.time, zoned |-> message.zoned, id |-> events + 1]
  IN  /\ loop = "running" /\ events < MaxEvents
      /\ events' = events + 1
      /\ ring' = IF m.type = "clean" THEN Slice(Append(ring, m), RingSize) ELSE ring
      /\ wire' = IF socket = "open" /\ matches_message(m) THEN Append(wire, m) ELSE wire
      /\ UNCHANGED <<lifecycle, disturbances, socket, frames, filter, display, page>>

\* onmessage
Receive ==
  LET m == Head(wire)
  IN  /\ wire # <<>>
      /\ wire' = Tail(wire)
      /\ buffer' = IF m.type = "clean" THEN [buffer EXCEPT !.markers = Put(@, m)]
                   ELSE [buffer EXCEPT !.log = Put(@, m)]
      /\ received' = Put(received, m)
      /\ UNCHANGED <<lifecycle, disturbances, socket, frames, filter, ring, updates, markers, log, page, events>>

\* The flush timer: the buffers are copied into a state update and cleared.
Flush ==
  /\ buffer # Nothing
  /\ updates' = Append(updates, buffer) /\ buffer' = Nothing
  /\ UNCHANGED <<lifecycle, disturbances, connection, ring, markers, log, received, page, events>>

\* Faulty variant: the updater reads the buffer when React runs it.
RenderBuffer ==
  /\ updates # <<>>
  /\ markers' = PutMarkers(markers, buffer.markers)
  /\ log' = Slice(PutAll(log, buffer.log), LogCap)
  /\ updates' = Tail(updates)
  /\ UNCHANGED <<lifecycle, disturbances, connection, ring, buffer, received, page, events>>

\* React runs the next update.
Render ==
  /\ updates # <<>>
  /\ markers' = PutMarkers(markers, Head(updates).markers)
  /\ log' = Slice(PutAll(log, Head(updates).log), LogCap)
  /\ updates' = Tail(updates)
  /\ UNCHANGED <<lifecycle, disturbances, connection, ring, buffer, received, page, events>>

\* When the server stops serving its sockets close; its ring goes with the process.
BackendStep ==
  /\ StartUp \/ ShutDown \/ Crash \/ LoopDies \/ Outage
  /\ IF phase = "serving" /\ phase' # "serving" /\ socket = "open" THEN Closed ELSE UNCHANGED connection
  /\ ring' = IF phase' = "down" THEN <<>> ELSE ring
  /\ UNCHANGED <<display, page, events>>

Next ==
  \/ BackendStep
  \/ Open \/ Close \/ Reconnect \/ SendView \/ InstallFilter \/ Receive \/ Flush \/ Render
  \/ \E v \in Views : ChangeView(v)
  \/ \E message \in Messages : Publish(message)

Spec == Init /\ [][Next]_vars

\* The container is restarted and what it started goes on; the browser runs its
\* timers, callbacks and effects, and the server handles the frames it receives.
Fairness ==
  /\ WF_vars(BackendStep /\ (StartUp \/ StopConsumer \/ StopProducer))
  /\ WF_vars(Open) /\ WF_vars(Close /\ socket = "connecting") /\ WF_vars(Reconnect)
  /\ WF_vars(SendView) /\ WF_vars(InstallFilter)

FairSpec == Spec /\ Fairness

-----------------------------------------------------------------------------
\* The client's filter, applied when it renders: a text without zone is local time.
inArea(m) == Within(m.place, view.area)
inTimespan(m) ==
  Within(IF m.zoned THEN m.time ELSE Utc(m.time), SubscribeMessage(view).timespan)

\* The server has read all that the client sent for its view and took the last.
Subscribed ==
  /\ socket = "open" /\ frames = <<>>
  /\ subscribe = SubscribeMessage(view) /\ ~Rejected(subscribe)

\* Times that browser and server read alike, or do not look at.
ReadAlike(m) == m.zoned \/ Offset = 0 \/ view.timespan = <<>>

\* When the server has read what the client sent, it withholds nothing that the
\* client would show and sends nothing else (App.jsx:110-113), whichever
\* connection, view or rejected frame came before, of the messages whose time
\* both of them read alike: those with a zone, and without timespan all; under a
\* view that the server rejects, the one before stays in force.
ViewInForce ==
  Subscribed =>
    \A m \in Messages : ReadAlike(m) => (inArea(m) /\ inTimespan(m) <=> matches_message(m))

\* The last message received for a key is in the buffer, in an update that React
\* will run or on the map, unless the map is full.
ReceivedReachesMap ==
  \A i \in DOMAIN received :
    LET m == received[i]
        pending == {buffer} \union Range(updates)
    IN  IF m.type = "clean"
        THEN \/ \E b \in pending : m \in Range(b.markers)
             \/ m \in Range(markers) \/ (Len(markers) >= MarkerCap /\ ~\E k \in DOMAIN markers : Same(markers[k], m))
        ELSE \/ \E b \in pending : m \in Range(b.log)
             \/ m \in Range(log) \/ (Len(log) >= LogCap /\ ~\E k \in DOMAIN log : Same(log[k], m))

\* Outages at start-up end in a backend that serves, degraded or not, and the
\* map ends up connected to it with its own view, whatever was interrupted.
ClientGetsThrough ==
  <>[](/\ phase = "serving" /\ socket = "open"
       /\ Rejected(SubscribeMessage(view)) \/ filter = SubscribeMessage(view))
=============================================================================
