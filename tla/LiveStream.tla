----------------------------- MODULE LiveStream -----------------------------
(***************************************************************************)
(* The backend's live fan-out: the Kafka consume loop (kafka_consumer.py)  *)
(* publishes every message to the subscribers of the Broadcaster, and each *)
(* /ws/stream session (routers/stream.py) first replays the ring buffer    *)
(* and then drains its own subscriber while a second task reads the        *)
(* client's frames.                                                        *)
(*                                                                         *)
(* The backend is one asyncio event loop: an action is the code between    *)
(* two suspension points.  subscribe() and recent() have none in between,  *)
(* nor have append() and publish().                                        *)
(***************************************************************************)
EXTENDS Subscriber, RingBuffer, FiniteSets

CONSTANTS
  Clients,        \* browsers
  Served,         \* the clients whose sockets keep accepting data
  Kinds,          \* the <<type, key>> pairs the topics carry
  Views,          \* the views a client may subscribe to
  SnapshotLimit,  \* recent_default_limit
  MaxMsgs,        \* bound on the messages consumed
  MaxConnects     \* bound on the connections of one client

ASSUME LiveStreamAssumption ==
  /\ Served \subseteq Clients
  /\ \A kind \in Kinds : kind[1] \in {"clean", "aggregated", "alert"}
  /\ Views \subseteq SUBSET Places
  /\ SnapshotLimit \in Nat /\ MaxMsgs \in Nat /\ MaxConnects \in Nat

VARIABLES
  consumed,   \* messages the consume loop has handled
  ring,       \* the ring buffer _buffer
  phase,      \* where the session of each client is
  sub,        \* its Subscriber
  batch,      \* what its current for loop still has to send
  gone,       \* the client has left, which the session may not know yet
  connects,   \* connections the client has made
  sent,       \* history: messages the current session delivered
  offered     \* history: messages its view admitted when they were offered

session == <<phase, sub, batch, gone, connects, sent, offered>>
vars == <<consumed, ring, session>>

\* The send and the receive task of the session run.
TasksRunning(c) == phase[c] \in {"waiting", "flushing", "sending"}

\* Faulty variant: the session registers only when its snapshot has been sent.
SubscribedLate(c) == TasksRunning(c)

\* The session's subscriber is registered with the broadcaster.
Subscribed(c) == phase[c] # "closed"

-----------------------------------------------------------------------------
Init ==
  /\ consumed = 0
  /\ ring = <<>>
  /\ phase = [c \in Clients |-> "closed"]
  /\ sub = [c \in Clients |-> NewSubscriber]
  /\ batch = [c \in Clients |-> <<>>]
  /\ gone = [c \in Clients |-> FALSE]
  /\ connects = [c \in Clients |-> 0]
  /\ sent = [c \in Clients |-> <<>>]
  /\ offered = [c \in Clients |-> {}]

FanOut(m) == [c \in Clients |-> IF Subscribed(c) THEN Offer(sub[c], m) ELSE sub[c]]

\* History of the fan-out: the sessions whose view admits the message.
Admitted(m) ==
  [c \in Clients |-> IF Subscribed(c) /\ m.place \in sub[c].view
                     THEN offered[c] \union {m} ELSE offered[c]]

\* Faulty variant: the fan-out waits for subscribers that are behind.
PublishWithBackpressure(m) ==
  /\ \A c \in Clients : Subscribed(c) => Len(sub[c].fifo) < MaxPending
  /\ sub' = FanOut(m) /\ offered' = Admitted(m)

\* Broadcaster.publish: offer to every registered subscriber.
Publish(m) == sub' = FanOut(m) /\ offered' = Admitted(m)

\* One message of _consume_loop: _handle_clean also appends to the ring.
Consume(kind, place) ==
  LET m == [type |-> kind[1], key |-> kind[2], place |-> place, id |-> consumed + 1]
  IN  /\ consumed < MaxMsgs
      /\ consumed' = consumed + 1
      /\ ring' = IF m.type = "clean" THEN Appended(ring, m.id, m) ELSE ring
      /\ Publish(m)
      /\ UNCHANGED <<phase, batch, gone, connects, sent>>

\* accept, subscribe, and the snapshot of the ring buffer.
Connect(c) ==
  /\ phase[c] = "closed" /\ connects[c] < MaxConnects
  /\ sub' = [sub EXCEPT ![c] = NewSubscriber]
  /\ batch' = [batch EXCEPT ![c] = Recent(ring, SnapshotLimit)]
  /\ phase' = [phase EXCEPT ![c] = "snapshot"]
  /\ gone' = [gone EXCEPT ![c] = FALSE]
  /\ connects' = [connects EXCEPT ![c] = @ + 1]
  /\ sent' = [sent EXCEPT ![c] = <<>>]
  /\ offered' = [offered EXCEPT ![c] = {}]
  /\ UNCHANGED <<consumed, ring>>

\* await send_json(...) of the next message, of the snapshot or of a batch.
\* What is written after the client left reaches nobody.
Send(c) ==
  /\ phase[c] \in {"snapshot", "sending"} /\ batch[c] # <<>>
  /\ sent' = IF gone[c] THEN sent ELSE [sent EXCEPT ![c] = Append(@, Head(batch[c]))]
  /\ batch' = [batch EXCEPT ![c] = Tail(@)]
  /\ UNCHANGED <<consumed, ring, phase, sub, gone, connects, offered>>

\* The snapshot or the batch is sent: (back) to await subscriber.wait().
AwaitReady(c) ==
  /\ phase[c] \in {"snapshot", "sending"} /\ batch[c] = <<>>
  /\ phase' = [phase EXCEPT ![c] = "waiting"]
  /\ UNCHANGED <<consumed, ring, sub, batch, gone, connects, sent, offered>>

\* The ready event is set: hold for the flush interval.
Wake(c) ==
  /\ phase[c] = "waiting" /\ sub[c].ready
  /\ phase' = [phase EXCEPT ![c] = "flushing"]
  /\ UNCHANGED <<consumed, ring, sub, batch, gone, connects, sent, offered>>

\* The interval is over: drain the subscriber into a batch.
Drain(c) ==
  /\ phase[c] = "flushing"
  /\ batch' = [batch EXCEPT ![c] = Pending(sub[c])]
  /\ sub' = [sub EXCEPT ![c] = Drained(@)]
  /\ phase' = [phase EXCEPT ![c] = "sending"]
  /\ UNCHANGED <<consumed, ring, gone, connects, sent, offered>>

\* _receive_loop handles a subscribe frame; an invalid one changes nothing.
Subscribe(c, view) ==
  /\ TasksRunning(c) /\ ~gone[c]
  /\ sub[c].view # view
  /\ sub' = [sub EXCEPT ![c].view = view]
  /\ UNCHANGED <<consumed, ring, phase, batch, gone, connects, sent, offered>>

\* The browser closes the tab or loses the network.
Leave(c) ==
  /\ Subscribed(c) /\ ~gone[c]
  /\ gone' = [gone EXCEPT ![c] = TRUE]
  /\ UNCHANGED <<consumed, ring, phase, sub, batch, connects, sent, offered>>

\* Both tasks are cancelled, what they held is lost, and the subscriber is
\* unregistered.
EndSession(c) ==
  /\ phase' = [phase EXCEPT ![c] = "closed"]
  /\ sub' = [sub EXCEPT ![c] = NewSubscriber]
  /\ batch' = [batch EXCEPT ![c] = <<>>]
  /\ gone' = [gone EXCEPT ![c] = FALSE]
  /\ sent' = [sent EXCEPT ![c] = <<>>]
  /\ offered' = [offered EXCEPT ![c] = {}]
  /\ UNCHANGED <<consumed, ring, connects>>

\* Faulty variant: no receive task, a disconnect surfaces in a send only.
TeardownOnSendOnly(c) == gone[c] /\ batch[c] # <<>> /\ EndSession(c)

\* The receive task sees the disconnect, or a send fails; in the snapshot phase
\* only a send can notice.
Teardown(c) == gone[c] /\ (TasksRunning(c) \/ batch[c] # <<>>) /\ EndSession(c)

SessionStep(c) == Send(c) \/ AwaitReady(c) \/ Wake(c) \/ Drain(c) \/ Teardown(c)

Browser(c) == Connect(c) \/ Leave(c) \/ \E view \in Views : Subscribe(c, view)

Consumer == \E kind \in Kinds, place \in Places : Consume(kind, place)

Next == Consumer \/ \E c \in Clients : SessionStep(c) \/ Browser(c)

Spec == Init /\ [][Next]_vars

\* The event loop runs the consumer and the tasks of every session whose
\* socket accepts data; a client outside Served may stall for ever.
FairSpec ==
  /\ Spec
  /\ WF_vars(Consumer)
  /\ \A c \in Served : WF_vars(SessionStep(c))

-----------------------------------------------------------------------------
Messages == [type : {"clean", "aggregated", "alert"}, key : {k[2] : k \in Kinds},
             place : Places, id : 1..MaxMsgs]

\* The lanes are within their caps and hold one message per key.  A cap of 0
\* still lets one key in: the lane evicts only when it is not empty.
LanesBounded(s) ==
  /\ Len(s.fifo) <= MaxPending
  /\ Len(s.coalesced) <= IF CoalescedMax = 0 THEN 1 ELSE CoalescedMax
  /\ \A i, j \in 1..Len(s.coalesced) :
       i # j => ~SameLane(s.coalesced[i], s.coalesced[j])

\* Types, and the memory bound of every client's buffer (broadcaster.py:13-23).
TypeOK ==
  /\ consumed \in 0..MaxMsgs
  /\ ring \in Seq([seq : 1..MaxMsgs, event : Messages]) /\ Len(ring) <= RingSize
  /\ phase \in [Clients -> {"closed", "snapshot", "waiting", "flushing", "sending"}]
  /\ gone \in [Clients -> BOOLEAN]
  /\ connects \in [Clients -> 0..MaxConnects]
  /\ \A c \in Clients :
       /\ sub[c].fifo \in Seq(Messages) /\ sub[c].coalesced \in Seq(Messages)
       /\ batch[c] \in Seq(Messages) /\ sent[c] \in Seq(Messages)
       /\ offered[c] \subseteq Messages
       /\ LanesBounded(sub[c])

\* What a session has delivered, is sending and still holds, in this order.
Stream(c) == sent[c] \o batch[c] \o Pending(sub[c])

Elements(s) == {s[i] : i \in 1..Len(s)}

\* Per sensor, per bucket and for the alerts a client sees messages in the
\* order they were consumed and none twice, across the snapshot, the batches
\* and the overlap of the two that stream.py:109-112 is about.
DeliveryOrdered ==
  \A c \in Clients : \A i, j \in 1..Len(Stream(c)) :
    i < j /\ SameLane(Stream(c)[i], Stream(c)[j]) => Stream(c)[i].id < Stream(c)[j].id

\* What competes with m for its lane's space: the other keys updated since for
\* a keyed message, the later ones for an alert.
Newer(c, m) == {n \in offered[c] : n.id > m.id /\ (Coalesces(n) <=> Coalesces(m))}
Rivals(c, m) ==
  IF Coalesces(m) THEN {<<n.type, n.key>> : n \in Newer(c, m)} \ {<<m.type, m.key>>}
                  ELSE Newer(c, m)

\* Only the least recently updated state and the oldest alerts are ever shed: a
\* message with fewer rivals than the cap is delivered or held, or, when it has
\* a key, a newer message of that key is.
RecentSurvives ==
  \A c \in Clients : Subscribed(c) /\ ~gone[c] =>
    \A m \in offered[c] :
      Cardinality(Rivals(c, m)) < (IF Coalesces(m) THEN CoalescedMax ELSE MaxPending) =>
        \E n \in Elements(Stream(c)) :
          n = m \/ (Coalesces(m) /\ SameLane(n, m) /\ n.id > m.id)

\* Every message the view admitted since the session began is counted as
\* coalesced or dropped, or is delivered, being sent or pending.
EverythingAccounted ==
  \A c \in Clients : Subscribed(c) /\ ~gone[c] =>
    Cardinality(offered[c]) =
      sub[c].coalescedCount + sub[c].droppedCount
        + Cardinality(Elements(Stream(c)) \intersect offered[c])

\* No event falls between the snapshot and the live stream: what the ring
\* buffer would replay now, or newer state of the same sensor, is on its way.
SnapshotJoinsLive ==
  \A c \in Clients :
    Subscribed(c) /\ ~gone[c] /\ sub[c].droppedCount = 0 /\ sub[c].filteredCount = 0 =>
      \A e \in Elements(Recent(ring, SnapshotLimit)) :
        \E n \in Elements(Stream(c)) : SameLane(n, e) /\ n.id >= e.id

\* A slow client stalls neither the consumer nor, next, the other clients.
ConsumerNeverStalls == <>(consumed = MaxMsgs)

\* A client that keeps reading is sent everything its buffer holds: no wakeup
\* is lost, whatever arrives between a drain and the next wait.
ServedClientsCatchUp ==
  \A c \in Served : []<>(phase[c] \in {"closed", "waiting"} /\ Pending(sub[c]) = <<>>)

\* A session whose client has left is torn down, also when it has nothing to
\* send, and its subscriber is unregistered.
DisconnectsAreReaped == \A c \in Served : gone[c] ~> ~Subscribed(c)
=============================================================================
