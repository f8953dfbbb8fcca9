--------------------------- MODULE MapClientProofs ---------------------------
(***************************************************************************)
(* Theorems about MapClient and the lifecycle it runs on, for every number *)
(* of attempts, events and disturbances, every set of topics, messages and *)
(* views, every time zone, and every choice of what is enabled.            *)
(*                                                                         *)
(* Released says which clients may be open in each phase of the lifespan,  *)
(* Started what the statuses promise while it goes on, and LastFrame which *)
(* frame is the last on its way to the server.                             *)
(***************************************************************************)
EXTENDS MapClient, SequenceTheorems, FiniteSetTheorems, TLAPS

Phases == {"down", "topics", "listing", "creating", "producer", "consumer", "archive",
           "serving", "stopping", "releasing"}

\* The clients that may be open in a phase of a process that runs.
OpenIn(p) ==
  CASE p \in {"listing", "creating"} -> {"admin"}
    [] p \in {"consumer", "releasing"} -> {"producer"}
    [] p \in {"archive", "stopping"} -> {"producer", "consumer"}
    [] p = "serving" -> {"producer", "consumer", "pool"}
    [] OTHER -> {}

Released ==
  /\ phase \in Phases
  /\ phase # "down" => escaped = "none" /\ open \subseteq OpenIn(phase)
  /\ phase = "down" => \A c \in open : c \in DOMAIN LeftOpen /\ escaped \in LeftOpen[c]

\* Between its start and the shutdown a client that is enabled and not degraded
\* is open, and the consumer has had its loop.
Started ==
  /\ phase \in {"consumer", "archive", "serving"} =>
       ("producer" \in Enabled /\ producerStatus # "degraded" => "producer" \in open)
  /\ phase \in {"archive", "serving"} =>
       ("consumer" \in Enabled /\ consumerStatus # "degraded" =>
          "consumer" \in open /\ loop \in {"running", "dead"})

\* What may be sent for a view.
Frames == {SubscribeMessage(v) : v \in Views}

\* On an open socket the last frame sent is the current message's, and when none
\* is on its way the server has installed or refused it.
LastFrame ==
  /\ view \in Views /\ subscribe \in Frames /\ frames \in Seq(Frames)
  /\ socket \in {"waiting", "connecting", "open"}
  /\ socket # "open" => frames = <<>>
  /\ socket = "open" /\ frames # <<>> => frames[Len(frames)] = subscribe
  /\ socket = "open" /\ frames = <<>> => filter = subscribe \/ Rejected(subscribe)

Lifecycle == StartUp \/ ShutDown \/ Crash \/ LoopDies \/ Outage

\* The steps of the browser and of the messages leave the lifecycle alone.
LEMMA ClientSteps == [Next]_vars => Lifecycle \/ UNCHANGED lifecycle
  <1> SUFFICES ASSUME [Next]_vars PROVE Lifecycle \/ UNCHANGED lifecycle
    OBVIOUS
  <1>1. CASE BackendStep
    BY <1>1 DEF BackendStep, Lifecycle
  <1>2. CASE Open \/ Close \/ Reconnect \/ SendView \/ InstallFilter \/ Receive \/ Flush \/ Render
    BY <1>2 DEF Open, Close, Reconnect, SendView, InstallFilter, Receive, Flush, Render
  <1>3. ASSUME NEW v \in Views, ChangeView(v) PROVE UNCHANGED lifecycle
    BY <1>3 DEF ChangeView
  <1>4. ASSUME NEW message \in Messages, Publish(message) PROVE UNCHANGED lifecycle
    BY <1>4 DEF Publish
  <1>5. CASE UNCHANGED vars
    BY <1>5 DEF vars
  <1> QED BY <1>1, <1>2, <1>3, <1>4, <1>5 DEF Next

-----------------------------------------------------------------------------
\* Every step of the lifespan closes what its next phase may not hold.
LEMMA ReleasedStep == Released /\ Lifecycle => Released'
  <1> SUFFICES ASSUME Released, Lifecycle PROVE Released'
    OBVIOUS
  <1> USE DEF Released, OpenIn, LeftOpen, Phases, Goes, Escapes
  <1>1. CASE Boot
    BY <1>1 DEF Boot
  <1>2. CASE ConnectAdmin
    BY <1>2 DEF ConnectAdmin, TopicsEnsured
  <1>3. CASE ListTopics
    BY <1>3 DEF ListTopics, TopicsEnsured, AdminFails
  <1>4. CASE CreateTopics
    BY <1>4 DEF CreateTopics, TopicsEnsured, AdminFails
  <1>5. CASE StartProducer
    BY <1>5 DEF StartProducer
  <1>6. CASE StartConsumer
    BY <1>6 DEF StartConsumer, ConsumerEscapes
  <1>7. CASE ConnectArchive
    BY <1>7 DEF ConnectArchive
  <1>8. CASE CloseArchive
    BY <1>8 DEF CloseArchive
  <1>9. CASE StopConsumer
    BY <1>9 DEF StopConsumer
  <1>10. CASE StopProducer
    BY <1>10 DEF StopProducer
  <1>11. CASE Crash
    BY <1>11 DEF Crash
  <1>12. CASE LoopDies
    BY <1>12 DEF LoopDies
  <1>13. CASE Outage
    BY <1>13 DEF Outage, client
  <1> QED
    BY <1>1, <1>2, <1>3, <1>4, <1>5, <1>6, <1>7, <1>8, <1>9, <1>10, <1>11, <1>12, <1>13
    DEF Lifecycle, StartUp, ShutDown

\* A client that was started stays open until the shutdown.
LEMMA StartedStep == Started /\ Lifecycle => Started'
  <1> SUFFICES ASSUME Started, Lifecycle PROVE Started'
    OBVIOUS
  <1> USE DEF Started, Goes, Escapes
  <1>1. CASE Boot
    BY <1>1 DEF Boot
  <1>2. CASE ConnectAdmin
    BY <1>2 DEF ConnectAdmin, TopicsEnsured
  <1>3. CASE ListTopics
    BY <1>3 DEF ListTopics, TopicsEnsured, AdminFails
  <1>4. CASE CreateTopics
    BY <1>4 DEF CreateTopics, TopicsEnsured, AdminFails
  <1>5. CASE StartProducer
    BY <1>5 DEF StartProducer
  <1>6. CASE StartConsumer
    BY <1>6 DEF StartConsumer, ConsumerEscapes
  <1>7. CASE ConnectArchive
    BY <1>7 DEF ConnectArchive
  <1>8. CASE CloseArchive
    BY <1>8 DEF CloseArchive
  <1>9. CASE StopConsumer
    BY <1>9 DEF StopConsumer
  <1>10. CASE StopProducer
    BY <1>10 DEF StopProducer
  <1>11. CASE Crash
    BY <1>11 DEF Crash
  <1>12. CASE LoopDies
    BY <1>12 DEF LoopDies
  <1>13. CASE Outage
    BY <1>13 DEF Outage, client
  <1> QED
    BY <1>1, <1>2, <1>3, <1>4, <1>5, <1>6, <1>7, <1>8, <1>9, <1>10, <1>11, <1>12, <1>13
    DEF Lifecycle, StartUp, ShutDown

\* ShutdownReleases: wherever the lifespan ends, in order, by an exception of any
\* of its awaits or killed, it leaves open at most the clients LeftOpen names for
\* that place, and none when it ended in order or while it ensured the topics.
THEOREM OrderlyShutdown == Spec => []ShutdownReleases
  <1>1. Init => Released
    BY DEF Init, LifecycleInit, Released, Phases
  <1>2. Released /\ [Next]_vars => Released'
    <2> SUFFICES ASSUME Released, [Next]_vars PROVE Released'
      OBVIOUS
    <2>1. CASE Lifecycle
      BY <2>1, ReleasedStep
    <2>2. CASE UNCHANGED lifecycle
      BY <2>2 DEF lifecycle, client, Released
    <2> QED BY <2>1, <2>2, ClientSteps
  <1>3. Released => ShutdownReleases
    BY DEF Released, ShutdownReleases
  <1> QED BY <1>1, <1>2, <1>3, PTL DEF Spec

\* HealthMeansStarted: while the backend serves, "ok" in GET /health means that
\* every enabled Kafka client has been started, whenever the broker was away.
THEOREM OkMeansStarted == Spec => []HealthMeansStarted
  <1>1. Init => Started
    BY DEF Init, LifecycleInit, Started
  <1>2. Started /\ [Next]_vars => Started'
    <2> SUFFICES ASSUME Started, [Next]_vars PROVE Started'
      OBVIOUS
    <2>1. CASE Lifecycle
      BY <2>1, StartedStep
    <2>2. CASE UNCHANGED lifecycle
      BY <2>2 DEF lifecycle, client, Started
    <2> QED BY <2>1, <2>2, ClientSteps
  <1>3. Started => HealthMeansStarted
    BY DEF Started, HealthMeansStarted, health_check
  <1> QED BY <1>1, <1>2, <1>3, PTL DEF Spec

-----------------------------------------------------------------------------
\* A step of the server or of the message path leaves the frames as they are or
\* closes the socket.
LEMMA QuietSteps ==
  LastFrame /\ UNCHANGED page /\ (UNCHANGED <<socket, frames, filter>> \/ Closed) => LastFrame'
  <1> SUFFICES ASSUME LastFrame, UNCHANGED page, UNCHANGED <<socket, frames, filter>> \/ Closed
      PROVE LastFrame'
    OBVIOUS
  <1>1. UNCHANGED <<subscribe, view>>
    BY DEF page
  <1>2. CASE UNCHANGED <<socket, frames, filter>>
    BY <1>1, <1>2 DEF LastFrame
  <1>3. CASE Closed
    <2>1. socket' = "waiting" /\ frames' = <<>>
      BY <1>3 DEF Closed
    <2> QED BY <1>1, <2>1 DEF LastFrame
  <1> QED BY <1>2, <1>3

\* The tail of two elements or more ends like the sequence.
LEMMA TailLast ==
  ASSUME NEW S, NEW s \in Seq(S), s # <<>>, Len(s) # 1
  PROVE  Tail(s) \in Seq(S) /\ Tail(s) # <<>> /\ Tail(s)[Len(Tail(s))] = s[Len(s)]
  <1>1. Len(s) \in Nat /\ Len(s) > 1
    BY EmptySeq
  <1>2. Tail(s) \in Seq(S) /\ Len(Tail(s)) = Len(s) - 1
    BY HeadTailProperties
  <1>3. Tail(s)[Len(s) - 1] = s[Len(s)]
    BY <1>1, <1>2, HeadTailProperties
  <1>4. Tail(s) # <<>>
    <2>1. Len(<<>>) = 0
      BY EmptySeq
    <2>2. Len(Tail(s)) # 0
      BY <1>1, <1>2
    <2> QED BY <2>1, <2>2
  <1> QED BY <1>2, <1>3, <1>4

\* The last frame of an open socket stays the current message.
LEMMA LastFrameStep == LastFrame /\ [Next]_vars => LastFrame'
  <1> SUFFICES ASSUME LastFrame, [Next]_vars PROVE LastFrame'
    OBVIOUS
  <1>1. CASE BackendStep
    BY <1>1, QuietSteps DEF BackendStep, connection
  <1>2. CASE Open
    BY <1>2 DEF Open, page, LastFrame
  <1>3. CASE Close
    BY <1>3, QuietSteps DEF Close
  <1>4. CASE Reconnect
    BY <1>4 DEF Reconnect, page, LastFrame
  <1>5. CASE SendView
    <2>1. /\ view' = view /\ subscribe' = SubscribeMessage(view) /\ socket' = socket
          /\ frames' = IF socket = "open" THEN Append(frames, subscribe') ELSE frames
      BY <1>5 DEF SendView
    <2>2. subscribe' \in Frames
      BY <2>1 DEF LastFrame, Frames
    <2>3. CASE socket = "open"
      <3>1. frames' = Append(frames, subscribe') /\ frames \in Seq(Frames)
        BY <2>1, <2>3 DEF LastFrame
      <3>2. frames' \in Seq(Frames) /\ frames' # <<>> /\ frames'[Len(frames')] = subscribe'
        BY <2>2, <3>1, AppendProperties
      <3> QED BY <2>1, <2>2, <2>3, <3>2 DEF LastFrame
    <2>4. CASE socket # "open"
      BY <2>1, <2>2, <2>4 DEF LastFrame
    <2> QED BY <2>3, <2>4
  <1>6. CASE InstallFilter
    <2>1. socket = "open" /\ frames[Len(frames)] = subscribe /\ frames \in Seq(Frames)
      BY <1>6 DEF InstallFilter, LastFrame
    <2>2. UNCHANGED <<socket, view, subscribe>>
      BY <1>6 DEF InstallFilter, page
    <2>3. CASE Len(frames) = 1
      <3>1. Head(frames) = subscribe /\ frames' = <<>>
        BY <1>6, <2>1, <2>3 DEF InstallFilter
      <3>2. filter' = subscribe \/ Rejected(subscribe)
        BY <1>6, <3>1 DEF InstallFilter
      <3>3. socket' = "open" /\ subscribe' = subscribe /\ view' = view
        BY <2>1, <2>2
      <3> QED BY <3>1, <3>2, <3>3 DEF LastFrame
    <2>4. CASE Len(frames) # 1
      <3>1. /\ frames' \in Seq(Frames) /\ frames' # <<>>
            /\ frames'[Len(frames')] = frames[Len(frames)]
        BY <1>6, <2>1, <2>4, TailLast DEF InstallFilter
      <3> QED BY <2>1, <2>2, <3>1 DEF LastFrame
    <2> QED BY <2>3, <2>4
  <1>7. CASE Receive \/ Flush \/ Render
    BY <1>7, QuietSteps DEF Receive, Flush, Render, connection
  <1>8. ASSUME NEW v \in Views, ChangeView(v) PROVE LastFrame'
    BY <1>8 DEF ChangeView, connection, LastFrame
  <1>9. ASSUME NEW message \in Messages, Publish(message) PROVE LastFrame'
    BY <1>9, QuietSteps DEF Publish
  <1>10. CASE UNCHANGED vars
    BY <1>10, QuietSteps DEF vars, connection
  <1> QED BY <1>1, <1>2, <1>3, <1>4, <1>5, <1>6, <1>7, <1>8, <1>9, <1>10 DEF Next

\* What the server has taken for a view admits what the view shows, of a message
\* whose time both read alike.
LEMMA SameTest ==
  ASSUME NEW v \in Views, NEW m \in Messages, v = view, filter = SubscribeMessage(v), ReadAlike(m)
  PROVE  inArea(m) /\ inTimespan(m) <=> matches_message(m)
  <1>1. filter.area = view.area /\ filter.timespan = SubscribeMessage(view).timespan
    BY DEF SubscribeMessage
  <1>2. inArea(m) <=> Within(m.place, filter.area)
    BY <1>1 DEF inArea
  <1>3. inTimespan(m) <=> Within(m.time, filter.timespan)
    <2>1. CASE m.zoned
      BY <1>1, <2>1 DEF inTimespan
    <2>2. CASE Offset = 0
      <3>1. Utc(m.time) = m.time
        BY <2>2, ClientAssumption DEF Utc
      <3> QED BY <1>1, <3>1 DEF inTimespan
    <2>3. CASE view.timespan = <<>>
      <3>1. filter.timespan = <<>>
        BY <1>1, <2>3 DEF SubscribeMessage
      <3> QED BY <1>1, <3>1 DEF inTimespan, Within
    <2> QED BY <2>1, <2>2, <2>3 DEF ReadAlike
  <1> QED BY <1>2, <1>3 DEF matches_message

\* ViewInForce: once the server has read what the client sent, and did not refuse
\* it, client and server filter alike whatever they read alike, in every time
\* zone, whichever connection, view or refused frame came before.
THEOREM ServerFiltersTheView == Spec => []ViewInForce
  <1>1. Init => LastFrame
    <2> SUFFICES ASSUME Init PROVE LastFrame
      OBVIOUS
    <2>1. view \in Views /\ subscribe = SubscribeMessage(view) /\ frames = <<>> /\ socket = "connecting"
      BY DEF Init
    <2> QED BY <2>1 DEF LastFrame, Frames
  <1>2. LastFrame => ViewInForce
    <2> SUFFICES ASSUME LastFrame, Subscribed, NEW m \in Messages, ReadAlike(m)
                 PROVE  inArea(m) /\ inTimespan(m) <=> matches_message(m)
      BY DEF ViewInForce
    <2>1. view \in Views /\ filter = SubscribeMessage(view)
      BY DEF LastFrame, Subscribed
    <2> QED BY <2>1, SameTest
  <1> QED BY <1>1, <1>2, LastFrameStep, PTL DEF Spec

-----------------------------------------------------------------------------
(* The least-number principle *)

Below(T, n) == {k \in T : k < n}

\* Every set of natural numbers that is not empty has a least member: the sets
\* of the members below one of its members are finite, and strict inclusion
\* among finite sets is well founded.
LEMMA LeastNumber ==
  ASSUME NEW T \in SUBSET Nat, T # {}
  PROVE  \E n \in T : \A k \in T : n <= k
<1> DEFINE Belows == {Below(T, n) : n \in T}
<1>1. ASSUME NEW n \in T PROVE Below(T, n) \in FiniteSubsetsOf(Nat)
  <2>1. Below(T, n) \in SUBSET Nat
    BY DEF Below
  <2>2. \A k \in Below(T, n) : k <= n
    BY DEF Below
  <2>3. IsFiniteSet(Below(T, n))
    BY <2>1, <2>2, FS_BoundedSetOfNaturals
  <2> QED BY <2>1, <2>3 DEF FiniteSubsetsOf
<1>2. PICK B \in Belows : \A C \in Belows : <<C, B>> \notin StrictSubsetOrdering(Nat)
  <2>1. Belows \subseteq FiniteSubsetsOf(Nat) /\ Belows # {}
    BY <1>1
  <2> HIDE DEF Belows
  <2> QED BY <2>1, FS_StrictSubsetOrderingWellFounded, WFMin
<1>3. PICK n \in T : B = Below(T, n)
  BY <1>2
<1>4. ASSUME NEW k \in T, k < n PROVE FALSE
  <2>1. \A j \in Below(T, k) : j \in T /\ j < n
    BY <1>4 DEF Below
  <2>2. Below(T, k) \subseteq Below(T, n)
    BY <2>1 DEF Below
  <2>3. k \in Below(T, n) /\ k \notin Below(T, k)
    BY <1>4 DEF Below
  <2>4. Below(T, k) \in SUBSET Nat /\ Below(T, n) \in SUBSET Nat
    BY DEF Below
  <2>5. <<Below(T, k), Below(T, n)>> \in StrictSubsetOrdering(Nat)
    BY <2>2, <2>3, <2>4 DEF StrictSubsetOrdering
  <2> QED BY <1>2, <1>3, <2>5
<1> QED BY <1>4

-----------------------------------------------------------------------------
(* A message that is put among others *)

LEMMA RangeElements ==
  ASSUME NEW S, NEW s \in Seq(S)
  PROVE  /\ Range(s) \subseteq S
         /\ \A x : x \in Range(s) <=> \E i \in 1..Len(s) : s[i] = x
<1>1. DOMAIN s = 1..Len(s) /\ \A i \in 1..Len(s) : s[i] \in S
  BY LenProperties, ElementOfSeq
<1> QED BY <1>1 DEF Range

LEMMA RangeAppend ==
  ASSUME NEW S, NEW s \in Seq(S), NEW e \in S
  PROVE  /\ Append(s, e) \in Seq(S) /\ Len(Append(s, e)) = Len(s) + 1
         /\ Range(Append(s, e)) = Range(s) \union {e}
<1> DEFINE t == Append(s, e)
<1>1. /\ t \in Seq(S) /\ Len(t) = Len(s) + 1 /\ Len(s) \in Nat
      /\ \A i \in 1..Len(s) : t[i] = s[i]
      /\ t[Len(s) + 1] = e
  BY LenProperties, AppendProperties
<1> HIDE DEF t
<1>2. /\ \A x : x \in Range(s) <=> \E i \in 1..Len(s) : s[i] = x
      /\ \A x : x \in Range(t) <=> \E i \in 1..Len(s) + 1 : t[i] = x
  BY <1>1, RangeElements
<1>3. \A i : i \in 1..Len(s) + 1 <=> i \in 1..Len(s) \/ i = Len(s) + 1
  BY <1>1
<1>4. Range(t) = Range(s) \union {e}
  BY <1>1, <1>2, <1>3
<1> QED BY <1>1, <1>4 DEF t

LEMMA PutProperties ==
  ASSUME NEW S, NEW s \in Seq(S), NEW m \in S
  PROVE  /\ Put(s, m) \in Seq(S) /\ Len(Put(s, m)) >= Len(s)
         /\ \A x : x \in Range(Put(s, m)) <=> x = m \/ (x \in Range(s) /\ ~Same(x, m))
<1>1. Len(s) \in Nat /\ DOMAIN s = 1..Len(s) /\ \A i \in 1..Len(s) : s[i] \in S
  BY LenProperties, ElementOfSeq
<1>2. Same(m, m) /\ \A x : x \in Range(s) <=> \E i \in 1..Len(s) : s[i] = x
  BY RangeElements DEF Same
<1>3. CASE \E i \in DOMAIN s : Same(s[i], m)
  <2> DEFINE t == [i \in DOMAIN s |-> IF Same(s[i], m) THEN m ELSE s[i]]
  <2>1. Put(s, m) = t
    BY <1>3 DEF Put
  <2>2. /\ t \in [1..Len(s) -> S] /\ DOMAIN t = 1..Len(s)
        /\ \A i \in 1..Len(s) : t[i] = IF Same(s[i], m) THEN m ELSE s[i]
    BY <1>1
  <2> HIDE DEF t
  <2>3. t \in Seq(S)
    BY <1>1, <2>2, SeqDef
  <2>4. Len(t) = Len(s)
    BY <1>1, <2>2, <2>3, LenProperties
  <2>5. \A x : x \in Range(t) <=> \E i \in 1..Len(s) : t[i] = x
    BY <2>3, <2>4, RangeElements
  <2>6. PICK i \in 1..Len(s) : Same(s[i], m)
    BY <1>1, <1>3
  <2>7. m \in Range(t)
    BY <2>2, <2>5, <2>6
  <2>8. ASSUME NEW x PROVE x \in Range(t) <=> x = m \/ (x \in Range(s) /\ ~Same(x, m))
    <3>1. ASSUME x \in Range(t), x # m PROVE x \in Range(s) /\ ~Same(x, m)
      BY <1>2, <2>2, <2>5, <3>1
    <3>2. ASSUME x \in Range(s), ~Same(x, m) PROVE x \in Range(t)
      BY <1>2, <2>2, <2>5, <3>2
    <3> QED BY <2>7, <3>1, <3>2
  <2> QED BY <1>1, <2>1, <2>3, <2>4, <2>8
<1>4. CASE ~\E i \in DOMAIN s : Same(s[i], m)
  <2>1. Put(s, m) = Append(s, m)
    BY <1>4 DEF Put
  <2>2. \A x \in Range(s) : ~Same(x, m)
    BY <1>1, <1>2, <1>4
  <2>3. /\ Append(s, m) \in Seq(S) /\ Len(Append(s, m)) = Len(s) + 1
        /\ Range(Append(s, m)) = Range(s) \union {m}
    BY RangeAppend
  <2> QED BY <1>1, <2>1, <2>2, <2>3
<1> QED BY <1>3, <1>4

\* A flush puts a message into the map, where there is a cap, or into the log.
Step(t, s, m) == IF t = "clean" THEN PutMarker(s, m) ELSE Put(s, m)

Full(t, s) == t = "clean" /\ Len(s) >= MarkerCap

LEMMA StepProperties ==
  ASSUME NEW S, NEW s \in Seq(S), NEW m \in S, NEW t
  PROVE  /\ Step(t, s, m) \in Seq(S) /\ Len(Step(t, s, m)) >= Len(s)
         /\ \/ /\ Full(t, s) /\ Step(t, s, m) = s
               /\ \A x \in Range(s) : ~Same(x, m)
            \/ \A x : x \in Range(Step(t, s, m)) <=> x = m \/ (x \in Range(s) /\ ~Same(x, m))
<1>1. Len(s) \in Nat /\ DOMAIN s = 1..Len(s)
  BY LenProperties
<1>2. \A x : x \in Range(s) <=> \E i \in 1..Len(s) : s[i] = x
  BY RangeElements
<1>3. CASE t = "clean" /\ Len(s) >= MarkerCap /\ ~\E i \in DOMAIN s : Same(s[i], m)
  <2>1. Step(t, s, m) = s /\ Full(t, s)
    BY <1>3 DEF Step, PutMarker, Full
  <2>2. \A x \in Range(s) : ~Same(x, m)
    BY <1>1, <1>2, <1>3
  <2> QED BY <1>1, <2>1, <2>2
<1>4. CASE ~(t = "clean" /\ Len(s) >= MarkerCap /\ ~\E i \in DOMAIN s : Same(s[i], m))
  <2>1. Step(t, s, m) = Put(s, m)
    BY <1>4 DEF Step, PutMarker
  <2> QED BY <2>1, PutProperties
<1> QED BY <1>3, <1>4

-----------------------------------------------------------------------------
(* A batch that is put among others *)

Unique(T) == \A x, y \in T : Same(x, y) => x = y

\* What PutMarkers and PutAll compute.
After(h, t, s, ms, n) == IF n = 0 THEN s ELSE Step(t, h[n - 1], ms[n])

Computes(h, t, s, ms, N) == h = [n \in 0..N |-> After(h, t, s, ms, n)]

LEMMA RecursionDefined ==
  ASSUME NEW N \in Nat, NEW t, NEW s, NEW ms
  PROVE  \E h : Computes(h, t, s, ms, N)
<1> DEFINE Defined(m) == \E g : g = [n \in 0..m |-> After(g, t, s, ms, n)]
           T == {m \in Nat : ~Defined(m)}
<1>1. SUFFICES ASSUME T # {} PROVE FALSE
  BY DEF Computes
<1>2. PICK m \in T : \A k \in T : m <= k
  <2> HIDE DEF Defined
  <2> QED BY <1>1, LeastNumber
<1>3. CASE m = 0
  <2> DEFINE g == [n \in 0..0 |-> s]
  <2>1. g = [n \in 0..0 |-> After(g, t, s, ms, n)]
    BY DEF After
  <2> QED BY <1>2, <1>3, <2>1
<1>4. CASE m # 0
  <2>1. m - 1 \in Nat /\ m - 1 \notin T
    <3> HIDE DEF Defined
    <3> QED BY <1>2, <1>4
  <2>2. PICK g : g = [n \in 0..(m - 1) |-> After(g, t, s, ms, n)]
    BY <2>1
  <2> DEFINE h == [n \in 0..m |-> IF n = m THEN After(g, t, s, ms, m) ELSE g[n]]
  <2>3. ASSUME NEW n \in 0..m PROVE h[n] = After(h, t, s, ms, n)
    <3>1. CASE n = m
      <4>1. h[n - 1] = g[n - 1]
        BY <1>2, <1>4, <3>1
      <4>2. h[n] = After(g, t, s, ms, n)
        BY <3>1
      <4> HIDE DEF h
      <4> QED BY <4>1, <4>2 DEF After
    <3>2. CASE n # m
      <4>1. n \in 0..(m - 1) /\ h[n] = g[n] /\ (n # 0 => h[n - 1] = g[n - 1])
        BY <1>2, <3>2
      <4>2. g[n] = After(g, t, s, ms, n)
        BY <2>2, <4>1
      <4> HIDE DEF h
      <4> QED BY <4>1, <4>2 DEF After
    <3> QED BY <3>1, <3>2
  <2>4. h = [n \in 0..m |-> After(h, t, s, ms, n)]
    BY <2>3
  <2> QED BY <1>2, <2>4
<1> QED BY <1>3, <1>4

\* r is what becomes of s when the first n of ms are put into it.
Joined(t, s, ms, n, r) ==
  /\ Len(r) >= Len(s)
  /\ \A x \in Range(r) : x \in Range(s) \/ \E i \in 1..n : x = ms[i]
  /\ \A x \in Range(s) : x \in Range(r) \/ \E i \in 1..n : Same(x, ms[i])
  /\ \A i \in 1..n :
       ms[i] \in Range(r) \/ (Full(t, r) /\ \A x \in Range(r) : ~Same(x, ms[i]))
  /\ Unique(Range(s)) => Unique(Range(r))

LEMMA JoinedStep ==
  ASSUME NEW S, NEW s \in Seq(S), NEW ms \in Seq(S), Unique(Range(ms)), NEW t,
         NEW n \in 1..Len(ms), NEW r \in Seq(S), Joined(t, s, ms, n - 1, r),
         NEW q, q = Step(t, r, ms[n])
  PROVE  q \in Seq(S) /\ Joined(t, s, ms, n, q)
<1> DEFINE m == ms[n]
<1>1. /\ Len(ms) \in Nat /\ Len(s) \in Nat /\ Len(r) \in Nat
      /\ \A x : x \in Range(ms) <=> \E i \in 1..Len(ms) : ms[i] = x
      /\ m \in S
  BY LenProperties, ElementOfSeq, RangeElements
<1>2. \A i : i \in 1..n <=> i \in 1..(n - 1) \/ i = n
  OBVIOUS
<1>3. /\ q \in Seq(S) /\ Len(q) \in Nat /\ Len(q) >= Len(r)
      /\ \/ /\ Full(t, r) /\ q = r
            /\ \A x \in Range(r) : ~Same(x, m)
         \/ \A x : x \in Range(q) <=> x = m \/ (x \in Range(r) /\ ~Same(x, m))
  BY <1>1, StepProperties, LenProperties
<1>4. \A i \in 1..(n - 1) : Same(ms[i], m) => ms[i] = m
  <2>1. m \in Range(ms) /\ \A i \in 1..(n - 1) : ms[i] \in Range(ms)
    BY <1>1
  <2> HIDE DEF m
  <2> QED BY <2>1 DEF Unique
<1> HIDE DEF m
<1>5. /\ Len(r) >= Len(s)
      /\ \A x \in Range(r) : x \in Range(s) \/ \E i \in 1..(n - 1) : x = ms[i]
      /\ \A x \in Range(s) : x \in Range(r) \/ \E i \in 1..(n - 1) : Same(x, ms[i])
      /\ \A i \in 1..(n - 1) :
           ms[i] \in Range(r) \/ (Full(t, r) /\ \A x \in Range(r) : ~Same(x, ms[i]))
      /\ Unique(Range(s)) => Unique(Range(r))
  BY DEF Joined
<1>6. Len(q) >= Len(s)
  BY <1>1, <1>3, <1>5
<1>7. \A x \in Range(q) : x \in Range(s) \/ \E i \in 1..n : x = ms[i]
  BY <1>2, <1>3, <1>5 DEF m
<1>8. \A x \in Range(s) : x \in Range(q) \/ \E i \in 1..n : Same(x, ms[i])
  BY <1>2, <1>3, <1>5 DEF m
<1>9. Full(t, r) => Full(t, q)
  <2>1. MarkerCap \in Nat
    BY ClientAssumption
  <2> QED BY <1>1, <1>3, <2>1 DEF Full
<1>10. m \in Range(q) \/ (Full(t, q) /\ \A x \in Range(q) : ~Same(x, m))
  BY <1>3, <1>9
<1>11. ASSUME NEW i \in 1..(n - 1)
       PROVE  ms[i] \in Range(q) \/ (Full(t, q) /\ \A x \in Range(q) : ~Same(x, ms[i]))
  <2>1. CASE Same(ms[i], m)
    BY <1>4, <1>10, <2>1
  <2>2. CASE ~Same(ms[i], m)
    <3>1. CASE ms[i] \in Range(r)
      BY <1>3, <2>2, <3>1
    <3>2. CASE Full(t, r) /\ \A x \in Range(r) : ~Same(x, ms[i])
      <4>1. ~Same(m, ms[i])
        BY <2>2 DEF Same
      <4>2. \A x \in Range(q) : x = m \/ x \in Range(r)
        BY <1>3
      <4> QED BY <1>9, <3>2, <4>1, <4>2
    <3> QED BY <1>5, <3>1, <3>2
  <2> QED BY <2>1, <2>2
<1>12. ASSUME Unique(Range(r)) PROVE Unique(Range(q))
  <2> SUFFICES ASSUME NEW x \in Range(q), NEW y \in Range(q), Same(x, y) PROVE x = y
    BY DEF Unique
  <2>1. Same(y, x)
    BY DEF Same
  <2> QED BY <1>3, <1>12, <2>1 DEF Unique
<1>13. \A i \in 1..n : ms[i] \in Range(q) \/ (Full(t, q) /\ \A x \in Range(q) : ~Same(x, ms[i]))
  BY <1>2, <1>10, <1>11 DEF m
<1> QED BY <1>3, <1>5, <1>6, <1>7, <1>8, <1>12, <1>13 DEF Joined

LEMMA RecursionJoins ==
  ASSUME NEW S, NEW s \in Seq(S), NEW ms \in Seq(S), Unique(Range(ms)), NEW t,
         NEW h, Computes(h, t, s, ms, Len(ms))
  PROVE  h[Len(ms)] \in Seq(S) /\ Joined(t, s, ms, Len(ms), h[Len(ms)])
<1> DEFINE Good(n) == h[n] \in Seq(S) /\ Joined(t, s, ms, n, h[n])
           T == {n \in 0..Len(ms) : ~Good(n)}
<1>1. SUFFICES ASSUME T # {} PROVE FALSE
  BY LenProperties
<1>2. Len(ms) \in Nat /\ \A n \in 0..Len(ms) : h[n] = After(h, t, s, ms, n)
  BY LenProperties DEF Computes
<1>3. PICK n \in T : \A k \in T : n <= k
  <2> HIDE DEF Good
  <2>1. T \in SUBSET Nat
    BY <1>2
  <2> QED BY <1>1, <2>1, LeastNumber
<1>4. CASE n = 0
  <2>1. h[0] = s
    BY <1>2, <1>4 DEF After
  <2>2. Joined(t, s, ms, 0, s)
    <3>1. Len(s) >= Len(s)
      BY LenProperties
    <3> QED BY <3>1 DEF Joined
  <2> QED BY <1>3, <1>4, <2>1, <2>2
<1>5. CASE n # 0
  <2>1. n \in 1..Len(ms) /\ n - 1 \in 0..Len(ms) /\ Good(n - 1)
    <3> HIDE DEF Good
    <3> QED BY <1>2, <1>3, <1>5
  <2>2. h[n] = Step(t, h[n - 1], ms[n])
    BY <1>2, <1>5, <2>1 DEF After
  <2>3. h[n] \in Seq(S) /\ Joined(t, s, ms, n, h[n])
    BY <2>1, <2>2, JoinedStep
  <2> QED BY <1>3, <2>3
<1> QED BY <1>4, <1>5

\* What a flush makes of the markers and of the log.
LEMMA FlushJoins ==
  ASSUME NEW S, NEW s \in Seq(S), NEW ms \in Seq(S), Unique(Range(ms))
  PROVE  /\ PutMarkers(s, ms) \in Seq(S) /\ Joined("clean", s, ms, Len(ms), PutMarkers(s, ms))
         /\ PutAll(s, ms) \in Seq(S) /\ Joined("alert", s, ms, Len(ms), PutAll(s, ms))
<1> DEFINE f(t) == CHOOSE h : Computes(h, t, s, ms, Len(ms))
<1>1. Len(ms) \in Nat
  BY LenProperties
<1>2. ASSUME NEW t PROVE f(t)[Len(ms)] \in Seq(S) /\ Joined(t, s, ms, Len(ms), f(t)[Len(ms)])
  <2>1. \E h : Computes(h, t, s, ms, Len(ms))
    BY <1>1, RecursionDefined
  <2>2. Computes(f(t), t, s, ms, Len(ms))
    BY <2>1
  <2> HIDE DEF f
  <2> QED BY <2>2, RecursionJoins
<1>3. PutMarkers(s, ms) = f("clean")[Len(ms)]
  <2> DEFINE F(g) == [n \in 0..Len(ms) |-> IF n = 0 THEN s ELSE PutMarker(g[n - 1], ms[n])]
  <2>1. \A g : Computes(g, "clean", s, ms, Len(ms)) <=> g = F(g)
    BY DEF Computes, After, Step
  <2>2. (CHOOSE g : g = F(g)) = f("clean")
    <3> HIDE DEF F
    <3> QED BY <2>1
  <2> QED BY <2>2 DEF PutMarkers
<1>4. PutAll(s, ms) = f("alert")[Len(ms)]
  <2> DEFINE F(g) == [n \in 0..Len(ms) |-> IF n = 0 THEN s ELSE Put(g[n - 1], ms[n])]
  <2>1. \A g : Computes(g, "alert", s, ms, Len(ms)) <=> g = F(g)
    BY DEF Computes, After, Step
  <2>2. (CHOOSE g : g = F(g)) = f("alert")
    <3> HIDE DEF F
    <3> QED BY <2>1
  <2> QED BY <2>2 DEF PutAll
<1> HIDE DEF f
<1> QED BY <1>2, <1>3, <1>4
LEMMA SliceProperties ==
  ASSUME NEW S, NEW s \in Seq(S), NEW n \in Nat
  PROVE  /\ Slice(s, n) \in Seq(S) /\ Range(Slice(s, n)) \subseteq Range(s)
         /\ Len(s) > n => Len(Slice(s, n)) = n
         /\ ~(Len(s) > n) => Slice(s, n) = s
<1> DEFINE N == Len(s)
           first == IF N > n THEN N - n + 1 ELSE 1
           t == SubSeq(s, first, N)
<1>1. N \in Nat /\ \A i \in 1..N : s[i] \in S
  BY LenProperties, ElementOfSeq
<1>2. Slice(s, n) = t
  BY DEF Slice
<1> HIDE DEF N
<1>3. first \in 1..N + 1 /\ (N > n => N - first + 1 = n) /\ (~(N > n) => first = 1)
  BY <1>1
<1> HIDE DEF first
<1>4. \A i \in first..N : s[i] \in S
  BY <1>1, <1>3
<1>5. /\ t \in Seq(S) /\ Len(t) = IF first <= N THEN N - first + 1 ELSE 0
      /\ \A i \in 1..N - first + 1 : t[i] = s[first + i - 1]
  BY <1>1, <1>3, <1>4, SubSeqProperties
<1> HIDE DEF t
<1>6. Len(t) = N - first + 1
  BY <1>1, <1>3, <1>5
<1>7. Range(t) \subseteq Range(s)
  <2>1. \A x : x \in Range(s) <=> \E i \in 1..N : s[i] = x
    BY RangeElements DEF N
  <2>2. \A x : x \in Range(t) <=> \E i \in 1..N - first + 1 : t[i] = x
    BY <1>5, <1>6, RangeElements
  <2>3. \A i \in 1..N - first + 1 : first + i - 1 \in 1..N
    BY <1>1, <1>3
  <2> QED BY <1>5, <2>1, <2>2, <2>3
<1>8. ASSUME ~(N > n) PROVE t = s
  <2>1. Len(t) = Len(s) /\ \A i \in 1..Len(t) : t[i] = s[i]
    <3>1. first = 1 /\ N - first + 1 = N /\ \A i \in 1..N : first + i - 1 = i
      BY <1>1, <1>3, <1>8
    <3>2. Len(t) = N
      BY <1>6, <3>1
    <3> QED BY <1>5, <3>1, <3>2 DEF N
  <2> QED BY <1>5, <2>1, SeqEqual
<1>9. N > n => Len(t) = n
  BY <1>3, <1>6
<1> QED BY <1>2, <1>5, <1>7, <1>8, <1>9 DEF N

-----------------------------------------------------------------------------
(* From the wire to the map *)

Types == {"clean", "alert"}
Message ==
  [type : Types, key : {m.key : m \in Messages}, place : Int, time : Int, zoned : BOOLEAN, id : Nat]
Batch == [markers : Seq(Message), log : Seq(Message)]

TypedDisplay ==
  /\ events \in Nat
  /\ ring \in Seq(Message) /\ wire \in Seq(Message)
  /\ buffer \in Batch /\ updates \in Seq(Batch)
  /\ markers \in Seq(Message) /\ log \in Seq(Message) /\ received \in Seq(Message)

\* Of a batch the messages that take the way of a type.
Part(b, t) == IF t = "clean" THEN Range(b.markers) ELSE Range(b.log)

Distinct(b) == \A t \in Types : Unique(Part(b, t))

Batches ==
  /\ Distinct(buffer) /\ \A i \in 1..Len(updates) : Distinct(updates[i])
  /\ Unique(Range(log))

\* m is on its way behind the i-th of the updates us.
Behind(m, i, us, b) ==
  \/ m \in Part(b, m.type)
  \/ \E j \in 1..Len(us) : j > i /\ m \in Part(us[j], m.type)

Arrives(m, s, cap) ==
  m \in Range(s) \/ (Len(s) >= cap /\ \A x \in Range(s) : ~Same(x, m))

Shown(t, s, l) == IF t = "clean" THEN s ELSE l
Cap(t) == IF t = "clean" THEN MarkerCap ELSE LogCap

\* What was received last overtakes nothing of its key and is not overtaken.
Newest(m, b, us, s, l) ==
  /\ \A x \in Part(b, m.type) : Same(x, m) => x = m
  /\ \A i \in 1..Len(us) : \A x \in Part(us[i], m.type) : Same(x, m) => x = m \/ Behind(m, i, us, b)
  /\ Behind(m, 0, us, b) \/ Arrives(m, Shown(m.type, s, l), Cap(m.type))

Arriving == \A m \in Range(received) : Newest(m, buffer, updates, markers, log)

LEMMA MessageTypes ==
  ASSUME NEW s \in Seq(Message), NEW x \in Range(s)
  PROVE  x \in Message /\ x.type \in Types
<1>1. x \in Message
  BY RangeElements
<1> QED BY <1>1 DEF Message

LEMMA ReceiveEffect ==
  ASSUME TypedDisplay, Receive
  PROVE  \E m \in Message :
           /\ wire' \in Seq(Message) /\ buffer' \in Batch /\ received' \in Seq(Message)
           /\ \A t \in Types : \A x : x \in Part(buffer', t) <=>
                \/ t = m.type /\ x = m
                \/ x \in Part(buffer, t) /\ ~(t = m.type /\ Same(x, m))
           /\ \A x : x \in Range(received') <=> x = m \/ (x \in Range(received) /\ ~Same(x, m))
           /\ UNCHANGED <<ring, updates, markers, log, events>>
<1> DEFINE m == Head(wire)
<1>1. m \in Message /\ wire' \in Seq(Message)
  BY HeadTailProperties DEF TypedDisplay, Receive
<1>2. /\ buffer' = IF m.type = "clean" THEN [buffer EXCEPT !.markers = Put(@, m)]
                   ELSE [buffer EXCEPT !.log = Put(@, m)]
      /\ received' = Put(received, m)
      /\ UNCHANGED <<ring, updates, markers, log, events>>
  BY DEF Receive
<1> HIDE DEF m
<1>3. m.type \in Types
  BY <1>1 DEF Message
<1>4. /\ received' \in Seq(Message)
      /\ \A x : x \in Range(received') <=> x = m \/ (x \in Range(received) /\ ~Same(x, m))
  BY <1>1, <1>2, PutProperties DEF TypedDisplay
<1>5. buffer.markers \in Seq(Message) /\ buffer.log \in Seq(Message)
  BY DEF TypedDisplay, Batch
<1>6. CASE m.type = "clean"
  <2>1. buffer'.markers = Put(buffer.markers, m) /\ buffer'.log = buffer.log
    BY <1>2, <1>6 DEF TypedDisplay, Batch
  <2>2. /\ Put(buffer.markers, m) \in Seq(Message)
        /\ \A x : x \in Range(Put(buffer.markers, m)) <=>
                    x = m \/ (x \in Range(buffer.markers) /\ ~Same(x, m))
    BY <1>1, <1>5, PutProperties
  <2>3. buffer' \in Batch
    BY <1>2, <1>6, <2>2 DEF TypedDisplay, Batch
  <2>4. \A t \in Types : \A x : x \in Part(buffer', t) <=>
          \/ t = m.type /\ x = m
          \/ x \in Part(buffer, t) /\ ~(t = m.type /\ Same(x, m))
    BY <1>6, <2>1, <2>2 DEF Part, Types
  <2> QED BY <1>1, <1>2, <1>4, <2>3, <2>4
<1>7. CASE m.type = "alert"
  <2>1. buffer'.log = Put(buffer.log, m) /\ buffer'.markers = buffer.markers
    BY <1>2, <1>7 DEF TypedDisplay, Batch
  <2>2. /\ Put(buffer.log, m) \in Seq(Message)
        /\ \A x : x \in Range(Put(buffer.log, m)) <=>
                    x = m \/ (x \in Range(buffer.log) /\ ~Same(x, m))
    BY <1>1, <1>5, PutProperties
  <2>3. buffer' \in Batch
    BY <1>2, <1>7, <2>2 DEF TypedDisplay, Batch
  <2>4. \A t \in Types : \A x : x \in Part(buffer', t) <=>
          \/ t = m.type /\ x = m
          \/ x \in Part(buffer, t) /\ ~(t = m.type /\ Same(x, m))
    BY <1>7, <2>1, <2>2 DEF Part, Types
  <2> QED BY <1>1, <1>2, <1>4, <2>3, <2>4
<1> QED BY <1>3, <1>6, <1>7 DEF Types

LEMMA FlushEffect ==
  ASSUME TypedDisplay, Flush
  PROVE  /\ buffer' \in Batch /\ \A t \in Types : Part(buffer', t) = {}
         /\ updates' \in Seq(Batch) /\ Len(updates) \in Nat /\ Len(updates') = Len(updates) + 1
         /\ \A i \in 1..Len(updates) : updates'[i] = updates[i]
         /\ updates'[Len(updates) + 1] = buffer
         /\ UNCHANGED <<ring, wire, markers, log, received, events>>
<1>1. /\ updates' = Append(updates, buffer) /\ buffer' = Nothing
      /\ UNCHANGED <<ring, wire, markers, log, received, events>>
  BY DEF Flush, connection
<1>2. buffer \in Batch /\ updates \in Seq(Batch)
  BY DEF TypedDisplay
<1>3. Range(<<>>) = {} /\ <<>> \in Seq(Message)
  <2>1. <<>> \in Seq({}) /\ <<>> \in Seq(Message)
    BY EmptySeq
  <2>2. Range(<<>>) \in SUBSET {}
    BY <2>1, RangeOfSeq
  <2> QED BY <2>1, <2>2
<1>4. Nothing \in Batch /\ \A t \in Types : Part(Nothing, t) = {}
  BY <1>3 DEF Nothing, Batch, Part
<1>5. /\ Append(updates, buffer) \in Seq(Batch) /\ Len(updates) \in Nat
      /\ Len(Append(updates, buffer)) = Len(updates) + 1
      /\ \A i \in 1..Len(updates) : Append(updates, buffer)[i] = updates[i]
      /\ Append(updates, buffer)[Len(updates) + 1] = buffer
  BY <1>2, LenProperties, AppendProperties
<1> QED BY <1>1, <1>4, <1>5

\* What the next update does to the map and the log.
Shows(t, s, P, r) ==
  /\ Len(s) >= Cap(t) => Len(r) >= Cap(t)
  /\ \A x \in Range(r) : x \in Range(s) \/ x \in P
  /\ \A x \in P : Arrives(x, r, Cap(t))
  /\ \A x \in Range(s) : (\A y \in P : ~Same(x, y)) => Arrives(x, r, Cap(t))

LEMMA JoinedShows ==
  ASSUME NEW S, NEW s \in Seq(S), NEW ms \in Seq(S), NEW t, NEW r \in Seq(S),
         Joined(t, s, ms, Len(ms), r)
  PROVE  /\ Len(s) \in Nat /\ Len(r) \in Nat /\ Len(r) >= Len(s)
         /\ \A x \in Range(r) : x \in Range(s) \/ x \in Range(ms)
         /\ \A x \in Range(s) : (\A y \in Range(ms) : ~Same(x, y)) => x \in Range(r)
         /\ \A x \in Range(ms) : x \in Range(r) \/ (Full(t, r) /\ \A y \in Range(r) : ~Same(y, x))
         /\ Unique(Range(s)) => Unique(Range(r))
<1>1. Len(s) \in Nat /\ Len(r) \in Nat /\ \A x : x \in Range(ms) <=> \E i \in 1..Len(ms) : ms[i] = x
  BY LenProperties, RangeElements
<1> QED BY <1>1 DEF Joined

LEMMA RenderEffect ==
  ASSUME TypedDisplay, Batches, Render
  PROVE  /\ markers' \in Seq(Message) /\ log' \in Seq(Message) /\ Unique(Range(log'))
         /\ updates # <<>> /\ updates' \in Seq(Batch) /\ Len(updates) \in Nat \ {0}
         /\ Len(updates') = Len(updates) - 1
         /\ \A i \in 1..Len(updates') : updates'[i] = updates[i + 1]
         /\ \A t \in Types :
              Shows(t, Shown(t, markers, log), Part(updates[1], t), Shown(t, markers', log'))
         /\ UNCHANGED <<ring, wire, buffer, received, events>>
<1> DEFINE b == Head(updates)
           R == PutAll(log, b.log)
           q == PutMarkers(markers, b.markers)
<1>1. /\ updates # <<>> /\ updates \in Seq(Batch)
      /\ markers' = q /\ log' = Slice(R, LogCap) /\ updates' = Tail(updates)
      /\ UNCHANGED <<ring, wire, buffer, received, events>>
  BY DEF Render, connection, TypedDisplay
<1>2. /\ b \in Batch /\ b = updates[1]
      /\ updates' \in Seq(Batch) /\ Len(updates) \in Nat \ {0} /\ Len(updates') = Len(updates) - 1
      /\ \A i \in 1..Len(updates') : updates'[i] = updates[i + 1]
  <2>1. Len(updates) \in Nat /\ Len(updates) # 0
    BY <1>1, EmptySeq, LenProperties
  <2>2. /\ Head(updates) \in Batch /\ Head(updates) = updates[1]
        /\ Tail(updates) \in Seq(Batch) /\ Len(Tail(updates)) = Len(updates) - 1
        /\ \A i \in 1..Len(Tail(updates)) : Tail(updates)[i] = updates[i + 1]
    BY <1>1, HeadTailProperties
  <2> QED BY <1>1, <2>1, <2>2
<1>3. Distinct(b) /\ Unique(Range(log)) /\ b.markers \in Seq(Message) /\ b.log \in Seq(Message)
  BY <1>2 DEF Batches, Batch
<1> HIDE DEF b
<1>4. Unique(Range(b.markers)) /\ Unique(Range(b.log))
  BY <1>3 DEF Distinct, Part, Types
<1>5. log \in Seq(Message) /\ markers \in Seq(Message) /\ LogCap \in Nat /\ MarkerCap \in Nat
  BY ClientAssumption DEF TypedDisplay
<1>6. /\ q \in Seq(Message) /\ Joined("clean", markers, b.markers, Len(b.markers), q)
  BY <1>3, <1>4, <1>5, FlushJoins
<1>7. /\ R \in Seq(Message) /\ Joined("alert", log, b.log, Len(b.log), R)
  BY <1>3, <1>4, <1>5, FlushJoins
<1> HIDE DEF q, R
<1>8. Shows("clean", markers, Range(b.markers), q)
  <2>1. /\ Len(markers) \in Nat /\ Len(q) \in Nat /\ Len(q) >= Len(markers)
        /\ \A x \in Range(q) : x \in Range(markers) \/ x \in Range(b.markers)
        /\ \A x \in Range(markers) : (\A y \in Range(b.markers) : ~Same(x, y)) => x \in Range(q)
        /\ \A x \in Range(b.markers) :
             x \in Range(q) \/ (Full("clean", q) /\ \A y \in Range(q) : ~Same(y, x))
    BY <1>3, <1>5, <1>6, JoinedShows
  <2>2. Len(markers) >= MarkerCap => Len(q) >= MarkerCap
    BY <1>5, <2>1
  <2> QED BY <2>1, <2>2 DEF Shows, Arrives, Cap, Full
<1> DEFINE l == Slice(R, LogCap)
<1>9. Shows("alert", log, Range(b.log), l) /\ l \in Seq(Message) /\ Unique(Range(l))
  <2>1. /\ Len(log) \in Nat /\ Len(R) \in Nat /\ Len(R) >= Len(log)
        /\ \A x \in Range(R) : x \in Range(log) \/ x \in Range(b.log)
        /\ \A x \in Range(log) : (\A y \in Range(b.log) : ~Same(x, y)) => x \in Range(R)
        /\ \A x \in Range(b.log) : x \in Range(R) \/ Full("alert", R)
        /\ Unique(Range(R))
    BY <1>3, <1>5, <1>7, JoinedShows
  <2>2. ~Full("alert", R)
    BY DEF Full
  <2>3. /\ l \in Seq(Message) /\ Range(l) \subseteq Range(R)
        /\ Len(R) > LogCap => Len(l) = LogCap
        /\ ~(Len(R) > LogCap) => l = R
    BY <1>5, <1>7, SliceProperties
  <2> HIDE DEF l
  <2>4. Unique(Range(l))
    BY <2>1, <2>3 DEF Unique
  <2>5. ASSUME NEW x \in Range(R) PROVE Arrives(x, l, LogCap)
    <3>1. CASE x \in Range(l)
      BY <3>1 DEF Arrives
    <3>2. CASE x \notin Range(l)
      <4>1. Len(l) >= LogCap
        BY <1>5, <2>3, <3>2
      <4>2. \A y \in Range(l) : ~Same(y, x)
        BY <2>1, <2>3, <3>2 DEF Unique
      <4> QED BY <4>1, <4>2 DEF Arrives
    <3> QED BY <3>1, <3>2
  <2>6. Len(log) >= LogCap => Len(l) >= LogCap
    BY <1>5, <2>1, <2>3
  <2>7. Cap("alert") = LogCap
    BY DEF Cap
  <2> QED BY <2>1, <2>2, <2>3, <2>4, <2>5, <2>6, <2>7 DEF Shows
<1> HIDE DEF l
<1>10. ASSUME NEW t \in Types
       PROVE  Shows(t, Shown(t, markers, log), Part(b, t), Shown(t, q, l))
  BY <1>8, <1>9 DEF Shown, Part, Types
<1> QED BY <1>1, <1>2, <1>6, <1>9, <1>10 DEF l
\* The steps that leave the way of the messages alone but for the wire.
LEMMA OtherEffect ==
  ASSUME TypedDisplay,
         \/ BackendStep \/ Open \/ Close \/ Reconnect \/ SendView \/ InstallFilter \/ UNCHANGED vars
         \/ \E v \in Views : ChangeView(v)
         \/ \E message \in Messages : Publish(message)
  PROVE  /\ UNCHANGED <<buffer, updates, markers, log, received>>
         /\ events' \in Nat /\ ring' \in Seq(Message) /\ wire' \in Seq(Message)
<1>1. <<>> \in Seq(Message) /\ ring \in Seq(Message) /\ wire \in Seq(Message) /\ events \in Nat
  BY EmptySeq DEF TypedDisplay
<1>2. CASE BackendStep
  <2>1. wire' = wire \/ wire' = <<>>
    BY <1>2 DEF BackendStep, Closed, connection
  <2>2. ring' = ring \/ ring' = <<>>
    BY <1>2 DEF BackendStep
  <2>3. UNCHANGED <<buffer, updates, markers, log, received, events>>
    BY <1>2 DEF BackendStep, display
  <2> QED BY <1>1, <2>1, <2>2, <2>3
<1>3. CASE Open \/ Close \/ Reconnect \/ SendView \/ InstallFilter \/ UNCHANGED vars
  <2>1. UNCHANGED <<buffer, updates, markers, log, received, events, ring>>
    BY <1>3 DEF Open, Close, Reconnect, SendView, InstallFilter, vars, display
  <2>2. wire' \in {wire, ring, <<>>}
    BY <1>3 DEF Open, Close, Closed, Reconnect, SendView, InstallFilter, vars, connection
  <2> QED BY <1>1, <2>1, <2>2
<1>4. ASSUME NEW v \in Views, ChangeView(v)
      PROVE  UNCHANGED <<buffer, updates, markers, log, received, events, ring, wire>>
  BY <1>4 DEF ChangeView, display, connection
<1>5. ASSUME NEW message \in Messages, Publish(message)
      PROVE  /\ UNCHANGED <<buffer, updates, markers, log, received>>
             /\ events' \in Nat /\ ring' \in Seq(Message) /\ wire' \in Seq(Message)
  <2> DEFINE m == [type |-> message.type, key |-> message.key, place |-> message.place,
                   time |-> message.time, zoned |-> message.zoned, id |-> events + 1]
  <2>1. m \in Message
    BY <1>1, ClientAssumption DEF Message, Types
  <2>2. /\ events' = events + 1
        /\ ring' = IF m.type = "clean" THEN Slice(Append(ring, m), RingSize) ELSE ring
        /\ wire' = wire \/ wire' = Append(wire, m)
        /\ UNCHANGED <<buffer, updates, markers, log, received>>
    BY <1>5 DEF Publish, display
  <2> HIDE DEF m
  <2>3. Append(wire, m) \in Seq(Message) /\ Append(ring, m) \in Seq(Message)
    BY <1>1, <2>1, AppendProperties
  <2>4. RingSize \in Nat
    BY ClientAssumption
  <2>5. Slice(Append(ring, m), RingSize) \in Seq(Message)
    BY <2>3, <2>4, SliceProperties
  <2> QED BY <1>1, <2>2, <2>3, <2>5
<1> QED BY <1>1, <1>2, <1>3, <1>4, <1>5

LEMMA InitDisplay == Init => TypedDisplay /\ Batches /\ Arriving
<1> SUFFICES ASSUME Init PROVE TypedDisplay /\ Batches /\ Arriving
  OBVIOUS
<1>1. /\ wire = <<>> /\ ring = <<>> /\ buffer = Nothing /\ updates = <<>> /\ markers = <<>>
      /\ log = <<>> /\ received = <<>> /\ events = 0
  BY DEF Init
<1>2. <<>> \in Seq({}) /\ <<>> \in Seq(Message) /\ <<>> \in Seq(Batch) /\ Len(<<>>) = 0
  BY EmptySeq
<1>3. Range(<<>>) = {}
  <2>1. Range(<<>>) \in SUBSET {}
    BY <1>2, RangeOfSeq
  <2> QED BY <2>1
<1>4. Nothing \in Batch /\ \A t \in Types : Part(Nothing, t) = {}
  BY <1>2, <1>3 DEF Nothing, Batch, Part
<1>5. TypedDisplay
  BY <1>1, <1>2, <1>4 DEF TypedDisplay
<1>6. Batches
  BY <1>1, <1>2, <1>3, <1>4 DEF Batches, Distinct, Unique
<1> QED BY <1>1, <1>3, <1>5, <1>6 DEF Arriving

LEMMA NextTyped == TypedDisplay /\ Batches /\ [Next]_vars => TypedDisplay'
<1> SUFFICES ASSUME TypedDisplay, Batches, [Next]_vars PROVE TypedDisplay'
  OBVIOUS
<1>1. CASE Receive
  BY <1>1, ReceiveEffect DEF TypedDisplay
<1>2. CASE Flush
  BY <1>2, FlushEffect DEF TypedDisplay
<1>3. CASE Render
  BY <1>3, RenderEffect DEF TypedDisplay
<1>4. CASE \/ BackendStep \/ Open \/ Close \/ Reconnect \/ SendView \/ InstallFilter \/ UNCHANGED vars
           \/ \E v \in Views : ChangeView(v)
           \/ \E message \in Messages : Publish(message)
  BY <1>4, OtherEffect DEF TypedDisplay
<1> QED BY <1>1, <1>2, <1>3, <1>4 DEF Next

\* A batch has one message of each key, and so has the log.
LEMMA NextBatches == TypedDisplay /\ Batches /\ [Next]_vars => Batches'
<1> SUFFICES ASSUME TypedDisplay, Batches, [Next]_vars PROVE Batches'
  OBVIOUS
<1>1. SUFFICES /\ Distinct(buffer') /\ \A i \in 1..Len(updates') : Distinct(updates'[i])
               /\ Unique(Range(log'))
  BY DEF Batches, Distinct, Unique, Part, Range
<1>2. /\ Distinct(buffer) /\ \A i \in 1..Len(updates) : Distinct(updates[i])
      /\ Unique(Range(log))
  BY DEF Batches
<1>3. CASE Receive
  <2>1. PICK m \in Message :
          /\ \A t \in Types : \A x : x \in Part(buffer', t) <=>
                \/ t = m.type /\ x = m
                \/ x \in Part(buffer, t) /\ ~(t = m.type /\ Same(x, m))
          /\ UNCHANGED <<updates, log>>
    BY <1>3, ReceiveEffect
  <2>2. ASSUME NEW t \in Types PROVE Unique(Part(buffer', t))
    <3> SUFFICES ASSUME NEW x \in Part(buffer', t), NEW y \in Part(buffer', t), Same(x, y) PROVE x = y
      BY DEF Unique
    <3>1. Same(y, x)
      BY DEF Same
    <3>2. Unique(Part(buffer, t))
      BY <1>2 DEF Distinct
    <3> QED BY <2>1, <3>1, <3>2 DEF Unique
  <2> QED BY <1>2, <2>1, <2>2 DEF Distinct
<1>4. CASE Flush
  <2>1. /\ \A t \in Types : Part(buffer', t) = {}
        /\ Len(updates) \in Nat /\ Len(updates') = Len(updates) + 1
        /\ \A i \in 1..Len(updates) : updates'[i] = updates[i]
        /\ updates'[Len(updates) + 1] = buffer
        /\ log' = log
    BY <1>4, FlushEffect
  <2>2. \A i \in 1..Len(updates') : i \in 1..Len(updates) \/ i = Len(updates) + 1
    BY <2>1
  <2>3. \A i \in 1..Len(updates') : Distinct(updates'[i])
    BY <1>2, <2>1, <2>2
  <2> QED BY <1>2, <2>1, <2>3 DEF Distinct, Unique
<1>5. CASE Render
  <2>1. /\ Unique(Range(log')) /\ buffer' = buffer /\ Len(updates) \in Nat
        /\ Len(updates') = Len(updates) - 1
        /\ \A i \in 1..Len(updates') : updates'[i] = updates[i + 1]
    BY <1>5, RenderEffect
  <2>2. \A i \in 1..Len(updates') : i + 1 \in 1..Len(updates)
    BY <2>1
  <2> QED BY <1>2, <2>1, <2>2
<1>6. CASE \/ BackendStep \/ Open \/ Close \/ Reconnect \/ SendView \/ InstallFilter \/ UNCHANGED vars
           \/ \E v \in Views : ChangeView(v)
           \/ \E message \in Messages : Publish(message)
  <2>1. UNCHANGED <<buffer, updates, log>>
    BY <1>6, OtherEffect
  <2> QED BY <1>2, <2>1
<1> QED BY <1>3, <1>4, <1>5, <1>6 DEF Next

LEMMA NextArriving == TypedDisplay /\ Batches /\ Arriving /\ [Next]_vars => Arriving'
<1> SUFFICES ASSUME TypedDisplay, Batches, Arriving, [Next]_vars PROVE Arriving'
  OBVIOUS
<1>1. SUFFICES ASSUME NEW m \in Range(received')
               PROVE  Newest(m, buffer', updates', markers', log')
  BY DEF Arriving, Newest, Behind, Arrives, Shown, Cap, Part, Range
<1>2. \A x \in Range(received) :
        /\ x.type \in Types
        /\ Newest(x, buffer, updates, markers, log)
  BY MessageTypes DEF Arriving, TypedDisplay
<1> DEFINE n == Len(updates)
<1>3. CASE Receive
  <2>1. PICK e \in Message :
           /\ \A t \in Types : \A x : x \in Part(buffer', t) <=>
                \/ t = e.type /\ x = e
                \/ x \in Part(buffer, t) /\ ~(t = e.type /\ Same(x, e))
           /\ \A x : x \in Range(received') <=> x = e \/ (x \in Range(received) /\ ~Same(x, e))
           /\ UNCHANGED <<updates, markers, log>>
    BY <1>3, ReceiveEffect
  <2>2. CASE m = e
    <3>1. e.type \in Types
      BY DEF Message
    <3>2. m \in Part(buffer', m.type) /\ \A x \in Part(buffer', m.type) : Same(x, m) => x = m
      BY <2>1, <2>2, <3>1
    <3> QED BY <3>2 DEF Newest, Behind
  <2>3. CASE m \in Range(received) /\ ~Same(m, e)
    <3>1. /\ m.type \in Types
          /\ \A x \in Part(buffer, m.type) : Same(x, m) => x = m
          /\ \A i \in 1..Len(updates) : \A x \in Part(updates[i], m.type) :
               Same(x, m) => x = m \/ Behind(m, i, updates, buffer)
          /\ \/ Behind(m, 0, updates, buffer)
             \/ Arrives(m, Shown(m.type, markers, log), Cap(m.type))
      BY <1>2, <2>3 DEF Newest
    <3>2. ~Same(e, m)
      BY <2>3 DEF Same
    <3>3. \A x \in Part(buffer', m.type) : Same(x, m) => x = m
      BY <2>1, <3>1, <3>2
    <3>4. m \in Part(buffer, m.type) => m \in Part(buffer', m.type)
      BY <2>1, <2>3, <3>1
    <3>5. \A i : Behind(m, i, updates, buffer) => Behind(m, i, updates, buffer')
      BY <3>4 DEF Behind
    <3> QED BY <2>1, <3>1, <3>3, <3>5 DEF Newest
  <2> QED BY <2>1, <2>2, <2>3
<1>4. CASE Flush
  <2>1. /\ \A t \in Types : Part(buffer', t) = {}
        /\ n \in Nat /\ Len(updates') = n + 1
        /\ \A i \in 1..n : updates'[i] = updates[i]
        /\ updates'[n + 1] = buffer
        /\ UNCHANGED <<markers, log, received>>
    BY <1>4, FlushEffect
  <2>2. /\ m \in Range(received) /\ m.type \in Types
        /\ \A x \in Part(buffer, m.type) : Same(x, m) => x = m
        /\ \A i \in 1..n : \A x \in Part(updates[i], m.type) :
             Same(x, m) => x = m \/ Behind(m, i, updates, buffer)
        /\ \/ Behind(m, 0, updates, buffer)
           \/ Arrives(m, Shown(m.type, markers, log), Cap(m.type))
    BY <1>1, <1>2, <2>1 DEF Newest
  <2> HIDE DEF n
  <2>3. n + 1 \in 1..(n + 1) /\ \A i \in 1..n : i \in 1..(n + 1) /\ n + 1 > i
    BY <2>1
  <2>4. ASSUME NEW i \in 0..n, Behind(m, i, updates, buffer)
        PROVE  Behind(m, i, updates', buffer')
    <3>1. CASE m \in Part(buffer, m.type)
      <4>1. n + 1 \in 1..Len(updates') /\ n + 1 > i
        BY <2>1
      <4> QED BY <2>1, <3>1, <4>1 DEF Behind
    <3>2. CASE \E j \in 1..n : j > i /\ m \in Part(updates[j], m.type)
      <4>1. PICK j \in 1..n : j > i /\ m \in Part(updates[j], m.type)
        BY <3>2
      <4>2. j \in 1..Len(updates') /\ updates'[j] = updates[j]
        BY <2>1, <2>3, <4>1
      <4> QED BY <4>1, <4>2 DEF Behind
    <3> QED BY <2>4, <3>1, <3>2 DEF Behind, n
  <2>5. ASSUME NEW i \in 1..Len(updates'), NEW x \in Part(updates'[i], m.type), Same(x, m)
        PROVE  x = m \/ Behind(m, i, updates', buffer')
    <3>1. CASE i = n + 1
      BY <2>1, <2>2, <2>5, <3>1
    <3>2. CASE i \in 1..n
      <4>1. x = m \/ Behind(m, i, updates, buffer)
        BY <2>1, <2>2, <2>5, <3>2
      <4>2. i \in 0..n
        BY <3>2
      <4> QED BY <2>4, <4>1, <4>2
    <3> QED BY <2>1, <3>1, <3>2
  <2>6. Behind(m, 0, updates, buffer) => Behind(m, 0, updates', buffer')
    <3>1. 0 \in 0..n
      BY <2>1
    <3> QED BY <2>4, <3>1
  <2> QED BY <2>1, <2>2, <2>5, <2>6 DEF Newest
<1>5. CASE Render
  <2>1. /\ updates # <<>> /\ n \in Nat \ {0} /\ Len(updates') = n - 1
        /\ \A i \in 1..Len(updates') : updates'[i] = updates[i + 1]
        /\ \A t \in Types :
             Shows(t, Shown(t, markers, log), Part(updates[1], t), Shown(t, markers', log'))
        /\ UNCHANGED <<buffer, received>>
    BY <1>5, RenderEffect
  <2> DEFINE P == Part(updates[1], m.type)
             s == Shown(m.type, markers, log)
             r == Shown(m.type, markers', log')
  <2>2. /\ m \in Range(received) /\ m.type \in Types
        /\ \A x \in Part(buffer, m.type) : Same(x, m) => x = m
        /\ \A i \in 1..n : \A x \in Part(updates[i], m.type) :
             Same(x, m) => x = m \/ Behind(m, i, updates, buffer)
        /\ Behind(m, 0, updates, buffer) \/ Arrives(m, s, Cap(m.type))
    BY <1>1, <1>2, <2>1 DEF Newest
  <2>3. Shows(m.type, s, P, r)
    BY <2>1, <2>2
  <2> HIDE DEF n
  <2>4. ASSUME NEW i \in 1..n, Behind(m, i, updates, buffer)
        PROVE  Behind(m, i - 1, updates', buffer')
    <3>1. CASE m \in Part(buffer, m.type)
      BY <2>1, <3>1 DEF Behind
    <3>2. CASE \E j \in 1..n : j > i /\ m \in Part(updates[j], m.type)
      <4>1. PICK j \in 1..n : j > i /\ m \in Part(updates[j], m.type)
        BY <3>2
      <4> DEFINE k == j - 1
      <4>2. k \in 1..Len(updates') /\ k > i - 1 /\ k + 1 = j
        BY <2>1, <4>1
      <4> HIDE DEF k
      <4>3. updates'[k] = updates[j]
        BY <2>1, <4>2
      <4> QED BY <4>1, <4>2, <4>3 DEF Behind
    <3> QED BY <2>4, <3>1, <3>2 DEF Behind, n
  <2>5. ASSUME NEW i \in 1..Len(updates'), NEW x \in Part(updates'[i], m.type), Same(x, m)
        PROVE  x = m \/ Behind(m, i, updates', buffer')
    <3> DEFINE k == i + 1
    <3>1. k \in 1..n /\ k - 1 = i /\ updates'[i] = updates[k]
      BY <2>1
    <3> HIDE DEF k
    <3>2. x = m \/ Behind(m, k, updates, buffer)
      BY <2>2, <2>5, <3>1
    <3>3. Behind(m, k, updates, buffer) => Behind(m, i, updates', buffer')
      BY <2>4, <3>1
    <3> QED BY <3>2, <3>3
  <2>6. 1 \in 1..n /\ 1 - 1 = 0
    BY <2>1
  <2>7. Behind(m, 0, updates', buffer') \/ Arrives(m, r, Cap(m.type))
    <3>1. CASE Behind(m, 1, updates, buffer)
      BY <2>4, <2>6, <3>1
    <3>2. CASE ~Behind(m, 1, updates, buffer)
      <4>1. CASE m \in P
        BY <2>3, <4>1 DEF Shows
      <4>2. CASE m \notin P
        <5>1. \A y \in P : ~Same(y, m)
          BY <2>2, <2>6, <3>2, <4>2
        <5>2. ~Behind(m, 0, updates, buffer)
          <6>1. \A j \in 1..n : j > 1 \/ j = 1
            BY <2>1
          <6>2. m \notin Part(buffer, m.type)
            BY <3>2 DEF Behind
          <6>3. \A j \in 1..n : m \notin Part(updates[j], m.type)
            BY <3>2, <4>2, <6>1 DEF Behind, n
          <6> QED BY <6>2, <6>3 DEF Behind, n
        <5>3. Arrives(m, s, Cap(m.type))
          BY <2>2, <5>2
        <5> HIDE DEF s, r, P
        <5>4. CASE m \in Range(s)
          <6>1. \A y \in P : ~Same(m, y)
            BY <5>1 DEF Same
          <6> QED BY <2>3, <5>4, <6>1 DEF Shows
        <5>5. CASE Len(s) >= Cap(m.type) /\ \A x \in Range(s) : ~Same(x, m)
          BY <2>3, <5>1, <5>5 DEF Shows, Arrives
        <5> QED BY <5>3, <5>4, <5>5 DEF Arrives
      <4> QED BY <4>1, <4>2
    <3> QED BY <3>1, <3>2
  <2> QED BY <2>1, <2>2, <2>5, <2>7 DEF Newest
<1>6. CASE \/ BackendStep \/ Open \/ Close \/ Reconnect \/ SendView \/ InstallFilter \/ UNCHANGED vars
           \/ \E v \in Views : ChangeView(v)
           \/ \E message \in Messages : Publish(message)
  <2>1. UNCHANGED <<buffer, updates, markers, log, received>>
    BY <1>6, OtherEffect
  <2> QED BY <1>1, <1>2, <2>1
<1> QED BY <1>3, <1>4, <1>5, <1>6 DEF Next

\* What was received last for a key reaches the map or the log unless they are
\* full: a flush copies and clears the buffers, updates run in order, and a later
\* batch replaces what an earlier one has put there.
THEOREM LastReceivedArrives == Spec => []ReceivedReachesMap
<1>1. Init => TypedDisplay /\ Batches /\ Arriving
  BY InitDisplay
<1>2. TypedDisplay /\ Batches /\ Arriving /\ [Next]_vars => TypedDisplay' /\ Batches' /\ Arriving'
  BY NextTyped, NextBatches, NextArriving
<1>3. TypedDisplay /\ Arriving => ReceivedReachesMap
  <2> SUFFICES ASSUME TypedDisplay, Arriving, NEW i \in DOMAIN received
               PROVE  LET m == received[i]
                          pending == {buffer} \union Range(updates)
                      IN  IF m.type = "clean"
                          THEN \/ \E b \in pending : m \in Range(b.markers)
                               \/ m \in Range(markers)
                               \/ Len(markers) >= MarkerCap /\ ~\E k \in DOMAIN markers : Same(markers[k], m)
                          ELSE \/ \E b \in pending : m \in Range(b.log)
                               \/ m \in Range(log)
                               \/ Len(log) >= LogCap /\ ~\E k \in DOMAIN log : Same(log[k], m)
    BY DEF ReceivedReachesMap
  <2> DEFINE m == received[i]
             pending == {buffer} \union Range(updates)
  <2>1. m \in Range(received)
    BY DEF Range
  <2>2. \/ Behind(m, 0, updates, buffer)
        \/ Arrives(m, Shown(m.type, markers, log), Cap(m.type))
    BY <2>1 DEF Arriving, Newest
  <2>3. Behind(m, 0, updates, buffer) => \E b \in pending : m \in Part(b, m.type)
    <3>1. \A j \in 1..Len(updates) : updates[j] \in Range(updates)
      BY RangeElements DEF TypedDisplay
    <3> QED BY <3>1 DEF Behind
  <2>4. /\ \A k \in DOMAIN markers : markers[k] \in Range(markers)
        /\ \A k \in DOMAIN log : log[k] \in Range(log)
    BY DEF Range
  <2> HIDE DEF m, pending
  <2>5. CASE m.type = "clean"
    BY <2>2, <2>3, <2>4, <2>5 DEF Part, Arrives, Shown, Cap, m, pending
  <2>6. CASE m.type # "clean"
    BY <2>2, <2>3, <2>4, <2>6 DEF Part, Arrives, Shown, Cap, m, pending
  <2> QED BY <2>5, <2>6
<1> QED BY <1>1, <1>2, <1>3, PTL DEF Spec
=============================================================================
