------------------------ MODULE ConfigChannelProofs ------------------------
(***************************************************************************)
(* Proofs, for every set of requests, payloads and settings and every      *)
(* bound, of safety properties of ConfigChannel.  One inductive invariant  *)
(* per concern, each on top of the ones before it.                         *)
(***************************************************************************)
EXTENDS ConfigChannel, TLAPS

WellFormed(v) == v = [o \in Operators |-> v[o]]

\* Types, of the operators' state and of the checkpoint too.
Typed ==
  /\ TypeOK
  /\ WellFormed(view) /\ WellFormed(saved.view)
  /\ saved = [applied |-> saved.applied, view |-> saved.view]
  /\ \A r \in Requests : status[r] # "new" => payload[r] \in Payloads

LEMMA OperatorNames == Operators = {"classifier", "region_filter"}
  BY DEF Operators, FieldsOf

LEMMA InitTyped == Init => Typed
<1> SUFFICES ASSUME Init PROVE Typed
  OBVIOUS
<1>1. TypeOK
  <2>1. saved.applied = 0 /\ Len(topic) = 0
    BY DEF Init
  <2>2. accepted \in Seq(Requests) /\ topic \in Seq(Settings \union {Malformed, NonObject})
    BY DEF Init
  <2>3. \A r \in Requests : status[r] = "publishing" <=> lock = r
    BY ConfigAssumption DEF Init
  <2>4. /\ active \in Settings /\ producerUp \in BOOLEAN /\ lock = NoOne
        /\ status \in [Requests -> {"new"}]
        /\ payload \in [Requests -> {<<>>}]
        /\ merged \in [Requests -> Settings] /\ appended \in [Requests -> BOOLEAN]
        /\ applied \in [Operators -> {0}]
    BY ConfigAssumption DEF Init
  <2>5. retained = 0 /\ jobUp \in BOOLEAN /\ disturbed \in BOOLEAN
    BY DEF Init
  <2>6. QED
    BY <2>1, <2>2, <2>3, <2>4, <2>5 DEF TypeOK, Answered
<1>2. WellFormed(view) /\ WellFormed(saved.view)
  BY DEF Init, WellFormed, FreshView
<1>3. QED
  BY <1>1, <1>2 DEF Init, Typed

LEMMA NextTyped == Typed /\ [Next]_vars => Typed'
<1> SUFFICES ASSUME Typed, [Next]_vars PROVE Typed'
  OBVIOUS
<1> USE DEF Typed, TypeOK, Answered, backend, flink
<1>1. ASSUME NEW r \in Requests, NEW p \in Payloads, Post(r, p) PROVE Typed'
  BY <1>1 DEF Post
<1>2. ASSUME NEW r \in Requests, Begin(r) PROVE Typed'
  <2>1. Merge(active, payload[r]) \in Settings
    BY <1>2, ConfigAssumption DEF Begin
  <2>2. CASE Ordered(Merge(active, payload[r])) /\ producerUp
    <3>1. /\ status' = [status EXCEPT ![r] = "publishing"] /\ lock' = r /\ lock = NoOne
          /\ merged' = [merged EXCEPT ![r] = Merge(active, payload[r])]
          /\ UNCHANGED <<active, producerUp, payload, appended, accepted,
                         topic, retained, flink, disturbed>>
      BY <1>2, <2>2 DEF Begin
    <3>2. QED
      BY <1>2, <2>1, <3>1, ConfigAssumption DEF Begin
  <2>3. CASE ~(Ordered(Merge(active, payload[r])) /\ producerUp)
    <3>1. \E s \in {"refused", "invalid"} : status' = [status EXCEPT ![r] = s]
      BY <1>2, <2>3 DEF Begin
    <3>2. UNCHANGED <<active, producerUp, lock, payload, merged, appended, accepted,
                      topic, retained, flink, disturbed>>
      BY <1>2, <2>3 DEF Begin
    <3>3. QED
      BY <1>2, <2>1, <3>1, <3>2, ConfigAssumption DEF Begin
  <2>4. QED
    BY <2>2, <2>3
<1>3. ASSUME NEW r \in Requests, BrokerAppend(r) PROVE Typed'
  <2>1. /\ topic' \in Seq(Settings \union {Malformed, NonObject})
        /\ Len(topic') = Len(topic) + 1
    BY <1>3 DEF BrokerAppend
  <2>2. QED
    BY <1>3, <2>1 DEF BrokerAppend
<1>4. ASSUME NEW r \in Requests, Commit(r) PROVE Typed'
  BY <1>4, ConfigAssumption DEF Commit
<1>5. ASSUME NEW r \in Requests, Refuse(r) PROVE Typed'
  BY <1>5, ConfigAssumption DEF Refuse, Fault
<1>6. CASE BackendRestart
  BY <1>6, ConfigAssumption DEF BackendRestart, Fault
<1>a. ASSUME NEW r \in Requests, LateAppend(r) PROVE Typed'
  <2>1. /\ topic' \in Seq(Settings \union {Malformed, NonObject})
        /\ Len(topic') = Len(topic) + 1
    BY <1>a DEF LateAppend
  <2>2. QED
    BY <1>a, <2>1 DEF LateAppend
<1>7. ASSUME NEW m \in Foreign, ForeignMessage(m) PROVE Typed'
  <2>1. /\ topic' \in Seq(Settings \union {Malformed, NonObject})
        /\ Len(topic') = Len(topic) + 1
    BY <1>7, ConfigAssumption DEF ForeignMessage
  <2>2. QED
    BY <1>7, <2>1 DEF ForeignMessage
<1>8. CASE Expire
  BY <1>8 DEF Expire, Fault
<1>9. ASSUME NEW o \in Operators, Apply(o) PROVE Typed'
  BY <1>9 DEF Apply, WellFormed
<1>10. ASSUME NEW o \in Operators, Fail(o) PROVE Typed'
  BY <1>10 DEF Fail
<1>11. CASE Checkpoint
  BY <1>11, OperatorNames DEF Checkpoint
<1>12. CASE Crash
  BY <1>12 DEF Crash, Fault
<1>13. CASE Restore
  BY <1>13, OperatorNames DEF Restore, Later
<1>14. CASE Resubmit
  BY <1>14 DEF Resubmit, FreshView, WellFormed
<1>15. CASE UNCHANGED vars
  BY <1>15 DEF vars
<1>16. QED
  BY <1>1, <1>2, <1>3, <1>4, <1>5, <1>6, <1>7, <1>8, <1>9, <1>10, <1>11, <1>12,
     <1>13, <1>14, <1>15, <1>a DEF Next, Answer

\* Every reachable state is well typed, the lock is held exactly by the request
\* that publishes, and no operator has read past the end of the topic.
THEOREM TypeCorrect == Spec => []TypeOK
<1>1. Spec => []Typed
  BY InitTyped, NextTyped, PTL DEF Spec
<1>2. Typed => TypeOK
  BY DEF Typed
<1>3. QED
  BY <1>1, <1>2, PTL
-----------------------------------------------------------------------------
\* What was published, and who was answered, on top of the types.
Published ==
  /\ Typed
  /\ \A r \in Requests : status[r] \in {"new", "waiting"} => ~appended[r]
  /\ \A r \in Requests : appended[r] => \E i \in 1..Len(topic) : topic[i] = merged[r]
  /\ \A r \in Requests : status[r] = "accepted" => appended[r]

LEMMA InitPublished == Init => Published
  BY InitTyped DEF Init, Published

\* The topic only grows: a message that is on it stays there.
LEMMA TopicGrows ==
  ASSUME Typed, [Next]_vars
  PROVE  /\ Len(topic) \in Nat /\ Len(topic') \in Nat /\ Len(topic) <= Len(topic')
         /\ \A i \in 1..Len(topic) : topic'[i] = topic[i]
<1> USE DEF Typed, TypeOK, backend, flink
<1>1. CASE topic' = topic
  BY <1>1
<1>2. ASSUME NEW m, topic' = Append(topic, m), m \in Settings \union {Malformed, NonObject}
      PROVE  /\ Len(topic) \in Nat /\ Len(topic') \in Nat /\ Len(topic) <= Len(topic')
             /\ \A i \in 1..Len(topic) : topic'[i] = topic[i]
  BY <1>2
<1>3. topic' = topic \/ \E m \in Settings \union {Malformed, NonObject} : topic' = Append(topic, m)
  BY ConfigAssumption
     DEF Next, vars, Answer, Post, Begin, BrokerAppend, LateAppend, Commit, Refuse, BackendRestart,
         ForeignMessage, Expire, Apply, Fail, Checkpoint, Crash, Restore, Resubmit
<1>4. QED
  BY <1>1, <1>2, <1>3

LEMMA NextPublished == Published /\ [Next]_vars => Published'
<1> SUFFICES ASSUME Published, [Next]_vars PROVE Published'
  OBVIOUS
<1>0. Typed' /\ Typed
  BY NextTyped DEF Published
<1>a. /\ Len(topic) \in Nat /\ Len(topic') \in Nat /\ Len(topic) <= Len(topic')
      /\ \A i \in 1..Len(topic) : topic'[i] = topic[i]
  BY <1>0, TopicGrows
<1>b. ASSUME UNCHANGED <<merged, appended>>,
             \A r \in Requests : status'[r] \in {"new", "waiting"} => status[r] \in {"new", "waiting"},
             \A r \in Requests : status'[r] = "accepted" => appended[r]
      PROVE  Published'
  BY <1>b, <1>0, <1>a DEF Published
<1> USE <1>0 DEF Typed, TypeOK, backend, flink
<1>1. ASSUME NEW r \in Requests, NEW p \in Payloads, Post(r, p) PROVE Published'
  BY <1>1, <1>b DEF Post, Published
<1>2. ASSUME NEW r \in Requests, Begin(r) PROVE Published'
  <2>1. /\ ~appended[r] /\ UNCHANGED <<appended, topic>>
        /\ \A q \in Requests \ {r} : merged'[q] = merged[q] /\ status'[q] = status[q]
        /\ status'[r] \in {"publishing", "refused", "invalid"}
    BY <1>2 DEF Begin, Published
  <2>2. QED
    BY <2>1 DEF Published
<1>3. ASSUME NEW r \in Requests, BrokerAppend(r) \/ LateAppend(r) PROVE Published'
  <2>1. topic' = Append(topic, merged[r]) /\ merged[r] \in Settings
    BY <1>3 DEF BrokerAppend, LateAppend
  <2>2. Len(topic') \in 1..Len(topic') /\ topic'[Len(topic')] = merged[r]
    BY <2>1
  <2>3. /\ UNCHANGED <<merged, status>> /\ status[r] \in {"publishing", "failed", "severed"}
        /\ appended'[r] /\ \A q \in Requests \ {r} : appended'[q] = appended[q]
    BY <1>3 DEF BrokerAppend, LateAppend
  <2>4. ASSUME NEW q \in Requests, appended'[q] PROVE \E i \in 1..Len(topic') : topic'[i] = merged'[q]
    <3>1. CASE q = r
      BY <3>1, <2>2, <2>3
    <3>2. CASE q # r
      <4>1. PICK i \in 1..Len(topic) : topic[i] = merged[q]
        BY <3>2, <2>3, <2>4 DEF Published
      <4>2. i \in 1..Len(topic') /\ topic'[i] = merged'[q]
        BY <4>1, <1>a, <2>3
      <4>3. QED
        BY <4>2
    <3>3. QED
      BY <3>1, <3>2
  <2>5. QED
    BY <2>3, <2>4 DEF Published
<1>4. ASSUME NEW r \in Requests, Commit(r) PROVE Published'
  BY <1>4, <1>b DEF Commit, Published
<1>5. ASSUME NEW r \in Requests, Refuse(r) PROVE Published'
  BY <1>5, <1>b DEF Refuse, Published
<1>6. CASE BackendRestart
  BY <1>6, <1>b DEF BackendRestart, Published
<1>7. CASE UNCHANGED <<status, merged, appended>>
  BY <1>7, <1>b DEF Published
<1>8. QED
  BY <1>1, <1>2, <1>3, <1>4, <1>5, <1>6, <1>7
     DEF Next, Answer, vars, ForeignMessage, Expire, Apply, Fail, Checkpoint, Crash, Restore, Resubmit

\* Publish before commit: whatever a 202 answered for is on config.updates.
THEOREM PublishedBeforeAccepted == Spec => []AcceptedIsPublished
<1>1. Spec => []Published
  BY InitPublished, NextPublished, PTL DEF Spec
<1>2. Published => AcceptedIsPublished
  BY DEF Published, AcceptedIsPublished
<1>3. QED
  BY <1>1, <1>2, PTL
-----------------------------------------------------------------------------
\* What the request that holds the lock is about to commit, and the settings
\* as the accepted requests left them.
Serialised ==
  /\ Typed
  /\ \A r \in Requests : status[r] = "publishing" => merged[r] = Merge(active, payload[r])
  /\ \A i \in 1..Len(accepted) : status[accepted[i]] = "accepted"
  /\ NoLostUpdate

LEMMA InitSerialised == Init => Serialised
<1> SUFFICES ASSUME Init PROVE Serialised
  OBVIOUS
<1>1. Len(accepted) = 0 /\ active = Defaults
  BY DEF Init
<1>2. NoLostUpdate
  BY <1>1 DEF NoLostUpdate
<1>3. \A r \in Requests : status[r] # "publishing"
  BY DEF Init
<1>4. QED
  BY <1>1, <1>2, <1>3, InitTyped DEF Serialised

\* The payloads of accepted requests, the accepted requests and the settings
\* being the same, so are the last carriers of every field.
LEMMA NoLostUpdateStable ==
  ASSUME Serialised, UNCHANGED <<active, accepted>>,
         \A i \in 1..Len(accepted) : payload'[accepted[i]] = payload[accepted[i]]
  PROVE  NoLostUpdate'
  BY DEF Serialised, NoLostUpdate

LEMMA CommitKeepsUpdates ==
  ASSUME Serialised, Typed', NEW r \in Requests, Commit(r)
  PROVE  NoLostUpdate'
<1> DEFINE Carriers(f) == {i \in 1..Len(accepted) : f \in DOMAIN payload[accepted[i]]}
           Carriers2(f) == {i \in 1..Len(accepted') : f \in DOMAIN payload'[accepted'[i]]}
<1>1. /\ accepted' = Append(accepted, r) /\ payload' = payload
      /\ active' = Merge(active, payload[r]) /\ accepted \in Seq(Requests)
  BY DEF Commit, Serialised, Typed, TypeOK
<1>2. /\ Len(accepted) \in Nat /\ Len(accepted') = Len(accepted) + 1
      /\ accepted'[Len(accepted')] = r
      /\ \A i \in 1..Len(accepted) : accepted'[i] = accepted[i]
  BY <1>1
<1>3. SUFFICES ASSUME NEW f \in Fields
               PROVE  \/ Carriers2(f) = {} /\ active'[f] = Defaults[f]
                      \/ \E i \in Carriers2(f) : /\ \A j \in Carriers2(f) : j <= i
                                                 /\ active'[f] = payload'[accepted'[i]][f]
  BY Zenon DEF NoLostUpdate
<1>4. CASE f \in DOMAIN payload[r]
  <2>1. active'[f] = payload[r][f]
    BY <1>1, <1>4 DEF Merge
  <2>2. Len(accepted') \in Carriers2(f) /\ \A j \in Carriers2(f) : j <= Len(accepted')
    BY <1>1, <1>2, <1>4
  <2>3. active'[f] = payload'[accepted'[Len(accepted')]][f]
    BY <2>1, <1>1, <1>2
  <2>4. QED
    BY <2>2, <2>3
<1>5. CASE f \notin DOMAIN payload[r]
  <2>1. active'[f] = active[f]
    BY <1>1, <1>5 DEF Merge
  <2>2. Carriers2(f) = Carriers(f)
    BY <1>1, <1>2, <1>5
  <2>3. \/ Carriers(f) = {} /\ active[f] = Defaults[f]
        \/ \E i \in Carriers(f) : /\ \A j \in Carriers(f) : j <= i
                                  /\ active[f] = payload[accepted[i]][f]
    BY Zenon DEF Serialised, NoLostUpdate
  <2>4. \A i \in Carriers(f) : accepted'[i] = accepted[i]
    BY <1>2
  <2>5. QED
    BY <1>1, <2>1, <2>2, <2>3, <2>4
<1>6. QED
  BY <1>4, <1>5

LEMMA NextSerialised == Serialised /\ [Next]_vars => Serialised'
<1> SUFFICES ASSUME Serialised, [Next]_vars PROVE Serialised'
  OBVIOUS
<1>0. Typed' /\ Typed
  BY NextTyped DEF Serialised
<1>a. \A i \in 1..Len(accepted) : accepted[i] \in Requests
  BY <1>0 DEF Typed, TypeOK
<1> USE <1>0 DEF backend, flink
<1>1. ASSUME NEW r \in Requests, NEW p \in Payloads, Post(r, p) PROVE Serialised'
  <2>1. /\ UNCHANGED <<active, accepted, merged>> /\ status[r] = "new"
        /\ status'[r] \in {"waiting", "invalid"}
        /\ \A q \in Requests \ {r} : payload'[q] = payload[q] /\ status'[q] = status[q]
    BY <1>1 DEF Post, Typed, TypeOK
  <2>2. \A i \in 1..Len(accepted) : accepted[i] # r
    BY <2>1 DEF Serialised
  <2>3. NoLostUpdate'
    BY <2>1, <2>2, <1>a, NoLostUpdateStable
  <2>4. QED
    BY <2>1, <2>2, <2>3, <1>a DEF Serialised
<1>2. ASSUME NEW r \in Requests, Begin(r) PROVE Serialised'
  <2>1. /\ UNCHANGED <<active, accepted, payload>> /\ status[r] = "waiting"
        /\ \A q \in Requests \ {r} : merged'[q] = merged[q] /\ status'[q] = status[q]
        /\ status'[r] = "publishing" => merged'[r] = Merge(active, payload[r])
    BY <1>2 DEF Begin, Typed, TypeOK
  <2>2. \A i \in 1..Len(accepted) : accepted[i] # r
    BY <2>1 DEF Serialised
  <2>3. NoLostUpdate'
    BY <2>1, NoLostUpdateStable
  <2>4. QED
    BY <2>1, <2>2, <2>3, <1>a DEF Serialised
<1>3. ASSUME NEW r \in Requests, Commit(r) PROVE Serialised'
  <2>1. NoLostUpdate'
    BY <1>3, CommitKeepsUpdates
  <2>2. /\ \A q \in Requests : status'[q] # "publishing"
        /\ status'[r] = "accepted" /\ \A q \in Requests \ {r} : status'[q] = status[q]
    BY <1>3 DEF Commit, Typed, TypeOK
  <2>3. \A i \in 1..Len(accepted') : (i \in 1..Len(accepted) /\ accepted'[i] = accepted[i]) \/ accepted'[i] = r
    BY <1>3 DEF Commit, Typed, TypeOK
  <2>4. \A i \in 1..Len(accepted') : status'[accepted'[i]] = "accepted"
    BY <2>2, <2>3, <1>a DEF Serialised
  <2>5. QED
    BY <2>1, <2>2, <2>4 DEF Serialised
<1>4. ASSUME NEW r \in Requests, Refuse(r) PROVE Serialised'
  <2>1. /\ UNCHANGED <<active, accepted, payload, merged>> /\ status[r] = "publishing"
        /\ status'[r] = "failed" /\ \A q \in Requests \ {r} : status'[q] = status[q]
    BY <1>4 DEF Refuse, Typed, TypeOK
  <2>2. NoLostUpdate'
    BY <2>1, NoLostUpdateStable
  <2>3. QED
    BY <2>1, <2>2, <1>a DEF Serialised
<1>5. CASE BackendRestart
  <2>1. Len(accepted') = 0 /\ active' = Defaults /\ \A q \in Requests : status'[q] # "publishing"
    BY <1>5 DEF BackendRestart
  <2>2. NoLostUpdate'
    BY <2>1 DEF NoLostUpdate
  <2>3. QED
    BY <2>1, <2>2 DEF Serialised
<1>6. CASE UNCHANGED <<active, status, payload, merged, accepted>>
  <2>1. NoLostUpdate'
    BY <1>6, NoLostUpdateStable
  <2>2. QED
    BY <1>6, <2>1 DEF Serialised
<1>7. QED
  BY <1>1, <1>2, <1>3, <1>4, <1>5, <1>6
     DEF Next, Answer, vars, BrokerAppend, LateAppend, ForeignMessage, Expire, Apply, Fail,
         Checkpoint, Crash, Restore, Resubmit

\* Serialised by the lock, concurrent partial updates keep each other's fields.
THEOREM UpdatesAreNotLost == Spec => []NoLostUpdate
<1>1. Spec => []Serialised
  BY InitSerialised, NextSerialised, PTL DEF Spec
<1>2. Serialised => NoLostUpdate
  BY DEF Serialised
<1>3. QED
  BY <1>1, <1>2, PTL
-----------------------------------------------------------------------------
\* Requests whose message has been sent and not acknowledged.
Sent == {r \in Requests : status[r] \in {"publishing", "failed", "severed"}}

\* Ordered thresholds wherever settings are kept or on their way.
AllOrdered ==
  /\ Typed
  /\ Ordered(active)
  /\ \A r \in Sent : Ordered(merged[r])
  /\ \A i \in 1..Len(topic) : IsConfig(topic[i]) => Ordered(topic[i])
  /\ Ordered(view["classifier"]) /\ Ordered(saved.view["classifier"])

LEMMA RestrictedOrdered ==
  ASSUME NEW config PROVE Ordered(Restricted(config, "classifier")) <=> Ordered(config)
  BY DEF Restricted, FieldsOf, Ordered

LEMMA FreshOrdered == Ordered(FreshView["classifier"])
  BY ConfigAssumption, OperatorNames, RestrictedOrdered DEF FreshView

LEMMA InitAllOrdered == Init => AllOrdered
<1> SUFFICES ASSUME Init PROVE AllOrdered
  OBVIOUS
<1>1. /\ active = Defaults /\ view = FreshView /\ saved.view = FreshView /\ Len(topic) = 0
      /\ \A r \in Requests : status[r] = "new"
  BY DEF Init
<1>2. QED
  BY <1>1, InitTyped, FreshOrdered, ConfigAssumption DEF AllOrdered, Sent

LEMMA NextAllOrdered ==
  ASSUME \A m \in Foreign : IsConfig(m) => Ordered(m)
  PROVE  AllOrdered /\ [Next]_vars => AllOrdered'
<1> SUFFICES ASSUME AllOrdered, [Next]_vars PROVE AllOrdered'
  OBVIOUS
<1>0. Typed' /\ Typed
  BY NextTyped DEF AllOrdered
<1>a. /\ Len(topic) \in Nat /\ topic \in Seq(Settings \union {Malformed, NonObject})
      /\ applied \in [Operators -> Nat] /\ \A o \in Operators : applied[o] <= Len(topic)
  BY <1>0 DEF Typed, TypeOK
<1>b. "classifier" \in Operators
  BY OperatorNames
<1> USE <1>0 DEF backend, flink
<1>1. ASSUME NEW r \in Requests, NEW p \in Payloads, Post(r, p) PROVE AllOrdered'
  <2>1. /\ UNCHANGED <<active, merged, topic, view, saved>>
        /\ Sent' \subseteq Sent
    BY <1>1 DEF Post, Typed, TypeOK, Sent
  <2>2. QED
    BY <2>1 DEF AllOrdered
<1>2. ASSUME NEW r \in Requests, Begin(r) PROVE AllOrdered'
  <2>1. /\ UNCHANGED <<active, topic, view, saved>>
        /\ \A q \in Sent' \ {r} : q \in Sent /\ merged'[q] = merged[q]
        /\ r \in Sent' => Ordered(merged'[r])
    BY <1>2 DEF Begin, Typed, TypeOK, Sent
  <2>2. QED
    BY <2>1 DEF AllOrdered
<1>3. ASSUME NEW m, topic' = Append(topic, m), m \in Settings \union {Malformed, NonObject},
             IsConfig(m) => Ordered(m), UNCHANGED <<active, status, merged, view, saved>>
      PROVE  AllOrdered'
  <2>1. \A i \in 1..Len(topic') : (i \in 1..Len(topic) /\ topic'[i] = topic[i]) \/ topic'[i] = m
    BY <1>3, <1>a
  <2>2. \A i \in 1..Len(topic') : IsConfig(topic'[i]) => Ordered(topic'[i])
    BY <1>3, <2>1 DEF AllOrdered
  <2>3. QED
    BY <1>3, <2>2 DEF AllOrdered, Sent
<1>4. ASSUME NEW r \in Requests, BrokerAppend(r) \/ LateAppend(r) PROVE AllOrdered'
  <2>1. /\ topic' = Append(topic, merged[r]) /\ r \in Sent
        /\ UNCHANGED <<active, status, merged, view, saved>>
    BY <1>4 DEF BrokerAppend, LateAppend, Sent
  <2>2. merged[r] \in Settings /\ Ordered(merged[r])
    BY <2>1 DEF AllOrdered, Typed, TypeOK, Sent
  <2>3. QED
    BY <1>3, <2>1, <2>2
<1>5. ASSUME NEW m \in Foreign, ForeignMessage(m) PROVE AllOrdered'
  BY <1>5, <1>3, ConfigAssumption DEF ForeignMessage
<1>6. ASSUME NEW r \in Requests, Commit(r) PROVE AllOrdered'
  <2>1. /\ UNCHANGED <<merged, topic, view, saved>> /\ active' = merged[r]
        /\ r \in Sent /\ Sent' \subseteq Sent
    BY <1>6 DEF Commit, Typed, TypeOK, Sent
  <2>2. QED
    BY <2>1 DEF AllOrdered
<1>7. ASSUME NEW r \in Requests, Refuse(r) PROVE AllOrdered'
  <2>1. UNCHANGED <<active, merged, topic, view, saved>> /\ Sent' = Sent
    BY <1>7 DEF Refuse, Typed, TypeOK, Sent
  <2>2. QED
    BY <2>1 DEF AllOrdered
<1>8. CASE BackendRestart
  <2>1. /\ UNCHANGED <<merged, topic, view, saved>> /\ active' = Defaults /\ Sent' = Sent
    BY <1>8 DEF BackendRestart, Typed, TypeOK, Sent
  <2>2. QED
    BY <2>1, ConfigAssumption DEF AllOrdered
<1>9. ASSUME NEW o \in Operators, Apply(o) PROVE AllOrdered'
  <2>1. UNCHANGED <<active, merged, topic, saved>> /\ Sent' = Sent
    BY <1>9 DEF Apply, Sent
  <2>2. applied[o] + 1 \in 1..Len(topic)
    BY <1>9, <1>a DEF Apply
  <2>3. /\ view \in [Operators -> {view[q] : q \in Operators}]
        /\ view' = view \/ (IsConfig(Following(o)) /\ view' = [view EXCEPT ![o] = Stored(Following(o), o)])
    BY <1>9 DEF Apply, Typed, WellFormed
  <2>4. IsConfig(Following(o)) => Ordered(Following(o))
    BY <2>2 DEF AllOrdered, Following
  <2>5. Ordered(view'["classifier"])
    BY <1>b, <2>3, <2>4, RestrictedOrdered DEF AllOrdered, Stored
  <2>6. QED
    BY <2>1, <2>5 DEF AllOrdered
<1>10. CASE Checkpoint
  BY <1>10 DEF Checkpoint, AllOrdered, Sent
<1>11. CASE Restore
  BY <1>11 DEF Restore, AllOrdered, Sent
<1>12. CASE Resubmit
  BY <1>12, FreshOrdered DEF Resubmit, AllOrdered, Sent
<1>13. CASE UNCHANGED <<active, status, merged, topic, view, saved>>
  BY <1>13 DEF AllOrdered, Sent
<1>14. QED
  BY <1>1, <1>2, <1>4, <1>5, <1>6, <1>7, <1>8, <1>9, <1>10, <1>11, <1>12, <1>13
     DEF Next, Answer, vars, Expire, Fail, Crash

\* As long as whoever else writes to config.updates keeps warn below danger,
\* so do the backend and the classifier.
THEOREM ThresholdsStayOrdered ==
  ASSUME \A m \in Foreign : IsConfig(m) => Ordered(m)
  PROVE  Spec => []ThresholdsOrdered
<1>1. Spec => []AllOrdered
  BY InitAllOrdered, NextAllOrdered, PTL DEF Spec
<1>2. AllOrdered => ThresholdsOrdered
  BY DEF AllOrdered, ThresholdsOrdered
<1>3. QED
  BY <1>1, <1>2, PTL
-----------------------------------------------------------------------------
\* Settings follow offset n of the log t; config is the latest of t, the
\* defaults being the latest of a log without settings.
ConfigAfter(t, n) == \E i \in (n + 1)..Len(t) : IsConfig(t[i])
Latest(t, config) ==
  \/ config = Defaults /\ ~ConfigAfter(t, 0)
  \/ \E i \in 1..Len(t) : t[i] = config /\ IsConfig(config) /\ ~ConfigAfter(t, i)

\* Holding v, an operator at offset n shows the latest settings unless it has
\* settings still to read.
UpToDate(v, n) ==
  \A o \in Operators :
    ~ConfigAfter(topic, n[o]) => \E c \in Settings : Latest(topic, c) /\ v[o] = Restricted(c, o)

\* While nothing has disturbed the channel: the backend holds the latest
\* settings, or has just published them; the operators and the checkpoint show
\* them or will read them, and so will a job that starts where the topic does.
Undisturbed ==
  /\ lock = NoOne => Latest(topic, active)
  /\ \A r \in Requests : lock = r => Latest(topic, IF appended[r] THEN merged[r] ELSE active)
  /\ retained > 0 => ConfigAfter(topic, retained)
  /\ UpToDate(view, applied)
  /\ UpToDate(saved.view, [o \in Operators |-> saved.applied])

Agreed == Published /\ (~disturbed => Undisturbed)

LEMMA LatestUnique ==
  ASSUME NEW t, Len(t) \in Nat, NEW c, NEW d, Latest(t, c), Latest(t, d)
  PROVE  c = d
<1>1. ASSUME NEW i \in 1..Len(t), NEW j \in 1..Len(t), IsConfig(t[i]), IsConfig(t[j]),
             ~ConfigAfter(t, i), ~ConfigAfter(t, j)
      PROVE  i = j
  BY <1>1 DEF ConfigAfter
<1>2. ASSUME NEW i \in 1..Len(t), IsConfig(t[i]) PROVE ConfigAfter(t, 0)
  BY <1>2 DEF ConfigAfter
<1>3. QED
  BY <1>1, <1>2 DEF Latest

\* Settings appended to the log are its latest, and follow all it had.
LEMMA ConfigAppended ==
  ASSUME NEW S, NEW t \in Seq(S), NEW m \in S, IsConfig(m)
  PROVE  /\ Latest(Append(t, m), m)
         /\ \A n \in Nat : n <= Len(t) => ConfigAfter(Append(t, m), n)
<1> DEFINE u == Append(t, m)
<1>1. /\ Len(t) \in Nat /\ Len(u) = Len(t) + 1 /\ u[Len(u)] = m
  OBVIOUS
<1> HIDE DEF u
<1>2. ~ConfigAfter(u, Len(u))
  BY <1>1 DEF ConfigAfter
<1>3. Latest(u, m)
  BY <1>1, <1>2 DEF Latest
<1>4. ASSUME NEW n \in Nat, n <= Len(t) PROVE ConfigAfter(u, n)
  BY <1>1, <1>4 DEF ConfigAfter
<1>5. QED
  BY <1>3, <1>4 DEF u

\* A message the operators skip changes neither.
LEMMA OtherAppended ==
  ASSUME NEW S, NEW t \in Seq(S), NEW m \in S, ~IsConfig(m)
  PROVE  /\ \A n \in Nat : ConfigAfter(Append(t, m), n) <=> ConfigAfter(t, n)
         /\ \A c : Latest(t, c) => Latest(Append(t, m), c)
<1> DEFINE u == Append(t, m)
<1>1. /\ Len(t) \in Nat /\ Len(u) = Len(t) + 1 /\ u[Len(u)] = m
      /\ \A i \in 1..Len(t) : u[i] = t[i]
  OBVIOUS
<1> HIDE DEF u
<1>2. ASSUME NEW n \in Nat PROVE ConfigAfter(u, n) <=> ConfigAfter(t, n)
  <2>1. ASSUME NEW i \in (n + 1)..Len(t), IsConfig(t[i]) PROVE ConfigAfter(u, n)
    <3>1. i \in (n + 1)..Len(u) /\ u[i] = t[i]
      BY <1>1
    <3>2. QED
      BY <2>1, <3>1 DEF ConfigAfter
  <2>2. ASSUME NEW i \in (n + 1)..Len(u), IsConfig(u[i]) PROVE ConfigAfter(t, n)
    <3>1. i # Len(u)
      BY <1>1, <2>2
    <3>2. i \in (n + 1)..Len(t) /\ u[i] = t[i]
      BY <1>1, <3>1
    <3>3. QED
      BY <2>2, <3>2 DEF ConfigAfter
  <2>3. QED
    BY <2>1, <2>2 DEF ConfigAfter
<1>3. ASSUME NEW c, Latest(t, c) PROVE Latest(u, c)
  <2>1. CASE c = Defaults /\ ~ConfigAfter(t, 0)
    BY <2>1, <1>2 DEF Latest
  <2>2. CASE \E i \in 1..Len(t) : t[i] = c /\ IsConfig(c) /\ ~ConfigAfter(t, i)
    <3>1. PICK i \in 1..Len(t) : t[i] = c /\ IsConfig(c) /\ ~ConfigAfter(t, i)
      BY <2>2
    <3>2. i \in 1..Len(u) /\ u[i] = c /\ ~ConfigAfter(u, i)
      BY <3>1, <1>1, <1>2
    <3>3. QED
      BY <3>1, <3>2 DEF Latest
  <2>3. QED
    BY <1>3, <2>1, <2>2 DEF Latest
<1>4. QED
  BY <1>2, <1>3 DEF u

LEMMA FreshUpToDate ==
  ASSUME NEW t, ~ConfigAfter(t, 0), NEW o \in Operators
  PROVE  \E c \in Settings : Latest(t, c) /\ FreshView[o] = Restricted(c, o)
  BY ConfigAssumption DEF Latest, FreshView

LEMMA InitAgreed == Init => Agreed
<1> SUFFICES ASSUME Init PROVE Agreed
  OBVIOUS
<1>1. /\ active = Defaults /\ view = FreshView /\ saved.view = FreshView /\ saved.applied = 0
      /\ applied = [o \in Operators |-> 0] /\ lock = NoOne /\ retained = 0 /\ Len(topic) = 0
  BY DEF Init
<1>2. ~ConfigAfter(topic, 0)
  BY <1>1 DEF ConfigAfter
<1>3. Latest(topic, active)
  BY <1>1, <1>2 DEF Latest
<1>4. UpToDate(view, applied) /\ UpToDate(saved.view, [o \in Operators |-> saved.applied])
  BY <1>1, <1>2, FreshUpToDate DEF UpToDate
<1>5. QED
  BY <1>1, <1>3, <1>4, InitPublished, ConfigAssumption DEF Agreed, Undisturbed

LEMMA NextAgreed == Agreed /\ [Next]_vars => Agreed'
<1> SUFFICES ASSUME Agreed, [Next]_vars PROVE Agreed'
  OBVIOUS
<1>0. Published /\ Published' /\ Typed /\ Typed'
  BY NextPublished DEF Agreed, Published
<1>a. /\ Len(topic) \in Nat /\ topic \in Seq(Settings \union {Malformed, NonObject})
      /\ applied \in [Operators -> Nat] /\ retained \in Nat /\ retained <= Len(topic)
      /\ saved.applied \in Nat /\ merged \in [Requests -> Settings]
      /\ \A o \in Operators : applied[o] <= Len(topic) /\ saved.applied <= Len(topic)
      /\ \A r \in Requests : status[r] = "publishing" <=> lock = r
      /\ view = [o \in Operators |-> view[o]]
  BY <1>0 DEF Typed, TypeOK, WellFormed
<1>b. \A r \in Requests : status[r] \in {"new", "waiting"} => ~appended[r]
  BY <1>0 DEF Published
<1>c. SUFFICES ASSUME ~disturbed' PROVE Undisturbed'
  BY <1>0 DEF Agreed
<1>d. ASSUME ~disturbed PROVE Undisturbed
  BY <1>d DEF Agreed
<1>e. ASSUME UNCHANGED <<topic, applied, view, saved>>, ~disturbed
      PROVE  UpToDate(view, applied)' /\ UpToDate(saved.view, [o \in Operators |-> saved.applied])'
  BY <1>d, <1>e DEF Undisturbed, UpToDate
<1> USE DEF backend, flink
<1>1. ASSUME NEW r \in Requests, NEW p \in Payloads, Post(r, p) PROVE Undisturbed'
  <2>1. UNCHANGED <<active, lock, merged, appended, topic, retained, applied, view, saved, disturbed>>
    BY <1>1 DEF Post
  <2>2. QED
    BY <1>c, <1>d, <1>e, <2>1 DEF Undisturbed
<1>2. ASSUME NEW r \in Requests, Begin(r) PROVE Undisturbed'
  <2>1. /\ UNCHANGED <<active, appended, topic, retained, applied, view, saved, disturbed>>
        /\ lock = NoOne /\ ~appended[r] /\ (lock' = r \/ lock' = NoOne)
    BY <1>2, <1>b DEF Begin
  <2>2. Latest(topic, active)
    BY <1>c, <1>d, <2>1 DEF Undisturbed
  <2>3. \A q \in Requests : lock' = q => Latest(topic', IF appended'[q] THEN merged'[q] ELSE active')
    BY <2>1, <2>2, ConfigAssumption
  <2>4. QED
    BY <1>c, <1>d, <1>e, <2>1, <2>2, <2>3 DEF Undisturbed
<1>3. ASSUME NEW r \in Requests, BrokerAppend(r) PROVE Undisturbed'
  <2>1. /\ UNCHANGED <<active, lock, merged, retained, applied, view, saved>> /\ lock = r
        /\ topic' = Append(topic, merged[r]) /\ appended'[r] /\ merged[r] \in Settings
    BY <1>3, <1>a, <1>0 DEF BrokerAppend, Typed, TypeOK
  <2>2. /\ Latest(topic', merged[r])
        /\ \A n \in Nat : n <= Len(topic) => ConfigAfter(topic', n)
    BY <2>1, <1>a, ConfigAppended, ConfigAssumption DEF IsConfig
  <2>3. UpToDate(view, applied)' /\ UpToDate(saved.view, [o \in Operators |-> saved.applied])'
    BY <2>1, <2>2, <1>a DEF UpToDate
  <2>4. QED
    BY <2>1, <2>2, <2>3, <1>a, ConfigAssumption DEF Undisturbed
<1>4. ASSUME NEW r \in Requests, Commit(r) PROVE Undisturbed'
  <2>1. /\ UNCHANGED <<merged, appended, topic, retained, applied, view, saved, disturbed>>
        /\ lock = r /\ appended[r] /\ lock' = NoOne /\ active' = merged[r]
    BY <1>4, <1>a DEF Commit
  <2>2. QED
    BY <1>c, <1>d, <1>e, <2>1, ConfigAssumption DEF Undisturbed
<1>5. ASSUME NEW r \in Requests, Refuse(r) PROVE Undisturbed'
  <2>1. /\ UNCHANGED <<active, merged, appended, topic, retained, applied, view, saved>>
        /\ ~disturbed /\ lock = r /\ ~appended[r] /\ lock' = NoOne
    BY <1>5, <1>a, <1>c DEF Refuse
  <2>2. QED
    BY <1>d, <1>e, <2>1, ConfigAssumption DEF Undisturbed
<1>6. CASE BackendRestart \/ \E r \in Requests : LateAppend(r)
  BY <1>6, <1>c DEF BackendRestart, LateAppend
<1>7. ASSUME NEW m \in Foreign, ForeignMessage(m) PROVE Undisturbed'
  <2>1. /\ UNCHANGED <<active, lock, merged, appended, retained, applied, view, saved>>
        /\ topic' = Append(topic, m) /\ ~disturbed /\ ~IsConfig(m)
        /\ m \in Settings \union {Malformed, NonObject}
    BY <1>7, <1>c, ConfigAssumption DEF ForeignMessage
  <2>2. /\ \A n \in Nat : ConfigAfter(topic', n) <=> ConfigAfter(topic, n)
        /\ \A c : Latest(topic, c) => Latest(topic', c)
    BY <2>1, <1>a, OtherAppended
  <2>3. UpToDate(view, applied)' /\ UpToDate(saved.view, [o \in Operators |-> saved.applied])'
    BY <2>1, <2>2, <1>a, <1>d DEF UpToDate, Undisturbed
  <2>4. QED
    BY <2>1, <2>2, <2>3, <1>a, <1>d DEF Undisturbed
<1>8. CASE Expire
  <2>1. /\ UNCHANGED <<active, lock, merged, appended, topic, applied, view, saved>>
        /\ ~disturbed /\ retained' = retained + 1
        /\ ~ \A i \in (retained + 2)..Len(topic) : ~IsConfig(topic[i])
    BY <1>8, <1>c DEF Expire
  <2>2. ConfigAfter(topic', retained')
    BY <2>1, <1>a DEF ConfigAfter
  <2>3. QED
    BY <1>d, <1>e, <2>1, <2>2 DEF Undisturbed
<1>9. ASSUME NEW o \in Operators, Apply(o) PROVE Undisturbed'
  <2> DEFINE n == applied[o] + 1
  <2>1. /\ UNCHANGED <<active, lock, merged, appended, topic, retained, saved, disturbed>>
        /\ n \in 1..Len(topic) /\ applied' = [applied EXCEPT ![o] = n]
        /\ \A q \in Operators \ {o} : view'[q] = view[q] /\ applied'[q] = applied[q]
    BY <1>9, <1>a DEF Apply
  <2>2. /\ IsConfig(topic[n]) => view'[o] = Restricted(topic[n], o)
        /\ ~IsConfig(topic[n]) => view'[o] = view[o]
    BY <1>9, <1>a DEF Apply, Following, Stored
  <2>3. ASSUME ~ConfigAfter(topic, n)
        PROVE  \E c \in Settings : Latest(topic, c) /\ view'[o] = Restricted(c, o)
    <3>1. CASE IsConfig(topic[n])
      <4>1. topic[n] \in Settings
        BY <2>1, <3>1, <1>a DEF IsConfig
      <4>2. Latest(topic, topic[n])
        BY <2>1, <2>3, <3>1 DEF Latest
      <4>3. QED
        BY <4>1, <4>2, <2>2, <3>1
    <3>2. CASE ~IsConfig(topic[n])
      <4>1. ~ConfigAfter(topic, applied[o])
        BY <2>1, <2>3, <3>2, <1>a DEF ConfigAfter
      <4>2. QED
        BY <4>1, <2>1, <2>2, <3>2, <1>c, <1>d DEF Undisturbed, UpToDate
    <3>3. QED
      BY <3>1, <3>2
  <2>4. UpToDate(view, applied)'
    BY <2>1, <2>3, <1>a, <1>c, <1>d DEF UpToDate, Undisturbed
  <2>5. UpToDate(saved.view, [q \in Operators |-> saved.applied])'
    BY <2>1, <1>c, <1>d DEF UpToDate, Undisturbed
  <2>6. QED
    BY <1>c, <1>d, <2>1, <2>4, <2>5 DEF Undisturbed
<1>10. CASE Checkpoint
  <2>1. /\ UNCHANGED <<active, lock, merged, appended, topic, retained, applied, view, disturbed>>
        /\ saved'.view = view /\ \A o \in Operators : applied[o] = saved'.applied
    BY <1>10 DEF Checkpoint
  <2>2. UpToDate(view, applied)
    BY <2>1, <1>c, <1>d DEF Undisturbed
  <2>3. UpToDate(saved.view, [o \in Operators |-> saved.applied])'
    BY <2>1, <2>2 DEF UpToDate
  <2>4. QED
    BY <1>c, <1>d, <2>1, <2>2, <2>3 DEF Undisturbed, UpToDate
<1>11. CASE Restore
  <2>1. /\ UNCHANGED <<active, lock, merged, appended, topic, retained, saved, disturbed>>
        /\ view' = saved.view /\ \A o \in Operators : applied'[o] = Later(saved.applied, retained)
    BY <1>11 DEF Restore
  <2>2. UpToDate(saved.view, [o \in Operators |-> saved.applied])
        /\ (retained > 0 => ConfigAfter(topic, retained))
    BY <2>1, <1>c, <1>d DEF Undisturbed
  <2>3. ConfigAfter(topic, Later(saved.applied, retained)) \/ Later(saved.applied, retained) = saved.applied
    BY <2>2, <1>a DEF Later
  <2>4. UpToDate(view, applied)'
    BY <2>1, <2>2, <2>3 DEF UpToDate
  <2>5. UpToDate(saved.view, [o \in Operators |-> saved.applied])'
    BY <2>1, <2>2 DEF UpToDate
  <2>6. QED
    BY <1>c, <1>d, <2>1, <2>4, <2>5 DEF Undisturbed
<1>12. CASE Resubmit
  <2>1. /\ UNCHANGED <<active, lock, merged, appended, topic, retained, disturbed>>
        /\ view' = FreshView /\ saved'.view = FreshView /\ saved'.applied = retained
        /\ \A o \in Operators : applied'[o] = retained
    BY <1>12 DEF Resubmit
  <2>2. ConfigAfter(topic, retained) \/ retained = 0
    BY <1>a, <2>1, <1>c, <1>d DEF Undisturbed
  <2>3. UpToDate(view, applied)' /\ UpToDate(saved.view, [o \in Operators |-> saved.applied])'
    BY <2>1, <2>2, FreshUpToDate DEF UpToDate
  <2>4. QED
    BY <1>c, <1>d, <2>1, <2>3 DEF Undisturbed
<1>13. CASE UNCHANGED <<active, lock, merged, appended, topic, retained, applied, view, saved, disturbed>>
  BY <1>13, <1>c, <1>d, <1>e DEF Undisturbed
<1>14. QED
  BY <1>1, <1>2, <1>3, <1>4, <1>5, <1>6, <1>7, <1>8, <1>9, <1>10, <1>11, <1>12, <1>13
     DEF Next, Answer, vars, Fail, Crash

\* While nothing disturbs the channel, crashes, replays, duplicates and skipped
\* messages notwithstanding, an operator that has read config.updates to its
\* end holds the settings of the backend.
THEOREM AgreementUnlessDisturbed == Spec => []UndisturbedAgreement
<1>1. Spec => []Agreed
  BY InitAgreed, NextAgreed, PTL DEF Spec
<1>2. ASSUME Agreed, ~disturbed, Quiet, NEW o \in Operators, applied[o] = Len(topic)
      PROVE  view[o] = Restricted(active, o)
  <2>1. Undisturbed /\ Len(topic) \in Nat
    BY <1>2 DEF Agreed, Published, Typed, TypeOK
  <2>2. ~ConfigAfter(topic, applied[o])
    BY <1>2, <2>1 DEF ConfigAfter
  <2>3. PICK c \in Settings : Latest(topic, c) /\ view[o] = Restricted(c, o)
    BY <2>1, <2>2 DEF Undisturbed, UpToDate
  <2>4. Latest(topic, active)
    BY <1>2, <2>1 DEF Undisturbed, Quiet
  <2>5. c = active
    BY <2>1, <2>3, <2>4, LatestUnique
  <2>6. QED
    BY <2>3, <2>5
<1>3. Agreed => UndisturbedAgreement
  BY <1>2 DEF UndisturbedAgreement, Agreement
<1>4. QED
  BY <1>1, <1>3, PTL
-----------------------------------------------------------------------------
\* The settings there have been.
Past(t) == {c \in {Defaults} \union {t[i] : i \in 1..Len(t)} : IsConfig(c)}

\* What an operator that held c at offset b holds at offset n, having stored
\* all the settings in between.
Holds(t, b, c, n, d) ==
  \/ d = c /\ \A i \in (b + 1)..n : ~IsConfig(t[i])
  \/ \E i \in (b + 1)..n : /\ IsConfig(t[i]) /\ d = t[i]
                           /\ \A j \in (i + 1)..n : ~IsConfig(t[j])

\* Since the job started or was restored, at offset b with the settings c, both
\* operators have kept what they read.
SinceStart(b, c) ==
  \A o \in Operators :
    /\ b <= applied[o]
    /\ \E d \in Past(topic) : Holds(topic, b, c, applied[o], d) /\ view[o] = Restricted(d, o)

Aligned ==
  /\ Typed
  /\ \E b \in Nat, c \in Past(topic) : SinceStart(b, c)
  /\ \E c \in Past(topic) : \A o \in Operators : saved.view[o] = Restricted(c, o)

LEMMA DefaultsPast == ASSUME NEW t PROVE Defaults \in Past(t)
  BY ConfigAssumption DEF Past, IsConfig

LEMMA HoldsOne ==
  ASSUME NEW t, NEW b \in Nat, NEW n \in Nat, NEW c, NEW d, NEW e,
         Holds(t, b, c, n, d), Holds(t, b, c, n, e)
  PROVE  d = e
<1>1. ASSUME NEW i \in (b + 1)..n, NEW j \in (b + 1)..n, IsConfig(t[i]), IsConfig(t[j]),
             \A k \in (i + 1)..n : ~IsConfig(t[k]), \A k \in (j + 1)..n : ~IsConfig(t[k])
      PROVE  i = j
  BY <1>1
<1>2. QED
  BY <1>1 DEF Holds

LEMMA AlignedImplies == Aligned => OneConfigPerOffset
<1> SUFFICES ASSUME Aligned, applied["classifier"] = applied["region_filter"]
             PROVE  \E config \in Past(topic) : \A o \in Operators : view[o] = Restricted(config, o)
  BY DEF OneConfigPerOffset, Past
<1>1. PICK b \in Nat, c \in Past(topic) : SinceStart(b, c)
  BY DEF Aligned
<1>2. PICK d \in Past(topic) : /\ Holds(topic, b, c, applied["classifier"], d)
                               /\ view["classifier"] = Restricted(d, "classifier")
  BY <1>1, OperatorNames DEF SinceStart
<1>3. PICK e \in Past(topic) : /\ Holds(topic, b, c, applied["region_filter"], e)
                               /\ view["region_filter"] = Restricted(e, "region_filter")
  BY <1>1, OperatorNames DEF SinceStart
<1>4. applied["classifier"] \in Nat
  BY OperatorNames DEF Aligned, Typed, TypeOK
<1>5. d = e
  BY <1>2, <1>3, <1>4, HoldsOne
<1>6. QED
  BY <1>2, <1>3, <1>5, OperatorNames

LEMMA InitAligned == Init => Aligned
<1> SUFFICES ASSUME Init PROVE Aligned
  OBVIOUS
<1>1. /\ view = FreshView /\ saved.view = FreshView
      /\ \A o \in Operators : applied[o] = 0 /\ FreshView[o] = Restricted(Defaults, o)
  BY DEF Init, FreshView
<1>2. Holds(topic, 0, Defaults, 0, Defaults)
  BY DEF Holds
<1>3. SinceStart(0, Defaults)
  BY <1>1, <1>2, DefaultsPast DEF SinceStart
<1>4. QED
  BY <1>1, <1>3, InitTyped, DefaultsPast DEF Aligned

LEMMA NextAligned == Aligned /\ [Next]_vars => Aligned'
<1> SUFFICES ASSUME Aligned, [Next]_vars PROVE Aligned'
  OBVIOUS
<1>0. Typed /\ Typed'
  BY NextTyped DEF Aligned
<1>a. /\ Len(topic) \in Nat /\ retained \in Nat /\ saved.applied \in Nat
      /\ applied \in [Operators -> Nat]
      /\ \A o \in Operators : applied[o] <= Len(topic)
      /\ view = [o \in Operators |-> view[o]]
  BY <1>0 DEF Typed, TypeOK, WellFormed
<1>b. /\ Len(topic') \in Nat /\ Len(topic) <= Len(topic')
      /\ \A i \in 1..Len(topic) : topic'[i] = topic[i]
  BY <1>0, TopicGrows
<1>c. Past(topic) \subseteq Past(topic')
  <2>1. ASSUME NEW i \in 1..Len(topic) PROVE \E j \in 1..Len(topic') : topic[i] = topic'[j]
    BY <1>a, <1>b
  <2>2. QED
    BY <2>1 DEF Past
<1>d. PICK b \in Nat, c \in Past(topic) : SinceStart(b, c)
  BY DEF Aligned
<1>e. \E e \in Past(topic') : \A o \in Operators : saved.view[o] = Restricted(e, o)
  BY <1>c DEF Aligned
<1>1. ASSUME UNCHANGED <<applied, view>> PROVE \E e \in Past(topic') : SinceStart(b, e)'
  <2>1. ASSUME NEW o \in Operators, NEW d, Holds(topic, b, c, applied[o], d)
        PROVE  Holds(topic', b, c, applied[o], d)
    <3>1. \A i \in (b + 1)..applied[o] : i \in 1..Len(topic) /\ topic'[i] = topic[i]
      BY <1>a, <1>b
    <3>2. \A i \in (b + 1)..applied[o] : \A j \in (i + 1)..applied[o] : j \in (b + 1)..applied[o]
      BY <1>a
    <3>3. QED
      BY <2>1, <3>1, <3>2 DEF Holds
  <2>2. SinceStart(b, c)'
    BY <1>1, <1>c, <1>d, <2>1 DEF SinceStart
  <2>3. QED
    BY <2>2, <1>c
<1>2. CASE UNCHANGED flink
  BY <1>0, <1>2, <1>e, <1>1 DEF flink, Aligned
<1>3. ASSUME NEW o \in Operators, Apply(o) PROVE Aligned'
  <2> DEFINE n == applied[o] + 1
  <2>1. /\ UNCHANGED <<topic, saved>> /\ n \in 1..Len(topic) /\ applied' = [applied EXCEPT ![o] = n]
        /\ \A q \in Operators \ {o} : view'[q] = view[q] /\ applied'[q] = applied[q]
    BY <1>3, <1>a DEF Apply
  <2>2. /\ IsConfig(topic[n]) => view'[o] = Restricted(topic[n], o)
        /\ ~IsConfig(topic[n]) => view'[o] = view[o]
    BY <1>3, <1>a DEF Apply, Following, Stored
  <2>3. PICK d \in Past(topic) : Holds(topic, b, c, applied[o], d) /\ view[o] = Restricted(d, o)
    BY <1>d DEF SinceStart
  <2>4. b <= applied[o] /\ applied[o] \in Nat
    BY <1>a, <1>d DEF SinceStart
  <2>5. \E e \in Past(topic) : Holds(topic, b, c, n, e) /\ view'[o] = Restricted(e, o)
    <3>1. CASE IsConfig(topic[n])
      <4>1. Holds(topic, b, c, n, topic[n])
        BY <2>4, <3>1 DEF Holds
      <4>2. topic[n] \in Past(topic)
        BY <2>1, <3>1 DEF Past
      <4>3. QED
        BY <4>1, <4>2, <2>2, <3>1
    <3>2. CASE ~IsConfig(topic[n])
      <4>1. Holds(topic, b, c, n, d)
        <5>1. CASE d = c /\ \A i \in (b + 1)..applied[o] : ~IsConfig(topic[i])
          BY <2>4, <3>2, <5>1 DEF Holds
        <5>2. ASSUME NEW i \in (b + 1)..applied[o], IsConfig(topic[i]), d = topic[i],
                     \A j \in (i + 1)..applied[o] : ~IsConfig(topic[j])
              PROVE  Holds(topic, b, c, n, d)
          <6>1. i \in (b + 1)..n /\ \A j \in (i + 1)..n : ~IsConfig(topic[j])
            BY <2>4, <3>2, <5>2
          <6>2. QED
            BY <5>2, <6>1 DEF Holds
        <5>3. QED
          BY <2>3, <5>1, <5>2 DEF Holds
      <4>2. QED
        BY <4>1, <2>2, <2>3, <3>2
    <3>3. QED
      BY <3>1, <3>2
  <2>6. SinceStart(b, c)'
    BY <1>d, <1>a, <2>1, <2>4, <2>5 DEF SinceStart
  <2>7. QED
    BY <1>0, <1>e, <2>1, <2>6 DEF Aligned
<1>4. CASE Checkpoint
  <2>1. UNCHANGED <<topic, applied, view>> /\ saved'.view = view
        /\ applied["classifier"] = applied["region_filter"]
    BY <1>4, OperatorNames DEF Checkpoint
  <2>2. \E e \in Past(topic) : \A o \in Operators : view[o] = Restricted(e, o)
    BY <2>1, AlignedImplies DEF OneConfigPerOffset, Past
  <2>3. QED
    BY <1>0, <1>1, <2>1, <2>2 DEF Aligned
<1>5. ASSUME NEW n \in Nat, NEW e \in Past(topic'), \A o \in Operators : applied'[o] = n /\ view'[o] = Restricted(e, o)
      PROVE  SinceStart(n, e)'
  <2>1. Holds(topic', n, e, n, e)
    BY DEF Holds
  <2>2. QED
    BY <1>5, <2>1 DEF SinceStart
<1>6. CASE Restore
  <2>1. UNCHANGED <<topic, saved>> /\ view' = saved.view
        /\ \A o \in Operators : applied'[o] = Later(saved.applied, retained)
    BY <1>6 DEF Restore
  <2>2. Later(saved.applied, retained) \in Nat
    BY <1>a DEF Later
  <2>3. QED
    BY <1>0, <1>e, <1>5, <2>1, <2>2 DEF Aligned
<1>7. CASE Resubmit
  <2>1. UNCHANGED topic /\ view' = FreshView /\ saved'.view = FreshView
        /\ \A o \in Operators : applied'[o] = retained
    BY <1>7 DEF Resubmit
  <2>2. \A o \in Operators : FreshView[o] = Restricted(Defaults, o)
    BY DEF FreshView
  <2>3. QED
    BY <1>0, <1>a, <1>5, <2>1, <2>2, DefaultsPast DEF Aligned
<1>8. CASE UNCHANGED <<applied, view, saved>>
  BY <1>0, <1>8, <1>e, <1>1 DEF Aligned
<1>9. QED
  BY <1>2, <1>3, <1>4, <1>6, <1>7, <1>8
     DEF Next, Answer, vars, backend, flink, Post, Begin, BrokerAppend, LateAppend, Commit,
         Refuse, BackendRestart, ForeignMessage, Expire, Fail, Crash

\* At one offset of config.updates the classifier and the region filter hold
\* the two halves of one and the same message.
THEOREM OneConfigAtOneOffset == Spec => []OneConfigPerOffset
<1>1. Spec => []Aligned
  BY InitAligned, NextAligned, PTL DEF Spec
<1>2. QED
  BY <1>1, AlignedImplies, PTL
=============================================================================
