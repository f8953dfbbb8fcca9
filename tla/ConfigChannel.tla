--------------------------- MODULE ConfigChannel ---------------------------
(***************************************************************************)
(* The settings of the pipeline, from POST /config to Flink's broadcast    *)
(* state.                                                                  *)
(*                                                                         *)
(* update_config (routers/config.py) merges a partial payload onto the     *)
(* backend's in-memory settings under a lock, publishes the merged         *)
(* settings on config.updates and commits them once the broker has         *)
(* acknowledged.  In the Flink job two operators read that topic: the      *)
(* classifier keeps the thresholds and the region filter the area and the  *)
(* timespan, each in its own broadcast state, restored from the last       *)
(* checkpoint after a failure.  Parallelism is 1 (docker-compose.yml).     *)
(*                                                                         *)
(* Settings are functions on Fields and a payload is one on the fields it  *)
(* carries; Unset is the value of an absent area or timespan.              *)
(***************************************************************************)
EXTENDS Integers, Sequences, FiniteSets

CONSTANTS
  Requests,      \* POST /config requests
  Payloads,      \* partial settings they may carry
  Settings,      \* every value the merged settings may take
  Defaults,      \* settings.py and classification.py agree on these
  Unset, NoOne,
  Malformed,     \* a message deserialize_config rejects
  NonObject,     \* JSON that is not an object: d.get raises AttributeError
  Foreign,       \* what others than the backend may put on config.updates
  MaxExtra,      \* bound on foreign and duplicate messages
  Faults,        \* the kinds of fault that may happen
  MaxFaults      \* bound on their number

Fields == {"warn", "danger", "area", "timespan"}

\* What each operator keeps of a config.updates message.
FieldsOf == [classifier |-> {"warn", "danger"}, region_filter |-> {"area", "timespan"}]
Operators == DOMAIN FieldsOf
Restricted(config, o) == [f \in FieldsOf[o] |-> config[f]]

Ordered(config) == config["warn"] < config["danger"]

\* An omitted field keeps its value, and so does one that is null.
Merge(config, p) == [f \in Fields |-> IF f \in DOMAIN p THEN p[f] ELSE config[f]]

ASSUME ConfigAssumption ==
  /\ \A c \in Settings : DOMAIN c = Fields /\ c["warn"] \in Int /\ c["danger"] \in Int
  /\ \A c \in Settings, p \in Payloads : Merge(c, p) \in Settings
  /\ Defaults \in Settings /\ Ordered(Defaults)
  /\ \A p \in Payloads : DOMAIN p \subseteq Fields
  /\ {Malformed, NonObject} \intersect Settings = {}
  /\ Foreign \subseteq Settings \union {Malformed, NonObject}
  /\ NoOne \notin Requests
  /\ Faults \subseteq {"publish", "backend", "job", "retention"}
  /\ MaxExtra \in Nat /\ MaxFaults \in Nat

VARIABLES
  active,        \* _active_config
  producerUp,    \* the config producer connected at startup
  lock,          \* holder of _config_lock, or NoOne
  status,        \* where each request is, or how it was answered
  payload,       \* what it carries
  merged,        \* its local variable updated
  appended,      \* the broker has its message
  accepted,      \* history: the requests answered 202 since the last restart
  topic,         \* config.updates
  retained,      \* its messages up to this offset have expired
  jobUp,         \* the Flink job is running
  applied,       \* offset each operator has applied
  view,          \* its broadcast state
  saved,         \* the last checkpoint
  disturbed,     \* history: something happened after which they may disagree
  faults         \* faults so far

backend == <<active, producerUp, lock, status, payload, merged, appended, accepted>>
flink == <<jobUp, applied, view, saved>>
vars == <<backend, topic, retained, flink, disturbed, faults>>

\* One more fault of a kind, within the bound.
Fault(kind) == kind \in Faults /\ faults < MaxFaults /\ faults' = faults + 1

IsConfig(m) == m \notin {Malformed, NonObject}

\* Messages beyond the first of each request: duplicates and foreign ones.
Extra == Len(topic) - Cardinality({r \in Requests : appended[r]})

FreshView == [o \in Operators |-> Restricted(Defaults, o)]

-----------------------------------------------------------------------------
Init ==
  /\ active = Defaults /\ producerUp \in BOOLEAN /\ lock = NoOne
  /\ status = [r \in Requests |-> "new"]
  /\ payload = [r \in Requests |-> <<>>]
  /\ merged = [r \in Requests |-> Defaults]
  /\ appended = [r \in Requests |-> FALSE]
  /\ accepted = <<>>
  /\ topic = <<>> /\ retained = 0
  /\ jobUp = TRUE
  /\ applied = [o \in Operators |-> 0]
  /\ view = FreshView
  /\ saved = [applied |-> 0, view |-> FreshView]
  /\ disturbed = FALSE
  /\ faults = 0

\* The payload's own validator compares the thresholds when both are there.
PayloadOrdered(p) == {"warn", "danger"} \subseteq DOMAIN p => Ordered(p)

\* A request arrives: 422 at once, or it queues for the lock.
Post(r, p) ==
  /\ status[r] = "new"
  /\ payload' = [payload EXCEPT ![r] = p]
  /\ status' = [status EXCEPT ![r] = IF PayloadOrdered(p) THEN "waiting" ELSE "invalid"]
  /\ UNCHANGED <<active, producerUp, lock, merged, appended, accepted,
                 topic, retained, flink, disturbed, faults>>

\* Faulty variant: no lock around merge, publish and commit.
BeginUnlocked(r) ==
  /\ status[r] = "waiting"
  /\ LET updated == Merge(active, payload[r]) IN
       IF ~Ordered(updated) \/ ~producerUp
       THEN /\ status' = [status EXCEPT ![r] = IF Ordered(updated) THEN "refused" ELSE "invalid"]
            /\ UNCHANGED <<lock, merged>>
       ELSE /\ status' = [status EXCEPT ![r] = "publishing"]
            /\ merged' = [merged EXCEPT ![r] = updated]
            /\ lock' = r
  /\ UNCHANGED <<active, producerUp, payload, appended, accepted,
                 topic, retained, flink, disturbed, faults>>

\* Faulty variant: the merged thresholds are not compared.
BeginUnchecked(r) ==
  /\ status[r] = "waiting" /\ lock = NoOne
  /\ IF ~producerUp
     THEN /\ status' = [status EXCEPT ![r] = "refused"]
          /\ UNCHANGED <<lock, merged>>
     ELSE /\ status' = [status EXCEPT ![r] = "publishing"]
          /\ merged' = [merged EXCEPT ![r] = Merge(active, payload[r])]
          /\ lock' = r
  /\ UNCHANGED <<active, producerUp, payload, appended, accepted,
                 topic, retained, flink, disturbed, faults>>

\* Faulty variant: the settings are committed before they are published.
BeginCommitted(r) ==
  /\ status[r] = "waiting" /\ lock = NoOne
  /\ LET updated == Merge(active, payload[r]) IN
       IF ~Ordered(updated) \/ ~producerUp
       THEN /\ status' = [status EXCEPT ![r] = IF Ordered(updated) THEN "refused" ELSE "invalid"]
            /\ UNCHANGED <<active, lock, merged>>
       ELSE /\ status' = [status EXCEPT ![r] = "publishing"]
            /\ merged' = [merged EXCEPT ![r] = updated]
            /\ active' = updated /\ lock' = r
  /\ UNCHANGED <<producerUp, payload, appended, accepted,
                 topic, retained, flink, disturbed, faults>>

\* The lock is taken and the payload merged.  Unordered thresholds (422) and a
\* producer that never connected (503) release it in the same step; otherwise
\* the request holds it while it awaits send_and_wait.
Begin(r) ==
  /\ status[r] = "waiting" /\ lock = NoOne
  /\ LET updated == Merge(active, payload[r]) IN
       IF ~Ordered(updated) \/ ~producerUp
       THEN /\ status' = [status EXCEPT ![r] = IF Ordered(updated) THEN "refused" ELSE "invalid"]
            /\ UNCHANGED <<lock, merged>>
       ELSE /\ status' = [status EXCEPT ![r] = "publishing"]
            /\ merged' = [merged EXCEPT ![r] = updated]
            /\ lock' = r
  /\ UNCHANGED <<active, producerUp, payload, appended, accepted,
                 topic, retained, flink, disturbed, faults>>

\* The broker appends the message; a retry whose first attempt lost its
\* acknowledgement appends it again.
BrokerAppend(r) ==
  /\ status[r] = "publishing"
  /\ appended[r] => Extra < MaxExtra
  /\ topic' = Append(topic, merged[r])
  /\ appended' = [appended EXCEPT ![r] = TRUE]
  /\ UNCHANGED <<active, producerUp, lock, status, payload, merged, accepted,
                 retained, flink, disturbed, faults>>

\* Faulty variant: send without waiting for the acknowledgement.
CommitUnacknowledged(r) ==
  /\ status[r] = "publishing"
  /\ active' = merged[r]
  /\ status' = [status EXCEPT ![r] = "accepted"]
  /\ accepted' = Append(accepted, r)
  /\ lock' = NoOne
  /\ UNCHANGED <<producerUp, payload, merged, appended,
                 topic, retained, flink, disturbed, faults>>

\* The acknowledgement arrives: commit, answer 202, release the lock.
Commit(r) ==
  /\ status[r] = "publishing" /\ appended[r]
  /\ active' = merged[r]
  /\ status' = [status EXCEPT ![r] = "accepted"]
  /\ accepted' = Append(accepted, r)
  /\ lock' = NoOne
  /\ UNCHANGED <<producerUp, payload, merged, appended,
                 topic, retained, flink, disturbed, faults>>

\* Faulty variant: the error path does not release the lock.
RefuseHoldingLock(r) ==
  /\ status[r] = "publishing" /\ Fault("publish")
  /\ status' = [status EXCEPT ![r] = "failed"]
  /\ disturbed' = (disturbed \/ appended[r])
  /\ UNCHANGED <<active, producerUp, lock, payload, merged, appended, accepted,
                 topic, retained, flink>>

\* send_and_wait raises a KafkaError, a timeout among them, so the broker may
\* have the message all the same: 503, and the settings stay as they are.
Refuse(r) ==
  /\ status[r] = "publishing" /\ Fault("publish")
  /\ status' = [status EXCEPT ![r] = "failed"]
  /\ lock' = NoOne
  /\ disturbed' = (disturbed \/ appended[r])
  /\ UNCHANGED <<active, producerUp, payload, merged, appended, accepted,
                 topic, retained, flink>>

\* The message of a request that is over was still on its way: the broker
\* appends it after the 503, or after the backend that sent it is gone.
LateAppend(r) ==
  /\ status[r] \in {"failed", "severed"}
  /\ appended[r] => Extra < MaxExtra
  /\ topic' = Append(topic, merged[r])
  /\ appended' = [appended EXCEPT ![r] = TRUE]
  /\ disturbed' = TRUE
  /\ UNCHANGED <<active, producerUp, lock, status, payload, merged, accepted,
                 retained, flink, faults>>

\* The backend restarts: the settings are the defaults again, requests that
\* were under way get no answer, and the producer connects or does not.
BackendRestart ==
  /\ Fault("backend")
  /\ active' = Defaults /\ lock' = NoOne /\ accepted' = <<>>
  /\ producerUp' \in BOOLEAN
  /\ status' = [r \in Requests |-> CASE status[r] = "waiting" -> "aborted"
                                    [] status[r] = "publishing" -> "severed"
                                    [] OTHER -> status[r]]
  /\ disturbed' = TRUE
  /\ UNCHANGED <<payload, merged, appended, topic, retained, flink>>

\* Somebody else writes to config.updates.
ForeignMessage(m) ==
  /\ Extra < MaxExtra
  /\ topic' = Append(topic, m)
  /\ disturbed' = (disturbed \/ IsConfig(m))
  /\ UNCHANGED <<backend, retained, flink, faults>>

\* Retention deletes the oldest message, long after a running job has read it.
Expire ==
  /\ Fault("retention") /\ retained < Len(topic)
  /\ jobUp => \A o \in Operators : applied[o] > retained
  /\ retained' = retained + 1
  /\ disturbed' = (disturbed \/ \A i \in (retained + 2)..Len(topic) : ~IsConfig(topic[i]))
  /\ UNCHANGED <<backend, topic, flink>>
-----------------------------------------------------------------------------
Following(o) == topic[applied[o] + 1]

\* Faulty variant: fields a message leaves out keep their old value.
KeptFields(m, o) ==
  [f \in FieldsOf[o] |-> IF m[f] = Unset THEN view[o][f] ELSE m[f]]

\* process_broadcast_element: an absent area or timespan clears the old one.
Stored(m, o) == Restricted(m, o)

\* Faulty variant: a malformed message is not caught.
ApplyUncaught(o) ==
  /\ jobUp /\ applied[o] < Len(topic) /\ IsConfig(Following(o))
  /\ applied' = [applied EXCEPT ![o] = @ + 1]
  /\ view' = [view EXCEPT ![o] = Stored(Following(o), o)]
  /\ UNCHANGED <<backend, topic, retained, jobUp, saved, disturbed, faults>>

\* An operator handles the next message: it stores valid settings and skips
\* what deserialize_config rejects with a KeyError, ValueError or TypeError.
Apply(o) ==
  /\ jobUp /\ applied[o] < Len(topic) /\ Following(o) # NonObject
  /\ applied' = [applied EXCEPT ![o] = @ + 1]
  /\ view' = IF IsConfig(Following(o)) THEN [view EXCEPT ![o] = Stored(Following(o), o)] ELSE view
  /\ UNCHANGED <<backend, topic, retained, jobUp, saved, disturbed, faults>>

\* The AttributeError of a message that is not an object fails the task.
Fail(o) ==
  /\ jobUp /\ applied[o] < Len(topic) /\ Following(o) = NonObject
  /\ jobUp' = FALSE
  /\ UNCHANGED <<backend, topic, retained, applied, view, saved, disturbed, faults>>

\* A checkpoint: aligned barriers save both states at one offset of the topic.
Checkpoint ==
  /\ jobUp
  /\ \E n \in Nat \intersect {applied[o] : o \in Operators} :
       /\ \A o \in Operators : applied[o] = n
       /\ saved.applied < n
       /\ saved' = [applied |-> n, view |-> view]
  /\ UNCHANGED <<backend, topic, retained, jobUp, applied, view, disturbed, faults>>

\* A task, the TaskManager or the JobManager fails, or the job is cancelled.
Crash ==
  /\ jobUp /\ Fault("job")
  /\ jobUp' = FALSE
  /\ UNCHANGED <<backend, topic, retained, applied, view, saved, disturbed>>

Later(m, n) == IF m > n THEN m ELSE n

\* Flink restarts the job from its last checkpoint.
Restore ==
  /\ ~jobUp
  /\ jobUp' = TRUE
  /\ applied' = [o \in Operators |-> Later(saved.applied, retained)]
  /\ view' = saved.view
  /\ UNCHANGED <<backend, topic, retained, saved, disturbed, faults>>

\* The job is submitted anew: no state, and config.updates from the earliest
\* message it still has.
Resubmit ==
  /\ ~jobUp
  /\ jobUp' = TRUE
  /\ applied' = [o \in Operators |-> retained]
  /\ view' = FreshView
  /\ saved' = [applied |-> retained, view |-> FreshView]
  /\ UNCHANGED <<backend, topic, retained, disturbed, faults>>

-----------------------------------------------------------------------------
Answer(r) == BrokerAppend(r) \/ Commit(r) \/ Refuse(r)

Next ==
  \/ \E r \in Requests : (\E p \in Payloads : Post(r, p)) \/ Begin(r) \/ Answer(r) \/ LateAppend(r)
  \/ BackendRestart
  \/ (\E m \in Foreign : ForeignMessage(m)) \/ Expire
  \/ (\E o \in Operators : Apply(o) \/ Fail(o)) \/ Checkpoint \/ Crash \/ Restore \/ Resubmit

Spec == Init /\ [][Next]_vars

\* The event loop serves the requests, the broker or its timeout answers the
\* producer, and Flink keeps restarting and running the job.
FairSpec ==
  /\ Spec
  /\ WF_vars(\E r \in Requests : Begin(r) \/ Answer(r))
  /\ WF_vars(\E o \in Operators : Apply(o))
  /\ WF_vars(Restore)

-----------------------------------------------------------------------------
\* Answered 422, 503 unsent, 503 after send_and_wait, 202, or cut off by a
\* restart before or after the message was sent.
Answered == {"invalid", "refused", "failed", "accepted", "aborted", "severed"}

\* Types; a request holds the lock exactly while it publishes, and Flink never
\* claims to have read past the end of the topic.
TypeOK ==
  /\ active \in Settings /\ producerUp \in BOOLEAN /\ lock \in Requests \union {NoOne}
  /\ status \in [Requests -> {"new", "waiting", "publishing"} \union Answered]
  /\ payload \in [Requests -> Payloads \union {<<>>}]
  /\ merged \in [Requests -> Settings] /\ appended \in [Requests -> BOOLEAN]
  /\ accepted \in Seq(Requests)
  /\ topic \in Seq(Settings \union {Malformed, NonObject})
  /\ retained \in Nat /\ retained <= Len(topic)
  /\ jobUp \in BOOLEAN /\ disturbed \in BOOLEAN
  /\ applied \in [Operators -> Nat]
  /\ saved.applied \in Nat
  /\ \A o \in Operators : applied[o] <= Len(topic) /\ saved.applied <= Len(topic)
  /\ \A r \in Requests : status[r] = "publishing" <=> lock = r

\* Warn stays below danger in the backend and in the classifier, also when two
\* partial updates that are valid on their own meet (config.py:180-181).
ThresholdsOrdered == Ordered(active) /\ Ordered(view["classifier"])

\* Concurrent partial updates do not overwrite each other: each setting is the
\* one the last accepted request that carried it asked for (config.py:163-165).
NoLostUpdate ==
  \A f \in Fields :
    LET Carriers == {i \in 1..Len(accepted) : f \in DOMAIN payload[accepted[i]]} IN
    \/ Carriers = {} /\ active[f] = Defaults[f]
    \/ \E i \in Carriers : /\ \A j \in Carriers : j <= i
                           /\ active[f] = payload[accepted[i]][f]

\* Publish before commit: what a 202 answered for is on the topic.
AcceptedIsPublished ==
  \A r \in Requests : status[r] = "accepted" => \E i \in 1..Len(topic) : topic[i] = merged[r]

\* No request is under way, so the backend's settings are not about to change.
Quiet == lock = NoOne

\* The backend and an operator that has read the whole topic hold the same
\* settings (README.md:252-255, "never silently disagree").
Agreement ==
  Quiet => \A o \in Operators : applied[o] = Len(topic) => view[o] = Restricted(active, o)

\* They do agree, through crashes, replays, duplicates and skipped messages, as
\* long as no publish fails with its message on the topic, the backend keeps
\* running, nobody else writes settings, and the latest settings are retained.
UndisturbedAgreement == ~disturbed => Agreement

\* At one offset of the topic the two operators hold two halves of one and the
\* same message, whatever was skipped, cleared or restored from a checkpoint.
OneConfigPerOffset ==
  applied["classifier"] = applied["region_filter"] =>
    \E config \in {Defaults} \union {topic[i] : i \in 1..Len(topic)} :
      IsConfig(config) /\ \A o \in Operators : view[o] = Restricted(config, o)

\* Every request that reached the handler gets its answer, the lock being
\* released on every path, or loses its connection to a restart.
EveryRequestAnswered ==
  \A r \in Requests : status[r] = "waiting" ~> status[r] \in Answered

\* config.updates is always read to its end (classifier.py:82-88: no malformed
\* message crash-loops the job).
EveryMessageRead == <>[](jobUp /\ \A o \in Operators : applied[o] = Len(topic))

\* Nothing else stops the job for good: through crashes, restores, resubmissions
\* and expired or malformed messages config.updates is read to its end, unless
\* somebody wrote JSON that is not an object.
ReadUnlessPoisoned == EveryMessageRead \/ <>(\E i \in 1..Len(topic) : topic[i] = NonObject)
=============================================================================
