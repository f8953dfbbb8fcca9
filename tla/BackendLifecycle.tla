-------------------------- MODULE BackendLifecycle --------------------------
(***************************************************************************)
(* Start and stop of the backend: the lifespan of main.py, which ensures   *)
(* the topics (kafka_admin.py), starts the config producer                 *)
(* (kafka_producer.py) and the consumer (kafka_consumer.py), opens the     *)
(* pool on the archive (history_db.py), serves, and undoes it, while the   *)
(* broker and Postgres come and go.  The lifespan has no finally: an       *)
(* exception that leaves one of its awaits ends the process there.  The    *)
(* container's restart policy starts the process again.                    *)
(***************************************************************************)
EXTENDS Integers, FiniteSets, Sequences

CONSTANTS
  Enabled,         \* of "topics", "producer", "consumer", "history"
  Topics,          \* _project_topics
  AdminAttempts, HistoryAttempts,
  MaxDisturbances  \* bound on outages, stops, exceptions and crashes

ASSUME LifecycleAssumption ==
  /\ Enabled \subseteq {"topics", "producer", "consumer", "history"}
  /\ AdminAttempts \in Nat \ {0} /\ HistoryAttempts \in Nat
  /\ MaxDisturbances \in Nat

VARIABLES
  phase,      \* where the lifespan is
  escaped,    \* where an exception left it, for the process that ended last
  attempt,    \* of the current connection loop
  missing,    \* to_create, once the topics are listed
  producerStatus, consumerStatus,
  loop,       \* the task of _consume_loop: "none", "running", "dead"
  open,       \* clients that have been started and not stopped
  broker, postgres,   \* whether they can be reached
  existing,   \* topics the broker has
  disturbances

client == <<producerStatus, consumerStatus, loop, open>>
outside == <<broker, postgres, existing>>
lifecycle == <<phase, escaped, attempt, missing, client, outside>>

Disturbed == disturbances < MaxDisturbances /\ disturbances' = disturbances + 1

LifecycleInit ==
  /\ phase = "down" /\ escaped = "none" /\ attempt = 1 /\ missing = {}
  /\ producerStatus = "stopped" /\ consumerStatus = "stopped" /\ loop = "none" /\ open = {}
  /\ broker \in BOOLEAN /\ postgres \in BOOLEAN /\ existing = {}
  /\ disturbances = 0

-----------------------------------------------------------------------------
\* The lifespan goes on to its next await, or an exception leaves it.
Goes(next) == phase' = next /\ UNCHANGED escaped
Escapes == phase' = "down" /\ escaped' = phase

\* The container starts: a process with new state.
Boot ==
  /\ phase = "down"
  /\ phase' = "topics" /\ escaped' = "none" /\ attempt' = 1 /\ missing' = {}
  /\ producerStatus' = "stopped" /\ consumerStatus' = "stopped" /\ loop' = "none" /\ open' = {}
  /\ UNCHANGED <<outside, disturbances>>

\* ensure_topics returns.
TopicsEnsured == Goes("producer") /\ attempt' = 1

\* Faulty variant: the backend waits for the broker without end.
ConnectAdminForever ==
  /\ phase = "topics"
  /\ IF "topics" \notin Enabled
     THEN TopicsEnsured /\ UNCHANGED open
     ELSE broker /\ Goes("listing") /\ open' = open \union {"admin"} /\ UNCHANGED attempt
  /\ UNCHANGED <<missing, producerStatus, consumerStatus, loop, outside, disturbances>>

\* An attempt of _connect_admin; when all have failed, on without the topics.
\* Another error than KafkaConnectionError escapes, the client not closed.
ConnectAdmin ==
  /\ phase = "topics"
  /\ \/ /\ CASE "topics" \notin Enabled -> TopicsEnsured /\ UNCHANGED open
             [] "topics" \in Enabled /\ broker ->
                  Goes("listing") /\ open' = open \union {"admin"} /\ UNCHANGED attempt
             [] OTHER ->
                  /\ IF attempt < AdminAttempts THEN attempt' = attempt + 1 /\ Goes(phase) ELSE TopicsEnsured
                  /\ UNCHANGED open
        /\ UNCHANGED disturbances
     \/ /\ "topics" \in Enabled /\ Disturbed
        /\ Escapes /\ open' = open \union {"admin"} /\ UNCHANGED attempt
  /\ UNCHANGED <<missing, producerStatus, consumerStatus, loop, outside>>

\* Faulty variant: no finally closes the admin client.
AdminFailsOpen == Escapes /\ UNCHANGED <<attempt, open>>

\* An error other than TopicAlreadyExistsError leaves ensure_topics and the
\* lifespan, through the finally block.
AdminFails == Escapes /\ open' = open \ {"admin"} /\ UNCHANGED attempt

\* A request of the admin client fails when the broker has gone, or for a reason
\* of its own.
RequestFails == IF broker THEN Disturbed ELSE UNCHANGED disturbances

ListTopics ==
  /\ phase = "listing"
  /\ \/ RequestFails /\ AdminFails /\ UNCHANGED missing
     \/ /\ broker /\ UNCHANGED disturbances
        /\ IF Topics \subseteq existing
           THEN TopicsEnsured /\ open' = open \ {"admin"} /\ UNCHANGED missing
           ELSE Goes("creating") /\ missing' = Topics \ existing /\ UNCHANGED <<attempt, open>>
  /\ UNCHANGED <<producerStatus, consumerStatus, loop, outside>>

\* The broker creates the topics it does not have, also when it reports that
\* some already exist.
CreateTopics ==
  /\ phase = "creating"
  /\ \/ RequestFails /\ AdminFails /\ UNCHANGED existing
     \/ /\ broker /\ UNCHANGED disturbances
        /\ TopicsEnsured /\ open' = open \ {"admin"} /\ existing' = existing \union missing
  /\ missing' = {}
  /\ UNCHANGED <<producerStatus, consumerStatus, loop, broker, postgres>>

\* ConfigProducer.start, which keeps only KafkaConnectionError from escaping.
StartProducer ==
  /\ phase = "producer"
  /\ \/ /\ producerStatus' = IF "producer" \notin Enabled THEN "disabled"
                             ELSE IF broker THEN "available" ELSE "degraded"
        /\ open' = IF producerStatus' = "available" THEN open \union {"producer"} ELSE open
        /\ Goes("consumer") /\ UNCHANGED disturbances
     \/ /\ "producer" \in Enabled /\ Disturbed
        /\ Escapes /\ open' = open \union {"producer"} /\ UNCHANGED producerStatus
  /\ UNCHANGED <<attempt, missing, consumerStatus, loop, outside>>

\* Another error than KafkaConnectionError escapes start_consumer: of any await
\* of consumer.start(), or because a topic it subscribes to does not exist.
ConsumerEscapes ==
  /\ "consumer" \in Enabled
  /\ IF broker /\ ~(Topics \subseteq existing) THEN UNCHANGED disturbances ELSE Disturbed
  /\ Escapes /\ open' = open \union {"consumer"}
  /\ UNCHANGED <<attempt, consumerStatus, loop>>

\* start_consumer
StartConsumer ==
  /\ phase = "consumer"
  /\ \/ /\ consumerStatus' = IF "consumer" \notin Enabled THEN "disabled"
                             ELSE IF broker THEN "running" ELSE "degraded"
        /\ IF consumerStatus' = "running"
           THEN open' = open \union {"consumer"} /\ loop' = "running"
           ELSE UNCHANGED <<open, loop>>
        /\ Goes("archive") /\ attempt' = 1 /\ UNCHANGED disturbances
     \/ ConsumerEscapes
  /\ UNCHANGED <<missing, producerStatus, outside>>

\* An attempt of HistoryDB.connect, which catches every exception; with the last
\* one the backend serves.
ConnectArchive ==
  /\ phase = "archive"
  /\ IF "history" \in Enabled /\ ~postgres /\ attempt < HistoryAttempts
     THEN attempt' = attempt + 1 /\ Goes(phase) /\ UNCHANGED open
     ELSE /\ Goes("serving") /\ UNCHANGED attempt
          /\ open' = IF "history" \in Enabled /\ postgres THEN open \union {"pool"} ELSE open
  /\ UNCHANGED <<missing, producerStatus, consumerStatus, loop, outside, disturbances>>

\* A message raises what its handler does not catch: invalid UTF-8 in an alert
\* or aggregate, a JSON value that is no object.
LoopDies ==
  /\ loop = "running"
  /\ loop' = "dead"
  /\ UNCHANGED <<phase, escaped, attempt, missing, producerStatus, consumerStatus, open, outside, disturbances>>

\* The lifespan ends: _history.close, which may raise.
CloseArchive ==
  /\ phase = "serving" /\ Disturbed
  /\ \/ Goes("stopping") /\ open' = open \ {"pool"}
     \/ "pool" \in open /\ Escapes /\ UNCHANGED open
  /\ UNCHANGED <<attempt, missing, producerStatus, consumerStatus, loop, outside>>

\* stop_consumer awaits the cancelled task, then stops the client.  A task that
\* died before raises again what killed it, and consumer.stop() may raise.
StopConsumer ==
  /\ phase = "stopping"
  /\ \/ "consumer" \notin open /\ Goes("releasing") /\ UNCHANGED <<consumerStatus, loop, open, disturbances>>
     \/ /\ "consumer" \in open /\ consumerStatus' = "stopped"
        /\ \/ loop = "dead" /\ Escapes /\ UNCHANGED <<loop, open, disturbances>>
           \/ /\ loop # "dead" /\ loop' = "none"
              /\ \/ Goes("releasing") /\ open' = open \ {"consumer"} /\ UNCHANGED disturbances
                 \/ Disturbed /\ Escapes /\ UNCHANGED open
  /\ UNCHANGED <<attempt, missing, producerStatus, outside>>

\* ConfigProducer.stop, which may raise as well.
StopProducer ==
  /\ phase = "releasing"
  /\ \/ /\ Goes("down") /\ open' = open \ {"producer"}
        /\ producerStatus' = IF "producer" \in open THEN "stopped" ELSE producerStatus
        /\ UNCHANGED disturbances
     \/ "producer" \in open /\ Disturbed /\ Escapes /\ UNCHANGED <<open, producerStatus>>
  /\ UNCHANGED <<attempt, missing, consumerStatus, loop, outside>>

\* The process is killed.
Crash ==
  /\ phase # "down" /\ Disturbed
  /\ Goes("down") /\ open' = {} /\ loop' = "none"
  /\ UNCHANGED <<attempt, missing, producerStatus, consumerStatus, outside>>

\* The broker or Postgres comes or goes, or another service creates a topic.
Outage ==
  /\ Disturbed
  /\ \/ broker' = ~broker /\ UNCHANGED <<postgres, existing>>
     \/ postgres' = ~postgres /\ UNCHANGED <<broker, existing>>
     \/ \E t \in Topics \ existing : existing' = existing \union {t} /\ UNCHANGED <<broker, postgres>>
  /\ UNCHANGED <<phase, escaped, attempt, missing, client>>

StartUp ==
  \/ Boot \/ ConnectAdmin \/ ListTopics \/ CreateTopics
  \/ StartProducer \/ StartConsumer \/ ConnectArchive
ShutDown == CloseArchive \/ StopConsumer \/ StopProducer

-----------------------------------------------------------------------------
\* GET /health
health_check == IF "degraded" \in {producerStatus, consumerStatus} THEN "degraded" ELSE "ok"

\* Where an exception may leave a client without its stop: in its own start or
\* stop, and in those of what the lifespan starts behind it.  The attempts to
\* open the pool let nothing out, and the finally closes the admin client.
LeftOpen ==
  [admin    |-> {"topics"},
   producer |-> {"producer", "consumer", "serving", "stopping", "releasing"},
   consumer |-> {"consumer", "serving", "stopping"},
   pool     |-> {"serving"}]

\* A process that ends has stopped every client it started, unless an exception
\* cut its start or its stop short: then it leaves the clients LeftOpen says, a
\* producer that is not flushed and a consumer that stays in its group among
\* them.  A process that was stopped in order, or failed to ensure its topics
\* once the admin client was connected, leaves none.
ShutdownReleases == phase = "down" => \A c \in open : escaped \in LeftOpen[c]

\* While the backend serves, the status in the body of GET /health is "ok" only
\* if every enabled Kafka client was started, whenever the broker went away in
\* between; a consume loop that died still passes for ok.
HealthMeansStarted ==
  phase = "serving" /\ health_check = "ok" =>
    /\ Enabled \intersect {"producer", "consumer"} \subseteq open
    /\ "consumer" \in Enabled => loop \in {"running", "dead"}
=============================================================================
