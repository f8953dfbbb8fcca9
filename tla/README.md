# Radiation tracking: TLA+ models, checks and proofs

This directory is the verification project of the radiation-tracking pipeline.
Paths below are relative to the repository root (`src/` in `PROJECT.json`).

- [1. The system](#1-the-system)
- [2. Modules and how they correspond to the code](#2-modules-and-how-they-correspond-to-the-code)
- [3. What the runs check](#3-what-the-runs-check)
- [4. Fairness](#4-fairness)
- [5. What is proved](#5-what-is-proved)
- [6. Where code and documentation disagree](#6-where-code-and-documentation-disagree)
- [7. What is not modelled](#7-what-is-not-modelled)
- [8. Plan](#8-plan)

## 1. The system

Readings flow from a CSV file to a map in the browser:

    data-provider --radiation.raw--> Flink job --radiation.clean------> backend --/ws/stream--> frontend
                                      ^    |------radiation.alerts----->   |  ^                  |
                                      |    |------radiation.aggregated->   |  |                  |
                                      |                      |             |  +--GET /recent-----+
                                      |                      v             |  +--POST /config----+
                                      |            aggregated_sink -> Postgres -> GET /history
                                      +------config.updates<---------------+

Every Kafka topic has one partition and the job runs with parallelism 1
(`docker-compose.yml:27-63`), so a topic is one log and an operator one task.

| Component | State | Operations | Interacts through |
|---|---|---|---|
| data-provider (`producer.py`, `csv_reader.py`, `mapper.py`, `sensor_classifier.py`, `metrics.py`) | position in the CSV, a sorted batch, a box per sensor, three counters, the Kafka client's queue | read a batch, sort it by upload time, map, label, send, retry, flush | appends to `radiation.raw` |
| Flink cleaning (`radiation_tracking_job.py`, `sensor_dedup.py`, filters) | keyed map of seen readings with TTL | parse, drop, deduplicate | reads `radiation.raw` |
| Flink settings (`classifier.py`, `region_filter.py`) | broadcast state: thresholds; area and timespan | apply a config message, tag or drop an event | reads `config.updates`; writes `radiation.clean` |
| Flink alerting (`alert_window.py`, `alert_detection.py`, `alert_dedup.py`, `alert_region_join.py`, `trend_detector.py`) | sliding windows, last alert per sensor, latest blob and series per cell | fire a window, suppress, enrich, detect a trend | writes `radiation.alerts` |
| Flink aggregation (`geo_window.py`, `geo_aggregation.py`, `rolling_stats.py`) | tumbling windows, rolling series per cell | fire, enrich | writes `radiation.aggregated` |
| Backend settings (`routers/config.py`, `kafka_producer.py`) | `_active_config`, `_config_lock`, the producer | `POST /config`: merge, publish, commit | writes `config.updates` |
| Backend live stream (`broadcaster.py`, `routers/stream.py`, `kafka_consumer.py`) | subscribers with two bounded lanes each, one send and one receive task per socket | consume, publish, subscribe, drain, send, tear down | reads the three output topics; `/ws/stream` |
| Ring buffer (`ring_buffer.py`, `routers/recent.py`) | the last N clean events with sequence numbers | append, recent, page | snapshot of a new socket; `GET /recent` |
| Backend lifecycle (`main.py`, `kafka_admin.py`, `kafka_consumer.py`, `kafka_producer.py`, `history_db.py`, `health.py`) | the clients that are open, status of the consumer and the producer, the consume task | create topics, start, serve, die, stop, report | the process and its container |
| aggregated_sink (`consumer.py`, `db.py`) | committed offset, open transaction, the table | poll, upsert in pages, commit rows, commit offset | reads `radiation.aggregated`; Postgres |
| History API (`history_db.py`, `routers/history.py`) | connection pool | read-only queries | Postgres |
| Frontend (`App.jsx`) | markers, blobs, alerts, flush buffers, the view, the socket | connect, subscribe, buffer, flush, render, filter | `/ws/stream`, `POST /config`, `GET /history` |
| Scripts, metrics, validators | none that lasts | provision, demonstrate, count, validate | Kafka, Flink REST |

The behaviours that are hard here:

- **interleaving**: the backend is one asyncio event loop; what matters is what
  may run between two `await`s of a session, of the consume loop and of
  `POST /config`;
- **crashes and replays**: every hop is at-least-once; offsets, checkpoints,
  rows and in-memory settings are saved at different moments;
- **ambiguous outcomes**: a publish whose acknowledgement is lost, an offset
  commit whose effect is unknown;
- **bounded buffers** that shed on purpose and must shed the right thing;
- **two copies of the settings**, in the backend's memory and in Flink's state,
  that are joined by nothing but a log with limited retention;
- **one bad message** that could stop a component for good.

What makes each component correct, in a line: the sink archives every record it
acknowledged, newest last, whole batches at a time; a live session delivers or
accounts for every message, in order per key, and never sleeps over one; a walk
over `GET /recent` misses nothing that is still there; concurrent settings
updates are not lost and both holders of the settings agree; an alert is
published for every sustained burst and no sooner than the cooldown allows; a
cell's windows become one blob each, scored against the windows before, whatever
is replayed; a resumed replay of the CSV leaves no row behind; a backend comes up
without its broker, says so, and stops what it started unless an exception cuts it short;
a map shows the last it received under its own filter and finds its way back to a
backend that returns.
`PROJECT.json` lists the hazards at their lines.

## 2. Modules and how they correspond to the code

| Module | Models | Instantiated by |
|---|---|---|
| `AggregatedSink` | `aggregated_sink/` | `MCAggregatedSink` |
| `Archive` | what readers of the archive are promised, abstractly | instantiated by `AggregatedSink` |
| `AggregatedSinkProofs` | its theorems, the refinement among them | |
| `Subscriber` | class `Subscriber`, as operators on a record | extended by `LiveStream` |
| `RingBuffer` | `ring_buffer.py`, as operators on a sequence | extended by `LiveStream`, `RecentFeed` |
| `LiveStream` | `Broadcaster`, the consume loop, `/ws/stream` sessions | `MCLiveStream` |
| `LiveStreamProofs` | its theorems | |
| `RecentFeed` | `GET /recent` walks over the ring buffer | `MCRecentFeed` |
| `RecentFeedProofs` | its theorems | |
| `ConfigChannel` | `POST /config`, `config.updates`, the two broadcast operators, checkpoints | `MCConfigChannel` |
| `ConfigChannelProofs` | its theorems | |
| `SensorAlerts` | the Flink job's path from `radiation.raw` to `radiation.clean` and `radiation.alerts`, for one sensor | `MCSensorAlerts` |
| `SensorAlertsProofs` | its theorems | |
| `CellStats` | the job's path from the filtered stream to `radiation.aggregated` and the trend and region parts of `radiation.alerts`, for one geohash cell | `MCCellStats` |
| `CellStatsProofs` | its theorems | |
| `DataProvider` | `data-provider/` up to `radiation.raw` | `MCDataProvider` |
| `DataProviderProofs` | its theorems | |
| `BackendLifecycle` | the lifespan of `main.py` and what it starts and stops | extended by `MapClient` |
| `MapClient` | the browser's socket, view and buffers (`App.jsx`, `view_filter.py`) at such a backend | `MCMapClient` |
| `MapClientProofs` | theorems about both | |

Every `PROJECT.json` map entry names the lines a definition stands for. A
definition whose comment begins with "Faulty variant" is not part of any
specification: it is the mutation of the definition after it that a property is
shown to catch.

**AggregatedSink.** `log` is the topic: a message is the key of the row it makes
(the table's primary key, geohash and window start), or one `json.loads` and
`record_to_row` reject, or one only Postgres rejects. A row is identified by its
record's offset, so `db` and `txn` map a key to an offset. `Poll`,
`ExecutePage`, `CommitRows` and `CommitOffset` are the suspension points of
`process_batch`: between any two of them the process may end (`Crash`), and
`Start` resumes at the committed offset with the table as committed.
`RejectPage` is the exception of a statement Postgres refuses; that a repeated
key is such a statement is how `ON CONFLICT DO UPDATE` behaves. `Archived` maps
this state onto `Archive`: the table as readers see it, the committed offset, and
as `applied` the end of the batch whose rows are committed but whose offset is
not. Polling, executing a statement and rolling back are stutters there, `CommitRows`
is `Apply`, `CommitOffset` is `Acknowledge`, and a crash in between is `Forget`.

**Subscriber, RingBuffer, LiveStream.** A message is its type, coalescing key,
the place a view filter looks at, and its number in consumption order. An
action of `LiveStream` is the code between two suspension points: `Consume` is
one message of `_consume_loop` with the whole synchronous fan-out; `Connect` is
accept, subscribe and the snapshot of the ring; `Send`, `AwaitReady`, `Wake`,
`Drain` are the awaits of `_send_loop`; `Subscribe` is a frame the receive task
handles, `Teardown` the end of a session however noticed, and `Leave` the
client's. `Offer`, `Drained`, `Appended` and `Page` are the methods of the same
names.

**RecentFeed.** One client walks backwards with the cursor of its last response
while the consume loop appends and evicts and the backend may restart (which
empties the buffer and restarts its numbers).

**ConfigChannel.** A request is `new`, `waiting` for `_config_lock`,
`publishing` (it awaits `send_and_wait` holding the lock) or answered. `Begin`
is everything `update_config` does before the await, `BrokerAppend` what the
broker does meanwhile (twice, when the client retries a lost acknowledgement),
`Commit` and `Refuse` the two ways the await ends; after a failed publish, or a
restart during one, the message may still arrive (`LateAppend`). `Apply(o)` is
`process_broadcast_element` of the classifier or the region filter, at its own
offset of the topic; `Fail` the exception neither catches. `Checkpoint`,
`Crash`, `Restore` and `Resubmit` are Flink's, `Expire` the broker's retention.
`disturbed` is a history variable: it becomes true at the four events after
which the copies may disagree (a refused publish that is on the topic, then or
later, a backend restart, somebody else's settings, the last settings expiring).

**SensorAlerts.** `Accept` and `Drop` are one record's way through
`_parse_record`, the filters, `SensorDedupOperator`, the classifier, the clean
sink and into the sliding windows; `EmitWatermark` is the periodic watermark of
`build_dict_watermark_strategy`; `Fire` is `SustainedHighWindowFunction`,
`detect_sustained_high` and `AlertCooldownOperator` for the earliest window the
watermark has passed. `Configure` changes the danger threshold. A window is its
end and counts DANGER readings only, all `detect_sustained_high` looks at.
`Checkpoint` saves every operator's state at one offset after the sinks have
flushed; `Restore` returns to it, without watermark, which Flink does not save.
`Junk` is a record that the parser or a filter drops, `Poison` one whose
`captured_at` or `uploaded_at` is no string: it raises what neither the timestamp
assigner nor the parser catches, so that no step but `Restore` is left;
`Expire` drops a seen key or the cooldown state, whose lifetime runs on the wall
clock while everything else runs on `captured_at`. Sinks hold what the broker
has not acknowledged in `cleanBuffer` and `alertBuffer`, which a failure loses.

**CellStats.** The input is the stream behind the region filter. `Process`
puts a reading into its tumbling window, unless the watermark has passed it;
`Fire` is the earliest window that is due, in the order of the job's graph:
`aggregate_bucket`, `RollingStatsOperator` (`Roll`), which scores the blob
against the windows before it, and `TrendDetectorOperator` (`Trend`).
`JoinAlert` is an alert that meets the cell's latest blob. Averages are integers
in units of `1/Scale`, to which a z-score is rounded before it is compared; the
comparison is of squares, so that no root is taken. The properties know the windows of the whole stream by their place
among the occupied ones (`Rank`, `UpTo`), as a window without readings makes no
blob. Checkpoints, failures and state expiry are as in `SensorAlerts`.

**DataProvider.** `ReadBatch` is `stream_rows` up to the sort of a batch: `Chunk`
is the rows the batch collects, `Sorted` the order `batch.sort` gives them, which
is stable and so has one value;
`Discard` and `Send` are the body of the loop in `run` for the batch's next row.
`Transmit`, `Acknowledge` and `Fail` are the sender thread of kafka-python with
several requests in flight: a request may be lost, or only its answer, and a
retried record goes back to the head of the queue. `Leave` and `Flush` are the
`finally` block, `Kill` a signal that runs none of it. `Run(skip_rows)` starts a
run, at any row. `complete` is the row up to which every batch has been handled;
`gap` records that a run was killed or skipped rows beyond it.

**BackendLifecycle, MapClient.** The phases of the lifespan are its awaits: an
attempt to connect the admin client (`ConnectAdmin`), `ListTopics`,
`CreateTopics`, `StartProducer`, `StartConsumer`, an attempt to open the pool
(`ConnectArchive`), and in reverse `CloseArchive`, `StopConsumer`,
`StopProducer`. Broker and Postgres come and go between them (`Outage`).
`lifespan` has no `finally`: an exception in any of its awaits (`Escapes`) ends
the process, with whatever is open (`open`) left as it is. The starts let out every
error but `KafkaConnectionError`, which they turn into "degraded";
`HistoryDB.connect` lets out none, and the stops let out all. `escaped` remembers
the phase. `LoopDies` is a message that raises out of `_consume_loop`;
`StopConsumer` then raises it again and nothing behind it is stopped. In the browser, `Open`,
`Receive` and `Close` are the socket's callbacks, `SendView` the effect on a
changed `subscribeMessage`, `Flush` the timer and `Render` React running an
updater, later and apart from the flush. `BackendStep` composes the two: a
backend that stops serving closes the sockets. A view is a range of places
(one number for two coordinates) and a range of times, each possibly absent.
A message's time is the number its text reads, and `zoned` says whether the text
names a zone: Flink's window bounds do, `captured_at` does not. The server reads
a text without zone as UTC (`matches_message`, from `_as_utc`), the browser, whose
clock is `Offset` ahead, as its own time (`inTimespan`, from `new Date`), and the
bounds travel in UTC (`SubscribeMessage`). `Rejected` are the frames `ViewFilter`
refuses, those whose bounds are not in ascending order.

## 3. What the runs check

`cd tla && tlc -config <cfg> <module>`; the runs and their properties are in
`PROJECT.json`. Distinct states in parentheses.

| Run | Question | Bounds |
|---|---|---|
| `sink_archive` (196k) | Nothing acknowledged is missing, the sink implements `Archive` (whole runs, newest wins, acknowledged after applied), and only a rejected statement stops it | 2 keys, 5 messages, batches of 3 in statements of 2, 2 crashes |
| `sink_refire` | violation: a key repeated in a statement stops the archive for good | 2 keys |
| `stream_session` (1.5M) | The buffers shed only what is oldest, order per key, nothing lost unaccounted, snapshot joins live, while the client changes its view | 1 client, 4 messages of 4 kinds in 2 places, lanes of 2, ring of 2; the 2 sensors are symmetric |
| `stream_live` (65k) | A stalled client stalls nobody, a served one catches up, a gone one is reaped | 2 clients, one of them never served, 2 messages, lanes of 1, 2 connections each |
| `recent_walk` (33k) | Pages descend, a finished walk is complete up to evictions | ring of 4, 6 events, 1 restart, limits beyond both clamps |
| `config_updates` (635k) | No lost update, thresholds ordered, publish before commit, agreement unless disturbed, one config per offset, every request answered, the topic read to its end unless it is poisoned | 2 requests of 4 payloads, 1 extra message (duplicate, malformed, poisonous or somebody else's), a failed publish that arrives late, 2 faults of 4 kinds |
| `config_timeout` | violation: a 503 after a timeout leaves the copies disagreeing | 1 fault |
| `flink_alerts` (1.9M) | No reading is lost, every burst is alerted, by enough different readings and a cooldown apart; the topic is read to its end through failures and junk, unless a record is poisonous | 4 readings in any order, or 3 of them with one repeated, junk or poison; 1 threshold change, 1 crash or expiry, failures on a poisonous record without bound |
| `cell_stats` (3.0M) | A window has one blob, blobs and statistics are those of the whole stream, a climb raises one alert | 5 readings (3 windows of one cell and a reading elsewhere) in every order, 1 joined alert, 1 crash or expiry |
| `provider_runs` (588k) | A resumed run leaves nothing behind, the counters bound what was delivered, only a retry reorders, a mobile label stays | files of 3 rows of 4 kinds, batches of 2, 2 runs, the second from any row, 2 requests in flight, 1 retry, 2 faults |
| `map_client` (972k) | What was started is stopped unless an exception leaves the lifespan, the filter in force is the view's for every time both read alike, what is received reaches the map, both get through to a served connection | 2 messages of 4, 3 views (an area, a timespan, one rejected), a browser 1 ahead of UTC, 2 disturbances (outages, stops, exceptions, crashes, drops, view changes), caps of 1 |
| `config_poison` | violation: JSON that is not an object stops the job | 1 message |

Why the bounds are enough for the questions asked: two keys and a batch of three
make a page end inside a batch and a replay cut it elsewhere; two crashes make a
replay of a replay. Lanes of two are full after three messages, so every
eviction order occurs within four. A ring of four evicts during a walk
over six events, and the limits 0, 2 and 9 with a maximum of 3 hit both
clamps. Two requests are the smallest set that can overlap; their payloads are
valid alone and invalid together. Windows of 3 with slide 1 put a reading into
three windows, so that one burst is sustained in three of them, of which the
cooldown of 2 lets through the first and the last; the fourth reading moves the
watermark past them all. Three windows of a cell are one more than the rolling
series and the trend's two hold, and the reading of another cell lets the last
of them fire. Three rows in batches of two are a full batch and a rest, or one
batch when a row is skipped or out of the span; two
faults make a retry overtaken by a request in flight, or a failed send in a run
that is killed. Two disturbances take the broker away and bring it back,
change the view of a socket that drops, or let an exception escape a start and
another the next one. A reading without a zone lies in the timespan by the
browser's clock and outside it by UTC, so that both halves of `ViewInForce` are
put to the test. Sessions of different clients share nothing
but the consumer, so one client suffices for safety and two, one of them
stalled, for the question whether one delays the other. `CHECK_DEADLOCK FALSE`
is set where the bounds (messages, connections, faults) run out.

Every property of a passing run has a mutant in `PROJECT.json`: the definition
it changes, the faulty variant that replaces it, and the run in which TLC then
reports that property violated.

## 4. Fairness

- `AggregatedSink`: weak fairness of the loop (`Step`, with `Start`). The loop
  has no exit but an exception, and the container is restarted
  (`docker-compose.prod.yml:67-68`). Crashes are bounded.
- `LiveStream`: weak fairness of the consumer, and of the session tasks of the
  clients in `Served`, the sockets that keep accepting data. A client outside
  `Served` may stall for ever in a send; nothing is assumed of `Connect`,
  `Leave` and `Subscribe`.
- `MapClient`: weak fairness of the start-up and of a shutdown under way (a
  container that ended is started again, `docker-compose.prod.yml:60-61`), of the
  socket's callbacks and its reconnect timer, of React's effect on a changed
  view and of the server's handling of a frame. Outages, drops and changes of
  the view are bounded and nothing is assumed of them; a broker that stays away
  is among the behaviours.
- `SensorAlerts`: weak fairness of the
  processing of records and windows, and of the restart of a job that fails on a
  record (Flink's default with checkpointing on, without limit). Crashes,
  checkpoints and watermarks are never assumed to happen.
- `ConfigChannel`: weak fairness of the requests under way (the event loop, and
  a broker answer or the client's request timeout), of the operators, and of
  Flink's restart of a failed job (fixed delay, no limit, is the default with
  checkpointing on). A restart of the backend, a resubmission and the late arrival
  of a message are never assumed to happen.

## 5. What is proved

Eight modules hold the proofs, one per component with a specification of its
own; `tlapm <module>.tla` checks each: `AggregatedSinkProofs`,
`ConfigChannelProofs`, `LiveStreamProofs`, `RecentFeedProofs`,
`SensorAlertsProofs`, `CellStatsProofs`, `DataProviderProofs`, `MapClientProofs`.
Every safety property of every passing run is the statement of a theorem. The
theorems hold for every value of the constants that satisfies the modules'
assumptions:

| Assumption | Says |
|---|---|
| `SinkAssumption` | sizes are positive, the special messages are not keys |
| `ConfigAssumption` | merging stays inside the settings, the defaults are ordered, the special messages are not settings |
| `SubscriberAssumption`, `RingAssumption`, `LiveStreamAssumption`, `FeedAssumption` | caps and bounds are natural numbers (zero included, except for the largest limit), message types are the three there are, a view is a set of places |
| `AlertsAssumption`, `CellAssumption` | times and counts are numbers, junk and poison are no readings, a window's length and slide and the anomaly's threshold are positive, the trend needs at least two windows (`trend_detector.py:49`) |
| `ProviderAssumption` | a row's fields are numbers or missing, a missing value is no sensor and no box, the batch and the number of requests in flight are positive |
| `LifecycleAssumption`, `ClientAssumption` | what is enabled is one of the four things there are, there is at least one attempt, a message has a place and a time and an alert's names its zone, the bounds of a view and the offset of the zone are numbers, caps are natural numbers |

In every module the wanted property is not inductive by itself. What makes it so
is the subject of the rest of this section.

**Sink.** That an acknowledged prefix is archived depends on what the open
transaction already holds. `IInv` adds that both tables hold records of their own
keys (`Sourced`), that the transaction reflects the rows executed so far, and that
at `durable` the table is the transaction (`Progress`). `StatementReflects` carries
this over one statement, for which no repeated key is needed; a crash keeps it
because `Start` takes everything from the committed state. From it:
`TypeCorrect`, `AtLeastOnce`.

`SinkImplementsArchive` is the refinement: `Spec => Archived!Spec`. Its invariant
`InTransaction` says that the open transaction is the committed table with the
newest records of the batch's rows executed so far, so that at `CommitRows` the
whole batch appears at once and no record the database rejects is in it. Each
step then maps to one of `Archive` or a stutter: one lemma per action.

**Settings channel.** One inductive invariant per concern, each above the last:

- `Typed` (with the lock held exactly by the publishing request) gives
  `TypeCorrect`;
- `Published`: what a request has appended stays on the topic, and nobody is
  accepted without it, gives `PublishedBeforeAccepted`;
- `Serialised`: the publishing request's `merged` is the merge onto the settings
  as they are now, which only the lock ensures, gives `UpdatesAreNotLost`;
- `AllOrdered`: thresholds are ordered wherever settings are kept or on their
  way (backend, lock holder, failed publishes, topic, view, checkpoint), gives
  `ThresholdsStayOrdered`, under the assumption that other writers of the topic
  keep theirs ordered, which nothing in the job checks;
- `Agreed`: while undisturbed, the backend holds the latest settings of the
  topic or has just published them, and an operator, the checkpoint, and a job
  that would start at the oldest retained message each either show the latest
  settings or have some still to read. It gives `AgreementUnlessDisturbed`. The
  part about retention and the checkpoint is what makes it inductive: a restore
  may skip expired messages, and only because settings follow them is that
  harmless;
- `Aligned`: since the last start both operators have kept everything they read
  from one common offset and one common message, gives `OneConfigAtOneOffset`.

**Live stream.** What a client has been sent, its batch and its two lanes are one
sequence, `Stream(c)`. `StreamInv` says that it is ordered within each lane, with
the lanes bounded, one message per key in the coalesced one, and nothing beyond
what was consumed; the ring is the newest events in a row. It gives `TypeCorrect`
and `DeliveredInOrder`. The lemmas `OfferFifoEffect` and `OfferCoalescedEffect`
say what `Subscriber.offer` does to a lane: it adds the message and either sheds
nothing, or the predecessor of its key, or the oldest when the lane is full.
`SessionSteps` then reduces every step to three cases for a session: it is
joined, fed one message, or keeps its stream. Over these:

- `AccountInv`: what the view admitted is counted or in the stream, gives
  `AllAccounted`. It needs the exchange on a coalesced key to cost exactly one;
- `SurviveInv`: whatever has fewer newer rivals in its lane than the cap is in
  the stream, or newer state of its key is, gives `OnlyOldIsShed`. What a full
  lane sheds has a lane of newer messages behind it (`ShedHasRivals`);
- `JoinInv`: what the ring would replay is in the stream, or newer state of its
  key is, unless something was dropped or filtered, gives `SnapshotMeetsStream`.
  It holds because accept, subscribe and snapshot are one step of the event loop.

**Recent feed.** `FeedInv` has the ring (numbers without a gap, and one
`Offset` between an entry's number and its event since the last restart),
`Descending` (nothing the walk has returned is older than its cursor) and
`Covered` (what the walk has passed and is still buffered has been returned),
which give `WalkGoesBack` and `WalkMissesNothing`. `page` scans the buffer from
its end; its result is a recursive function, `Candidates`. That this returns the
newest matching entries is not an induction the provers offer, so the proofs
follow the function up to the least number at which it would fail
(`LeastNumber`, `RecursionDefined`, `RecursionSelects`).

**Sensor alerts.** Four invariants above `Typed`:

- `Surviving`: what is in the dedup state was read, for the running job and for
  the checkpoint, gives `NothingIsLost`;
- `Sustaining`: a window has counted no more than the different readings of the
  dedup state that may be DANGER, gives `AlertsAreBacked`. A replay cannot count
  a reading twice because the windows and the dedup state are restored together;
- `Answering`: `Owed` says of the job and of the checkpoint that a window lacks a
  reading only after it has been closed, and that it then has an alert or one
  less than a cooldown before, with `Clock` (event time comes from a reading).
  It gives `BurstsAnswered`. The checkpoint owes only to what is already on
  `radiation.alerts`;
- `Spaced` and `Repeating` give `CooldownHolds`. Until the first crash the
  cooldown state is the last alert (`Spaced`). After one the alerts of the replay
  and those of the first time lie in one set, and what keeps them apart is that
  both are the same function of the stream: windows fire in the order of their
  ends (`InOrder`), and an alert is sent for exactly the sustained windows that
  no earlier alert of the set answers (`Greedy`). `Repeating` says it of the
  running job, of the checkpoint and of what lies between the two.

**Cell statistics.** `FiredOnce` (without a crash a fired window stays behind the
watermark) and `WholeWindows` (when no reading is late a window has every reading
that arrived for it, or none because it is closed, in the job and in the
checkpoint) give `OneBlobPerWindow`. For the rest the windows are counted:
`RankProperties` shows that the occupied windows, ranked by their starts, have no
gap, so that `UpTo` is the sequence of windows up to one. `Sound` says that the
fired windows are a first part of it (`Progress`), the rolling series being their
last averages, and that all that was sent is `Expected` of a window. It gives
`BlobsOfWholeWindows`. The trend's series is cut at every alert, so that what it
holds depends on the alerts before. `GreedyExists` shows that some set of windows
(`Peaks`) contains exactly those that end a climb clear of the members before;
it depends on the stream alone, `SeriesAfter` gives the series after each window
in terms of it, and so an alert is sent for each member, the first time as in
every replay: `AlertsAreOfClimbs`.

**Data provider.** The topic, the requests in flight and the queue are one line
of records, towards its end the batch's remaining rows. `LineStep` is the lemma
about the sender thread: any order on records survives all its steps, in which a
record that is sent again may stand behind everything. With `Orderly` (the order
of batches and upload times, and a label that is not taken back) this is
`Lined`, and gives `UploadOrder` and `MobileStaysMobile`; that a new record fits
at the end is `AllPlaced`: it comes from a row before the rest of its batch, and
its label is that of a box no larger than now. `Resumed` (without a gap every row
before `complete` is on its way or counted as an error, and every row before the
reader is that or still in the batch) gives `NoRowLost`, `Counted` (the rows on
their way are between `sent - errors` and `sent`) gives `CountersAreBounds`.
`SortExists` shows that a batch has an order, so that the `CHOOSE` in `Sorted`
has a value, and `SortIsOnto` that it keeps every row.

**Backend and map client.** Four invariants, each about what only holds across
several awaits or several callbacks:

- `Released`: which clients may be open in each phase of a process that runs
  (`OpenIn`), and that the phase an exception left is, for each client still
  open, one of `LeftOpen`. `ShutdownReleases` says it of the phase `down` alone
  and is not inductive: what is left open at the end rests on the order in which
  `main.py` starts and stops. It gives `OrderlyShutdown`;
- `Started`: from the phase in which a client is started, a status other than
  `degraded` means the client is open, gives `OkMeansStarted`, the one property that is
  proved and in no run;
- `LastFrame`: the last frame on its way over an open socket, or the server's
  filter when none is, is the subscription the page last sent unless the server
  refuses it. A frame taken from the queue leaves the last one in place, which
  `TailLast` states of sequences. `SameTest` compares the two tests of a message
  under one view, the server's after the bounds were converted and the browser's:
  of times read alike they are equal. Together they give `ServerFiltersTheView`,
  for every time zone;
- `Arriving`: what was received last for a key overtakes nothing of its key in
  the buffer or in an update, nothing older of its key follows it, and it is on
  its way or shown unless the cap is reached, gives `LastReceivedArrives`. It
  rests on `Batches`: a batch has one message per key, so that the order in which
  an update puts its messages does not matter. `FlushJoins` says what the
  recursive functions `PutAll` and `PutMarkers` make of a batch.

**Only model-checked.** Liveness, since fairness and ENABLED are out of the
prover's reach: `CatchesUpUnlessObstructed` of the sink, `EveryRequestAnswered`
and `ReadUnlessPoisoned` of the settings channel, `ReadUnlessPoisoned` of the
sensor's alerts, `ConsumerNeverStalls`,
`ServedClientsCatchUp` and `DisconnectsAreReaped` of the live stream,
`ClientGetsThrough` of the map client. The properties of the three violation
runs are false and stay with TLC.

Where a proof needs the value of a computation along a sequence (`Candidates`,
`PutAll`, `PutMarkers`) the model has a recursive function and no fold or
RECURSIVE operator; where it orders a set (`Sorted`, `UpTo`) it says with `CHOOSE`
what the order is. About both the provers can reason. What `Sum` of `CellStats`
adds up to is not proved: the averages are compared, not computed, in the proofs.

## 6. Where code and documentation disagree

- `sink_refire`: `db.py:4-7` says duplicates collapse onto one row. They do when
  they reach different statements; within one, Postgres rejects it, the process
  restarts at the same offset and meets the same batch.
- `config_timeout`: `README.md:252-255` says the backend and Flink never silently
  disagree. A publish that times out may be on the topic while the request is
  answered 503 and the backend keeps its old settings, or may get there later.
- `config_poison`: `classifier.py:82-88` says a malformed message must not
  crash-loop the job. One that is JSON but not an object raises
  `AttributeError`, which is not caught.

Met while modelling, without a run of their own:

- `radiation_tracking_job.py:60-62` says a malformed record must not crash the
  operator, and `watermark.py:50-52` that the timestamp assigner tolerates poison
  pills. A `captured_at` that is null or a number raises `AttributeError` in
  `_parse_timestamp` (`radiation_event.py:20`), which neither of them catches
  (`watermark.py:60`, `radiation_tracking_job.py:67`), and the job stops there
  for good. Without its premise `Poison \notin Range(raw)` TLC refutes
  `ReadUnlessPoisoned` with that trace.
- `view_filter.py:9-10` says that the frontend applies the same filters, and
  `App.jsx:110-113` that the client's pass is the authoritative one. A
  `captured_at` names no zone: `_as_utc` (`view_filter.py:29-33`) takes it for
  UTC and `new Date` (`App.jsx:379`) for local time, while the bounds are sent in
  UTC (`App.jsx:119-120`). Outside UTC a timespan makes the server withhold
  readings the client would show and send others that it hides. `ViewInForce`
  is about the messages whose time both read alike; without that premise
  (`ReadAlike`) TLC refutes it with such a reading.
- `trend_detector.py:5-6` speaks of consecutive windows, but a window without
  readings makes no blob and is skipped: the series is of occupied windows, and
  so is `TrendsAreClimbs`.
- ADR-004 (line 60) and ADR-018 (lines 39-42) have one record per cell and
  window; after a restore, which forgets the watermark, a late reading opens a
  window again that has fired. `WindowsFireOnce` holds without a crash, or when
  no reading is late.
- `csv_reader.py:71-74` compares times as text: bounds and rows with different
  offsets or precisions order otherwise than their instants. `DataProvider`
  takes the rank of the text.
- `App.jsx:110-113` says the backend filters by the client's area and timespan.
  A timespan whose start is its end is a view to the client and an error to
  `ViewFilter` (`view_filter.py:70-71`), which leaves the previous filter in
  force. `ViewInForce` excludes rejected views.
- ADR-012 (lines 17-18 and 35-37) promises that tuning the producer weakens
  nothing: "no reordering", records "published in `uploaded_at` order". With
  retries and several requests in flight (kafka-python's default of five) a
  record that is sent again arrives behind younger ones.
  `OrderBrokenOnlyByRetry` and `LabelsSharpen` except exactly that.
- `README.md:199` says that degraded mode must never restart-loop the stack.
  `ConfigProducer.start` and `start_consumer` degrade on `KafkaConnectionError`
  alone; every other error at start-up, such as a topic that does not exist
  (`kafka_consumer.py:128`) or a broker that goes away during `ensure_topics`,
  ends the process, and with it what is open (`LeftOpen`). `ClientGetsThrough`
  shows that the restarts end once the disturbances do.
- A dead consume loop leaves `/health` at "ok" with a running consumer, which
  `health.py` does not deny; `HealthMeansStarted` says only that what is ok has
  been started.

The properties of the passing runs are explicit about further exceptions:
`UndisturbedAgreement` excludes backend restarts (the settings are in memory
only) and the expiry of the last settings before a job starts without a
checkpoint; `UnbrokenPagesDescend` excludes walks during which the backend
restarted, whose old cursor is compared with new numbers; `CooldownKept`
excludes expired state, although `alert_dedup.py:80-82` says the TTL never
clears a cooldown in effect (an outage longer than the TTL does, since the
cooldown is event time and the TTL is not), and replays with late readings or a
changed threshold, which may fire other windows than the first time.

## 7. What is not modelled

- Read-only or stateless parts: the history queries, the counters of
  `GET /metrics`, provisioning and demo scripts, schema validation, map drawing.
- Kafka and Flink themselves, beyond what the code relies on: a topic is a log,
  a consumer group has a committed offset, a checkpoint is one consistent cut
  (aligned barriers, the default), `ON CONFLICT` behaves as documented.
- Wire formats, timestamps as text, column types, geohashes, centroids and
  distances: a message is what the properties tell apart.
- The write token of `POST /config`, CORS and TLS settings. A socket whose origin
  is not allowed is closed before it is accepted (`stream.py:100-105`) and never
  becomes a subscriber; the clients of `LiveStream` are the others.
- The event side of the region filter: the sensor of `SensorAlerts` and the cell
  of `CellStats` lie in the selected area.
- The pace of the replay (`_apply_speed`), which only delays the steps of
  `DataProvider`.
- In the browser: the panels, the local storage, the timeline, `POST /config`
  and the history view; a time zone is one offset, without summer time. In the
  server's filter: frames that are malformed other than by the order of their
  bounds, areas that leave the globe, and the messages that pass because they
  carry no coordinates or no time that can be read.
- Exceptions of the clean-up itself: `admin.close()` in `ensure_topics` and the
  `stop()` of a client whose start has failed are assumed to return.
- `MapClient`'s connection is a queue: coalescing and the lanes are `LiveStream`'s,
  and the two are not composed, since their product is out of TLC's reach.

## 8. Plan

Done: all components of section 1 that keep state, the abstract `Archive`, and
proofs of every safety property of every run.

Worth doing next, in this order:

1. An abstract settings register that `ConfigChannel` implements while it is
   undisturbed, and the proof of that refinement.
2. An abstract mailbox that `Subscriber` implements: a client sees a subsequence
   of what its view admits that keeps the newest of each key, which would put
   `DeliveryOrdered` and `RecentSurvives` in one statement.
3. The event side of the region filter between `SensorAlerts` and `CellStats`.
