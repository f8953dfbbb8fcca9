---------------------------- MODULE SensorAlerts ----------------------------
(***************************************************************************)
(* What the Flink job does with the readings of one sensor, from the topic *)
(* radiation.raw to radiation.clean and to the sustained-high alerts on    *)
(* radiation.alerts (radiation_tracking_job.py).                           *)
(*                                                                         *)
(* The sensor lies in the selected area (ConfigChannel has the region      *)
(* filter's settings).  Other sensors only move the watermark, which a     *)
(* reading below every threshold does as well.                             *)
(*                                                                         *)
(* A record is parsed and filtered, deduplicated by SensorDedupOperator,   *)
(* tagged by the classifier and published as clean; SlidingEventTimeWindows *)
(* over captured_at count the sensor's DANGER readings, and                *)
(* AlertCooldownOperator thins out the windows that have enough of them.   *)
(* Both keyed states expire by processing time.  Operators run with        *)
(* parallelism 1 and aligned checkpoints; the sinks are AT_LEAST_ONCE.     *)
(*                                                                         *)
(* Flink's watermarks are periodic and belong to no checkpoint: after a    *)
(* restore the windows know of no event time until the next one arrives.   *)
(***************************************************************************)
EXTENDS Integers, Sequences, FiniteSetsExt, Functions

CONSTANTS
  Readings,     \* distinct readings [time, cpm] of the sensor
  Junk,         \* a record the parser or a filter drops
  Poison,       \* a record on which both the timestamp assigner and the parser fail
  Thresholds,   \* the danger thresholds config.updates carries, in order
  DefaultDanger,
  Length, Slide, \* geometry of the sliding windows
  Delay,        \* bound on the out-of-orderness
  MinBreaches,  \* DANGER readings that count as sustained
  Cooldown,
  MaxRaw, MaxOdd, MaxFaults  \* bounds of the model: records, those of them that
                \* are no new reading, crashes and expiries

ASSUME AlertsAssumption ==
  /\ \A m \in Readings : m.time \in Nat /\ m.cpm \in Int
  /\ Junk \notin Readings /\ Poison \notin Readings
  /\ Thresholds \in Seq(Int) /\ DefaultDanger \in Int
  /\ Slide \in Nat \ {0} /\ Length \in Nat \ {0} /\ Delay \in Nat
  /\ MinBreaches \in Nat \ {0} /\ Cooldown \in Nat
  /\ MaxRaw \in Nat /\ MaxOdd \in Nat /\ MaxFaults \in Nat

\* A window [e - Length, e) is known by its end e, a multiple of the slide.
EndsOf(time) == {e \in (time + 1)..(time + Length) : e % Slide = 0}
Ends == UNION {EndsOf(m.time) : m \in Readings}

VARIABLES
  raw,           \* radiation.raw
  read,          \* the source's offset
  configured,    \* thresholds applied so far
  seen,          \* dedup state
  maxTime,       \* the watermark generator's highest timestamp
  watermark,     \* event time is complete below this
  breaches,      \* DANGER readings in each open window
  lastEnd,       \* cooldown state: end of the last alert's window, 0 if none
  saved,         \* the last checkpoint
  cleanBuffer, alertBuffer,   \* sent by the sinks, not yet acknowledged
  clean, alerts, \* radiation.clean and radiation.alerts, without duplicates
  crashes, expiries,
  reconfigured   \* history: a threshold has been applied

state == <<read, configured, seen, breaches, lastEnd>>
event == <<maxTime, watermark>>
output == <<cleanBuffer, alertBuffer, clean, alerts>>
vars == <<raw, state, event, saved, output, crashes, expiries, reconfigured>>

Fresh == [read |-> 0, configured |-> 0, seen |-> {}, breaches |-> [e \in Ends |-> 0], lastEnd |-> 0]

\* The source reads at its own pace: records that are appended only later are
\* records it has not read yet.  They come out of order, and MaxOdd of them may
\* be repeated, junk or poison.
Init ==
  /\ raw \in [1..MaxRaw -> Readings \union {Junk, Poison}]
  /\ MaxRaw - Cardinality(Range(raw) \intersect Readings) <= MaxOdd
  /\ saved = Fresh
  /\ read = 0 /\ configured = 0 /\ seen = {} /\ breaches = [e \in Ends |-> 0] /\ lastEnd = 0
  /\ maxTime = 0 /\ watermark = 0
  /\ cleanBuffer = <<>> /\ alertBuffer = <<>> /\ clean = {} /\ alerts = {}
  /\ crashes = 0 /\ expiries = 0 /\ reconfigured = FALSE

\* The classifier applies the next config.updates message.
Configure ==
  /\ configured < Len(Thresholds)
  /\ configured' = configured + 1
  /\ reconfigured' = TRUE
  /\ UNCHANGED <<raw, read, seen, breaches, lastEnd, event, saved, output, crashes, expiries>>

Danger(m) == m.cpm >= IF configured = 0 THEN DefaultDanger ELSE Thresholds[configured]

\* Windows the watermark has passed fire before anything else is processed.
Due == {e \in Ends : e <= watermark /\ breaches[e] > 0}

Following == raw[read + 1]

\* It parses, has a CPM and the CPM is possible.
Usable(m) == m \in Readings

\* SensorDedupOperator has seen the reading's dedup_key.
Duplicate(m) == m \in seen

\* The next record is malformed, has no usable CPM, or is a duplicate.
Drop ==
  /\ Due = {} /\ read < Len(raw)
  /\ Following = Junk \/ Duplicate(Following)
  /\ read' = read + 1
  /\ UNCHANGED <<raw, configured, seen, breaches, lastEnd, event, saved, output,
                 crashes, expiries, reconfigured>>

\* Into the windows that are still open: a window the watermark has passed
\* takes no late reading.
Counted(m) ==
  [e \in Ends |-> IF e \in EndsOf(m.time) /\ e > watermark /\ Danger(m)
                  THEN breaches[e] + 1 ELSE breaches[e]]

\* A new reading: remembered, classified, published as clean, windowed.
Accept ==
  /\ Due = {} /\ read < Len(raw)
  /\ Usable(Following) /\ ~Duplicate(Following)
  /\ read' = read + 1
  /\ seen' = seen \union {Following}
  /\ cleanBuffer' = Append(cleanBuffer, Following)
  /\ maxTime' = Max({maxTime, Following.time})
  /\ breaches' = Counted(Following)
  /\ UNCHANGED <<raw, configured, lastEnd, watermark, saved, alertBuffer, clean, alerts,
                 crashes, expiries, reconfigured>>

\* Faulty variant: the watermark follows the highest timestamp without the bound.
EmitWatermarkEagerly ==
  /\ Due = {} /\ maxTime > watermark
  /\ watermark' = maxTime
  /\ UNCHANGED <<raw, state, maxTime, saved, output, crashes, expiries, reconfigured>>

\* The periodic watermark of forBoundedOutOfOrderness.
EmitWatermark ==
  /\ Due = {} /\ maxTime - Delay > watermark
  /\ watermark' = maxTime - Delay
  /\ UNCHANGED <<raw, state, maxTime, saved, output, crashes, expiries, reconfigured>>

\* Faulty variant: only a window that fires again is suppressed.
RepeatsWindow(e) == lastEnd # 0 /\ e = lastEnd

\* is_within_cooldown, also for a window that ends before the last alert's.
CoolingDown(e) == lastEnd # 0 /\ e - lastEnd < Cooldown

\* detect_sustained_high makes a candidate of the window.
Sustained(e) == breaches[e] >= MinBreaches

\* AlertCooldownOperator handles a candidate: dropped, or remembered and sent.
Candidate(e) ==
  IF CoolingDown(e)
  THEN UNCHANGED <<lastEnd, alertBuffer>>
  ELSE lastEnd' = e /\ alertBuffer' = Append(alertBuffer, e)

\* The earliest due window fires, and its contents are purged.
Fire ==
  \E e \in Due :
    /\ \A d \in Due : e <= d
    /\ breaches' = [breaches EXCEPT ![e] = 0]
    /\ IF Sustained(e) THEN Candidate(e) ELSE UNCHANGED <<lastEnd, alertBuffer>>
    /\ UNCHANGED <<raw, read, configured, seen, event, saved, cleanBuffer, clean, alerts,
                   crashes, expiries, reconfigured>>

\* The broker acknowledges the oldest message of a sink.
Acknowledge ==
  /\ \/ /\ cleanBuffer # <<>>
        /\ clean' = clean \union {Head(cleanBuffer)} /\ cleanBuffer' = Tail(cleanBuffer)
        /\ UNCHANGED <<alertBuffer, alerts>>
     \/ /\ alertBuffer # <<>>
        /\ alerts' = alerts \union {Head(alertBuffer)} /\ alertBuffer' = Tail(alertBuffer)
        /\ UNCHANGED <<cleanBuffer, clean>>
  /\ UNCHANGED <<raw, state, event, saved, crashes, expiries, reconfigured>>

\* Faulty variant: the checkpoint does not wait for the sinks.
CheckpointUnflushed ==
  /\ Due = {} /\ saved.read < read
  /\ saved' = [read |-> read, configured |-> configured, seen |-> seen,
               breaches |-> breaches, lastEnd |-> lastEnd]
  /\ UNCHANGED <<raw, state, event, output, crashes, expiries, reconfigured>>

\* Faulty variant: the checkpoint points past the record that follows.
CheckpointNextOffset ==
  /\ Due = {} /\ saved.read < read
  /\ saved' = [read |-> read + 1, configured |-> configured, seen |-> seen,
               breaches |-> breaches, lastEnd |-> lastEnd]
  /\ clean' = clean \union Range(cleanBuffer) /\ alerts' = alerts \union Range(alertBuffer)
  /\ cleanBuffer' = <<>> /\ alertBuffer' = <<>>
  /\ UNCHANGED <<raw, state, event, crashes, expiries, reconfigured>>

\* A checkpoint completes: every operator's state at one offset, and the sinks
\* have flushed.
Checkpoint ==
  /\ Due = {} /\ saved.read < read
  /\ saved' = [read |-> read, configured |-> configured, seen |-> seen,
               breaches |-> breaches, lastEnd |-> lastEnd]
  /\ clean' = clean \union Range(cleanBuffer) /\ alerts' = alerts \union Range(alertBuffer)
  /\ cleanBuffer' = <<>> /\ alertBuffer' = <<>>
  /\ UNCHANGED <<raw, state, event, crashes, expiries, reconfigured>>

\* Faulty variant: whatever does not parse fails the task.
PoisonedByJunk == Due = {} /\ read < Len(raw) /\ Following \in {Junk, Poison}

\* The next record raises what nothing catches: a captured_at or uploaded_at that
\* is no string has no strip (model/radiation_event.py:20), and AttributeError is
\* not among KeyError, ValueError and TypeError.
Poisoned == Due = {} /\ read < Len(raw) /\ Following = Poison

\* Faulty variant: the windows keep what they counted while the source goes back.
RestoreWithoutWindows ==
  /\ IF Poisoned THEN crashes' = Max({crashes, 1})
     ELSE crashes + expiries < MaxFaults /\ crashes' = crashes + 1
  /\ read' = saved.read /\ configured' = saved.configured /\ seen' = saved.seen
  /\ lastEnd' = saved.lastEnd
  /\ maxTime' = 0 /\ watermark' = 0
  /\ cleanBuffer' = <<>> /\ alertBuffer' = <<>>
  /\ UNCHANGED <<raw, breaches, saved, clean, alerts, expiries, reconfigured>>

\* A task fails and Flink restarts the job from its last checkpoint, without
\* limit; failures on a record are not counted twice.
Restore ==
  /\ IF Poisoned THEN crashes' = Max({crashes, 1})
     ELSE crashes + expiries < MaxFaults /\ crashes' = crashes + 1
  /\ read' = saved.read /\ configured' = saved.configured /\ seen' = saved.seen
  /\ breaches' = saved.breaches /\ lastEnd' = saved.lastEnd
  /\ maxTime' = 0 /\ watermark' = 0
  /\ cleanBuffer' = <<>> /\ alertBuffer' = <<>>
  /\ UNCHANGED <<raw, saved, clean, alerts, expiries, reconfigured>>

\* A state entry outlives its time to live, which runs on the wall clock.
Expire ==
  /\ crashes + expiries < MaxFaults
  /\ expiries' = expiries + 1
  /\ \/ \E m \in seen : seen' = seen \ {m} /\ UNCHANGED lastEnd
     \/ lastEnd # 0 /\ lastEnd' = 0 /\ UNCHANGED seen
  /\ UNCHANGED <<raw, read, configured, breaches, event, saved, output, crashes, reconfigured>>

Next ==
  \/ Configure \/ Drop \/ Accept \/ EmitWatermark \/ Fire
  \/ Acknowledge \/ Checkpoint \/ Restore \/ Expire

Spec == Init /\ [][Next]_vars

\* The job goes on with its records and windows, and is restarted when it fails.
Fairness == WF_vars(Drop \/ Accept \/ Fire) /\ WF_vars(Poisoned /\ Restore)

FairSpec == Spec /\ Fairness

-----------------------------------------------------------------------------
\* Every variable keeps its type; neither the source nor a checkpoint points
\* past the topic's end, and only end points of windows are alerted.
TypeOK ==
  /\ raw \in Seq(Readings \union {Junk, Poison})
  /\ read \in 0..Len(raw) /\ saved.read \in 0..Len(raw)
  /\ configured \in 0..Len(Thresholds)
  /\ seen \subseteq Readings /\ clean \subseteq Readings /\ cleanBuffer \in Seq(Readings)
  /\ alerts \subseteq Ends /\ alertBuffer \in Seq(Ends)
  /\ breaches \in [Ends -> Nat] /\ lastEnd \in Ends \union {0}
  /\ maxTime \in Nat /\ watermark \in Nat

Alerts == alerts \union Range(alertBuffer)

\* The readings among the first n records.
ReadingsIn(n) == {raw[i] : i \in 1..n} \intersect Readings

\* Readings of the window that ends at e which reach a threshold.
Breaching(n, e, threshold) ==
  {m \in ReadingsIn(n) : e \in EndsOf(m.time) /\ m.cpm >= threshold}

Dangers == {DefaultDanger} \union Range(Thresholds)
Sure == Max(Dangers)
Possible == Min(Dangers)

\* No reading comes later than the watermark strategy allows for.
InTime(n) ==
  \A i, j \in 1..n :
    i < j /\ raw[i] \in Readings /\ raw[j] \in Readings => raw[i].time - Delay <= raw[j].time

\* Every reading that was read is on radiation.clean or on its way, and one the
\* checkpoint covers is there: a replay would drop it as a duplicate.
EveryReadingSurvives ==
  /\ ReadingsIn(read) \subseteq clean \union Range(cleanBuffer)
  /\ ReadingsIn(saved.read) \subseteq clean

\* Readings in time that are DANGER under every threshold, enough of them in one
\* window that event time has passed, have their alert: this window's, or that
\* of one that ended less than the cooldown before.
BurstsAreAlerted ==
  InTime(read) =>
    \A e \in Ends \ Due :
      e <= watermark /\ Cardinality(Breaching(read, e, Sure)) >= MinBreaches =>
        \E a \in Alerts : a = e \/ (a < e /\ e - a < Cooldown)

\* An alert is backed by enough different readings of its window, whatever was
\* sent twice or replayed, as long as no dedup entry expires.
AlertsAreSustained ==
  expiries = 0 =>
    \A a \in Alerts : Cardinality(Breaching(Len(raw), a, Possible)) >= MinBreaches

\* Two alerts are a cooldown apart.  A replay keeps it so when it fires the same
\* windows: no reading is late and no threshold changes (alert_dedup.py:13-15).
CooldownKept ==
  expiries = 0 /\ (crashes > 0 => InTime(Len(raw)) /\ ~reconfigured) =>
    \A a, b \in Alerts : a < b => b - a >= Cooldown

\* The job reads its topic to the end through every failure and whatever it has
\* to drop, unless a record is poisonous.
ReadUnlessPoisoned == Poison \notin Range(raw) => <>[](read = Len(raw))
=============================================================================
