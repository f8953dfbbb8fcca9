------------------------------ MODULE CellStats ------------------------------
(***************************************************************************)
(* What the Flink job makes of the readings of one geohash cell: tumbling  *)
(* event-time windows reduced to blobs (geo_bucket.py, geo_window.py,      *)
(* geo_aggregation.py), rolling statistics over the last windows           *)
(* (rolling_stats.py), rising-trend alerts (trend_detector.py), and the    *)
(* latest blob joined to the sustained-high alerts of the cell             *)
(* (alert_region_join.py).                                                 *)
(*                                                                         *)
(* The input is the cleaned, deduplicated, classified and region-filtered  *)
(* stream; every reading has a CPM, so every window that fires has an      *)
(* average.  Readings of other cells move the watermark only.  Operators   *)
(* run with parallelism 1 and aligned checkpoints, keyed state expires by  *)
(* processing time, watermarks belong to no checkpoint and the sinks are   *)
(* AT_LEAST_ONCE, as in SensorAlerts.                                      *)
(***************************************************************************)
EXTENDS Integers, SequencesExt

CONSTANTS
  Readings,     \* distinct readings [time, cpm, label, cell]
  Cell,         \* the cell that is modelled
  NoBlob,       \* absence of a blob: the join's state is empty, hot_region is None
  Length,       \* of the tumbling windows
  Delay,        \* bound on the out-of-orderness
  Scale,        \* averages and z-scores are rounded to units of 1/Scale
  WindowCount,  \* prior windows in the rolling baseline
  Threshold,    \* z-score of an anomaly
  MinWindows, MinDelta,  \* of a rising trend
  MaxRaw, MaxAlerts, MaxFaults  \* bounds: readings, joined alerts, crashes and expiries

Labels == <<"DANGER", "WARN", "SAFE">>  \* _SEVERITY_ORDER

ASSUME CellAssumption ==
  /\ \A m \in Readings : m.time \in Nat /\ m.cpm \in Nat /\ m.label \in Range(Labels)
  /\ Length \in Nat \ {0} /\ Delay \in Nat /\ Scale \in Nat \ {0}
  /\ WindowCount \in Nat \ {0} /\ Threshold \in Nat \ {0}
  /\ MinWindows \in Nat \ {0, 1} /\ MinDelta \in Nat
  /\ MaxRaw \in Nat /\ MaxAlerts \in Nat /\ MaxFaults \in Nat

VARIABLES
  raw,          \* the filtered stream
  read,         \* readings processed
  panes,        \* contents of the open windows, by window start
  baseline,     \* rolling-cpm-series
  series,       \* trend-cpm-series
  latest,       \* latest-agg-blob
  maxTime,      \* the watermark generator's highest timestamp
  watermark,    \* event time is complete below this
  saved,        \* the last checkpoint
  blobBuffer, alertBuffer,  \* sent by the sinks since the last checkpoint
  aggregated, alerts,       \* radiation.aggregated and radiation.alerts, without duplicates
  crashes, expiries, joins

state == <<read, panes, baseline, series, latest>>
output == <<blobBuffer, alertBuffer, aggregated, alerts>>
vars == <<raw, state, maxTime, watermark, saved, output, crashes, expiries, joins>>

-----------------------------------------------------------------------------
\* The window of TumblingEventTimeWindows that takes a reading.
Start(m) == m.time - (m.time % Length)
Starts == {Start(m) : m \in Readings}

\* round(n / d, 4), ties aside.
Rounded(n, d) == (2 * n * Scale + d) \div (2 * d)

Sum(s) == FoldSeq(+, 0, s)

worst_classification(es) ==
  Labels[Min({i \in DOMAIN Labels : \E m \in es : m.label = Labels[i]})]

\* The centroid is left out.
aggregate_bucket(w, es) ==
  [window_start |-> w,
   count |-> Cardinality(es),
   cpm_avg |-> Rounded(MapThenSumSet(LAMBDA m : m.cpm, es), Cardinality(es)),
   cpm_max |-> Max({m.cpm : m \in es}),
   cpm_min |-> Min({m.cpm : m \in es}),
   class_counts |-> [l \in Range(Labels) |-> Cardinality({m \in es : m.label = l})],
   worst |-> worst_classification(es)]

\* push_sample and push_window: the last n values.
Pushed(s, x, n) == LET t == Append(s, x) IN SubSeq(t, Max({1, Len(t) - n + 1}), Len(t))

\* Of a series its variance, times the square of its length.
Spread(s) == Len(s) * Sum([i \in DOMAIN s |-> s[i] * s[i]]) - Sum(s) * Sum(s)

\* zscore is None for a baseline that is too short or flat.
Scored(s) == Len(s) >= 2 /\ Spread(s) # 0

\* flag_anomaly: the rounded z-score reaches the threshold when the exact one
\* is at most half a unit short of it; both sides are squared.
Anomaly(s, x) ==
  LET deviation == 2 * Scale * (Len(s) * x - Sum(s))
      bound == 2 * Scale * Threshold - 1
  IN  Scored(s) /\ deviation * deviation >= bound * bound * Spread(s)

rolling_average(s) == (2 * Sum(s) + Len(s)) \div (2 * Len(s))

enrich_blob(blob, prior) ==
  [blob |-> blob,
   rolling |-> rolling_average(Append(prior, blob.cpm_avg)),
   scored |-> Scored(prior),
   anomaly |-> Anomaly(prior, blob.cpm_avg)]

is_rising(s) ==
  LET last == SubSeq(s, Len(s) - MinWindows + 1, Len(s))
  IN  /\ Len(s) >= MinWindows
      /\ \A i \in 2..MinWindows : last[i] > last[i - 1]
      /\ last[MinWindows] - last[1] >= MinDelta

TrendAlert(w, s) == [reason |-> "rising-trend", window_start |-> w, cpm_series |-> s]

\* The centroid is left out here too.
region_summary(latestBlob) ==
  LET b == latestBlob.blob
  IN  [cpm_avg |-> b.cpm_avg, cpm_max |-> b.cpm_max, count |-> b.count, worst |-> b.worst]

enrich_alert_with_region(region) ==
  [reason |-> "sustained-high", hot_region |-> IF region = NoBlob THEN NoBlob ELSE region_summary(region)]

-----------------------------------------------------------------------------
Nothing == [w \in Starts |-> {}]

Fresh == [read |-> 0, panes |-> Nothing, baseline |-> <<>>, series |-> <<>>, latest |-> NoBlob]

\* Readings come in any order; a shorter stream is one that is not read further.
Init ==
  /\ raw \in {s \in [1..MaxRaw -> Readings] : IsInjective(s)}
  /\ saved = Fresh
  /\ read = 0 /\ panes = Nothing /\ baseline = <<>> /\ series = <<>> /\ latest = NoBlob
  /\ maxTime = 0 /\ watermark = 0
  /\ blobBuffer = <<>> /\ alertBuffer = <<>> /\ aggregated = {} /\ alerts = {}
  /\ crashes = 0 /\ expiries = 0 /\ joins = 0

Passed(w) == w + Length <= watermark

\* Windows the watermark has passed fire before the next reading is processed.
Due == {w \in Starts : Passed(w) /\ panes[w] # {}}

\* Faulty variant: a reading behind the watermark opens its window again.
WindowedLate(m) ==
  IF m.cell = Cell THEN [panes EXCEPT ![Start(m)] = @ \union {m}] ELSE panes

\* Keyed by geohash into its window, unless the window has passed.
Windowed(m) ==
  IF m.cell = Cell /\ ~Passed(Start(m))
  THEN [panes EXCEPT ![Start(m)] = @ \union {m}] ELSE panes

Process ==
  /\ Due = {} /\ read < Len(raw)
  /\ read' = read + 1
  /\ panes' = Windowed(raw[read + 1])
  /\ maxTime' = Max({maxTime, raw[read + 1].time})
  /\ UNCHANGED <<raw, baseline, series, latest, watermark, saved, output, crashes, expiries, joins>>

\* The periodic watermark re-assigned before the windows.
EmitWatermark ==
  /\ Due = {} /\ maxTime - Delay > watermark
  /\ watermark' = maxTime - Delay
  /\ UNCHANGED <<raw, state, maxTime, saved, output, crashes, expiries, joins>>

\* Faulty variant: an alert leaves the series as it is.
TrendKept(w, avg) ==
  LET s == Pushed(series, avg, MinWindows)
  IN  /\ series' = s
      /\ alertBuffer' = IF is_rising(s) THEN Append(alertBuffer, TrendAlert(w, s)) ELSE alertBuffer

\* TrendDetectorOperator: an alert clears the series.
Trend(w, avg) ==
  LET s == Pushed(series, avg, MinWindows)
  IN  IF is_rising(s)
      THEN series' = <<>> /\ alertBuffer' = Append(alertBuffer, TrendAlert(w, s))
      ELSE series' = s /\ UNCHANGED alertBuffer

\* RollingStatsOperator scores the blob against the windows before it and then
\* adds it; the result goes to the sink and, as the cell's latest, to the join.
Roll(blob) ==
  /\ blobBuffer' = Append(blobBuffer, enrich_blob(blob, baseline))
  /\ latest' = enrich_blob(blob, baseline)
  /\ baseline' = Pushed(baseline, blob.cpm_avg, WindowCount)

\* The earliest due window fires: GeoBucketWindowFunction, then the operators
\* that consume its blob.
Fire ==
  \E w \in Due :
    LET blob == aggregate_bucket(w, panes[w]) IN
    /\ \A v \in Due : w <= v
    /\ panes' = [panes EXCEPT ![w] = {}]
    /\ Roll(blob)
    /\ Trend(w, blob.cpm_avg)
    /\ UNCHANGED <<raw, read, maxTime, watermark, saved, aggregated, alerts, crashes, expiries, joins>>

\* An alert of a sensor arrives.  One without coordinates has the key "",
\* which no blob has.
JoinAlert(located) ==
  /\ joins < MaxAlerts
  /\ joins' = joins + 1
  /\ alertBuffer' = Append(alertBuffer, enrich_alert_with_region(IF located THEN latest ELSE NoBlob))
  /\ UNCHANGED <<raw, state, maxTime, watermark, saved, blobBuffer, aggregated, alerts,
                 crashes, expiries>>

\* Faulty variant: the rolling series is not part of the checkpoint.
CheckpointWithoutSeries ==
  /\ Due = {} /\ saved.read < read
  /\ saved' = [read |-> read, panes |-> panes, baseline |-> <<>>,
               series |-> <<>>, latest |-> latest]
  /\ aggregated' = aggregated \union Range(blobBuffer) /\ alerts' = alerts \union Range(alertBuffer)
  /\ blobBuffer' = <<>> /\ alertBuffer' = <<>>
  /\ UNCHANGED <<raw, state, maxTime, watermark, crashes, expiries, joins>>

\* A checkpoint: every operator's state at one offset, and the sinks flush.
Checkpoint ==
  /\ Due = {} /\ saved.read < read
  /\ saved' = [read |-> read, panes |-> panes, baseline |-> baseline,
               series |-> series, latest |-> latest]
  /\ aggregated' = aggregated \union Range(blobBuffer) /\ alerts' = alerts \union Range(alertBuffer)
  /\ blobBuffer' = <<>> /\ alertBuffer' = <<>>
  /\ UNCHANGED <<raw, state, maxTime, watermark, crashes, expiries, joins>>

\* A task fails: some of what the sinks had sent has reached its topic, the job
\* restarts from its last checkpoint and the watermark from the beginning.
Restore ==
  /\ crashes + expiries < MaxFaults
  /\ crashes' = crashes + 1
  /\ \E n \in 0..Len(blobBuffer) : aggregated' = aggregated \union Range(SubSeq(blobBuffer, 1, n))
  /\ \E n \in 0..Len(alertBuffer) : alerts' = alerts \union Range(SubSeq(alertBuffer, 1, n))
  /\ blobBuffer' = <<>> /\ alertBuffer' = <<>>
  /\ read' = saved.read /\ panes' = saved.panes
  /\ baseline' = saved.baseline /\ series' = saved.series /\ latest' = saved.latest
  /\ maxTime' = 0 /\ watermark' = 0
  /\ UNCHANGED <<raw, saved, expiries, joins>>

\* The state of a quiet cell outlives its time to live.
Expire ==
  /\ crashes + expiries < MaxFaults
  /\ expiries' = expiries + 1
  /\ \/ baseline # <<>> /\ baseline' = <<>> /\ UNCHANGED <<series, latest>>
     \/ series # <<>> /\ series' = <<>> /\ UNCHANGED <<baseline, latest>>
     \/ latest # NoBlob /\ latest' = NoBlob /\ UNCHANGED <<baseline, series>>
  /\ UNCHANGED <<raw, read, panes, maxTime, watermark, saved, output, crashes, joins>>

Next ==
  \/ Process \/ EmitWatermark \/ Fire \/ Checkpoint \/ Restore \/ Expire
  \/ \E located \in BOOLEAN : JoinAlert(located)

Spec == Init /\ [][Next]_vars

-----------------------------------------------------------------------------
Blobs == aggregated \union Range(blobBuffer)
Regions ==
  {a.hot_region : a \in {b \in alerts \union Range(alertBuffer) : b.reason = "sustained-high"}} \ {NoBlob}
Trends == {a \in alerts \union Range(alertBuffer) : a.reason = "rising-trend"}

\* No reading comes later than the watermark strategy allows for.
InTime == \A i, j \in DOMAIN raw : i < j => raw[i].time - Delay <= raw[j].time

\* What the cell's windows hold when nothing is late, how many there are up to
\* one of them, which, and their averages.
Whole(w) == {m \in Range(raw) : m.cell = Cell /\ Start(m) = w}
Occupied == {w \in Starts : Whole(w) # {}}
Rank(w) == Cardinality({v \in Occupied : v <= w})
UpTo(w) == [i \in 1..Rank(w) |-> CHOOSE v \in Occupied : Rank(v) = i]
Averages(w) == [i \in DOMAIN UpTo(w) |-> aggregate_bucket(UpTo(w)[i], Whole(UpTo(w)[i])).cpm_avg]

LastOf(s, n) == SubSeq(s, Max({1, Len(s) - n + 1}), Len(s))

\* The blob of a window, from the whole stream.
Expected(w) == enrich_blob(aggregate_bucket(w, Whole(w)), LastOf(Front(Averages(w)), WindowCount))

\* Windows up to which the averages climb.
Climbs(w) == is_rising(Averages(w))

\* A window has one blob, however often the topic or the archive receives it: a
\* reading that comes after its window fired is dropped.  A crash forgets that
\* the window fired, which matters when readings are late.
WindowsFireOnce ==
  crashes = 0 \/ InTime => \A a, b \in Blobs : a.blob.window_start = b.blob.window_start => a.blob = b.blob

\* When readings are in time and no state expires, the blobs are those of the
\* whole stream, counts and rolling statistics alike, whatever is replayed; every
\* window that has passed is among them, and so are the regions joined to alerts.
BlobsAreWhole ==
  InTime /\ expiries = 0 =>
    /\ Blobs \subseteq {Expected(w) : w \in Occupied}
    /\ Regions \subseteq {region_summary(Expected(w)) : w \in Occupied}
    /\ {Expected(w) : w \in {v \in Occupied : Passed(v)} \ Due} \subseteq Blobs

\* Then a trend alert stands for MinWindows windows whose averages climb, no two
\* alerts share a window, and each climb that has passed overlaps with an alert.
TrendsAreClimbs ==
  InTime /\ expiries = 0 =>
    /\ \A a \in Trends : Climbs(a.window_start) /\ a.cpm_series = LastOf(Averages(a.window_start), MinWindows)
    /\ \A a, b \in Trends :
         a.window_start < b.window_start =>
           Len(UpTo(b.window_start)) - Len(UpTo(a.window_start)) >= MinWindows
    /\ \A w \in Occupied \ Due :
         Passed(w) /\ Climbs(w) =>
           \E a \in Trends : a.window_start \in Range(LastOf(UpTo(w), MinWindows))
=============================================================================
