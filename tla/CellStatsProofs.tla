-------------------------- MODULE CellStatsProofs --------------------------
(***************************************************************************)
(* Proofs about the statistics of one geohash cell, for every stream,      *)
(* every length of the windows and every number of crashes and expiries.   *)
(***************************************************************************)
EXTENDS CellStats, SequenceTheorems, FiniteSetTheorems, TLAPS

-----------------------------------------------------------------------------
(* Sequences and their elements *)

LEMMA RangeElements ==
  ASSUME NEW S, NEW s \in Seq(S)
  PROVE  /\ Range(s) \subseteq S
         /\ \A x : x \in Range(s) <=> \E i \in 1..Len(s) : s[i] = x
<1>1. DOMAIN s = 1..Len(s) /\ \A i \in 1..Len(s) : s[i] \in S
  BY LenProperties, ElementOfSeq
<1> QED BY <1>1 DEF Range

LEMMA RangeAppend ==
  ASSUME NEW S, NEW s \in Seq(S), NEW e \in S
  PROVE  Append(s, e) \in Seq(S) /\ Range(Append(s, e)) = Range(s) \union {e}
<1> DEFINE t == Append(s, e)
<1>1. /\ t \in Seq(S) /\ Len(t) = Len(s) + 1 /\ Len(s) \in Nat
      /\ \A i \in 1..Len(s) : t[i] = s[i]
      /\ t[Len(s) + 1] = e
  BY LenProperties, AppendProperties
<1> HIDE DEF t
<1>2. /\ \A x : x \in Range(s) <=> \E i \in 1..Len(s) : s[i] = x
      /\ \A x : x \in Range(t) <=> \E i \in 1..Len(s) + 1 : t[i] = x
  BY <1>1, RangeElements
<1>3. \A i : i \in 1..Len(s) + 1 <=> i \in 1..Len(s) \/ i = Len(s) + 1
  BY <1>1
<1>4. Range(t) = Range(s) \union {e}
  BY <1>1, <1>2, <1>3
<1> QED BY <1>1, <1>4 DEF t

LEMMA RangePrefix ==
  ASSUME NEW S, NEW s \in Seq(S), NEW n \in 0..Len(s)
  PROVE  Range(SubSeq(s, 1, n)) \subseteq Range(s)
<1> DEFINE t == SubSeq(s, 1, n)
<1>1. Len(s) \in Nat /\ \A i \in 1..n : s[i] \in S
  BY LenProperties, ElementOfSeq
<1>2. t \in Seq(S) /\ Len(t) = n /\ \A i \in 1..n : t[i] = s[i]
  BY <1>1, SubSeqProperties
<1> HIDE DEF t
<1>3. /\ \A x : x \in Range(s) <=> \E i \in 1..Len(s) : s[i] = x
      /\ \A x : x \in Range(t) <=> \E i \in 1..n : t[i] = x
  BY <1>2, RangeElements
<1>4. \A i \in 1..n : i \in 1..Len(s)
  BY <1>1
<1>5. Range(t) \subseteq Range(s)
  BY <1>2, <1>3, <1>4
<1> QED BY <1>5 DEF t

LEMMA RangeEmpty == Range(<<>>) = {}
<1>1. <<>> \in Seq({})
  BY EmptySeq
<1>2. Range(<<>>) \in SUBSET {}
  BY <1>1, RangeOfSeq
<1> QED BY <1>2

-----------------------------------------------------------------------------
(* The windows *)

LEMMA WindowOfReading ==
  ASSUME NEW m \in Readings
  PROVE  /\ Start(m) \in Starts /\ Start(m) \in Nat /\ m.time \in Nat
         /\ Start(m) <= m.time /\ m.time < Start(m) + Length
<1>1. m.time \in Nat /\ Length \in Nat \ {0}
  BY CellAssumption
<1>2. m.time % Length \in 0..(Length - 1) /\ m.time % Length <= m.time
  BY <1>1
<1> QED BY <1>1, <1>2 DEF Start, Starts
\* The readings of a window among the first n, and whether one of those has
\* closed it for every reading that is not late.
Arrived(n, w) == {m \in Readings : m.cell = Cell /\ Start(m) = w /\ \E i \in 1..n : raw[i] = m}

Closed(w, n) == \E i \in 1..n : raw[i].time - Delay >= w + Length

Typed ==
  /\ raw \in [1..MaxRaw -> Readings]
  /\ read \in 0..MaxRaw /\ saved.read \in 0..MaxRaw
  /\ panes \in [Starts -> SUBSET Readings] /\ saved.panes \in [Starts -> SUBSET Readings]
  /\ maxTime \in Nat /\ watermark \in Nat /\ crashes \in Nat
  /\ blobBuffer \in Seq(Blobs)

LEMMA BlobOfWindow ==
  ASSUME NEW w, NEW es, NEW prior
  PROVE  /\ enrich_blob(aggregate_bucket(w, es), prior).blob = aggregate_bucket(w, es)
         /\ aggregate_bucket(w, es).window_start = w
  BY DEF enrich_blob, aggregate_bucket

LEMMA MaxOfTwo ==
  ASSUME NEW x \in Int, NEW y \in Int
  PROVE  Max({x, y}) \in {x, y} /\ Max({x, y}) >= x /\ Max({x, y}) >= y
<1>1. \E z \in {x, y} : \A u \in {x, y} : z >= u
  <2>1. CASE x >= y
    BY <2>1
  <2>2. CASE ~(x >= y)
    BY <2>2
  <2> QED BY <2>1, <2>2
<1>2. Max({x, y}) \in {x, y} /\ \A u \in {x, y} : Max({x, y}) >= u
  BY <1>1 DEF Max
<1> QED BY <1>2

LEMMA StreamOfReadings ==
  ASSUME Typed
  PROVE  /\ Len(raw) = MaxRaw /\ MaxRaw \in Nat /\ DOMAIN raw = 1..MaxRaw
         /\ \A i \in 1..MaxRaw : raw[i] \in Readings /\ raw[i].time \in Nat
<1>1. MaxRaw \in Nat /\ raw \in [1..MaxRaw -> Readings]
  BY CellAssumption DEF Typed
<1>2. raw \in Seq(Readings)
  BY <1>1, SeqDef
<1>3. Len(raw) = MaxRaw
  BY <1>1, <1>2, LenProperties
<1> QED BY <1>1, <1>3, CellAssumption

\* What the job does with the next reading.
LEMMA ProcessEffect ==
  ASSUME Typed, Process
  PROVE  \E m \in Readings :
           /\ read + 1 \in 1..MaxRaw /\ m = raw[read + 1] /\ read' = read + 1
           /\ maxTime' \in {maxTime, m.time}
           /\ \A w \in Starts : panes'[w] =
                IF m.cell = Cell /\ Start(m) = w /\ ~Passed(w) THEN panes[w] \union {m} ELSE panes[w]
           /\ panes' \in [Starts -> SUBSET Readings]
           /\ UNCHANGED <<raw, baseline, series, latest, watermark, saved, output, crashes,
                          expiries, joins>>
<1> DEFINE m == raw[read + 1]
<1>1. /\ read < Len(raw) /\ read' = read + 1 /\ panes' = Windowed(m)
      /\ maxTime' = Max({maxTime, m.time})
      /\ UNCHANGED <<raw, baseline, series, latest, watermark, saved, output, crashes,
                     expiries, joins>>
  BY DEF Process
<1>2. read + 1 \in 1..MaxRaw /\ m \in Readings /\ m.time \in Nat
  BY <1>1, StreamOfReadings DEF Typed
<1> DEFINE t == m.time
<1>3. maxTime' \in {maxTime, t}
  <2>1. maxTime \in Int /\ t \in Int /\ maxTime' = Max({maxTime, t})
    BY <1>1, <1>2 DEF Typed
  <2> HIDE DEF t
  <2> QED BY <2>1, MaxOfTwo
<1>4. Start(m) \in Starts
  BY <1>2, WindowOfReading
<1>5. /\ \A w \in Starts : panes'[w] =
           IF m.cell = Cell /\ Start(m) = w /\ ~Passed(w) THEN panes[w] \union {m} ELSE panes[w]
      /\ panes' \in [Starts -> SUBSET Readings]
  <2> HIDE DEF m
  <2> QED BY <1>1, <1>2, <1>4 DEF Windowed, Typed
<1> QED BY <1>1, <1>2, <1>3, <1>5

\* The blob of the window that fires, which is the earliest.
LEMMA FireEffect ==
  ASSUME Typed, Fire
  PROVE  \E w \in Starts : \E b :
           /\ Passed(w) /\ panes[w] # {} /\ \A v \in Due : w <= v
           /\ b = enrich_blob(aggregate_bucket(w, panes[w]), baseline)
           /\ panes'[w] = {} /\ \A v \in Starts : v # w => panes'[v] = panes[v]
           /\ panes' \in [Starts -> SUBSET Readings]
           /\ latest' = b /\ baseline' = Pushed(baseline, b.blob.cpm_avg, WindowCount)
           /\ Trend(w, b.blob.cpm_avg)
           /\ blobBuffer' = Append(blobBuffer, b) /\ Blobs' = Blobs \union {b}
           /\ blobBuffer' \in Seq(Blobs')
           /\ UNCHANGED <<raw, read, maxTime, watermark, saved, aggregated, alerts, crashes,
                          expiries, joins>>
<1>1. PICK w \in Due :
        LET blob == aggregate_bucket(w, panes[w]) IN
          /\ \A v \in Due : w <= v
          /\ panes' = [panes EXCEPT ![w] = {}]
          /\ Roll(blob)
          /\ Trend(w, blob.cpm_avg)
          /\ UNCHANGED <<raw, read, maxTime, watermark, saved, aggregated, alerts, crashes,
                         expiries, joins>>
  BY DEF Fire
<1> DEFINE a == aggregate_bucket(w, panes[w])
           b == enrich_blob(a, baseline)
<1>2. w \in Starts /\ Passed(w) /\ panes[w] # {}
  BY <1>1 DEF Due
<1>3. b.blob = a
  BY BlobOfWindow
<1>4. /\ panes'[w] = {} /\ \A v \in Starts : v # w => panes'[v] = panes[v]
      /\ panes' \in [Starts -> SUBSET Readings]
  BY <1>1, <1>2 DEF Typed
<1>5. /\ blobBuffer' = Append(blobBuffer, b) /\ latest' = b /\ aggregated' = aggregated
      /\ baseline' = Pushed(baseline, a.cpm_avg, WindowCount) /\ Trend(w, a.cpm_avg)
  BY <1>1 DEF Roll
<1> HIDE DEF a, b
<1>6. blobBuffer \in Seq(Blobs \union {b})
  BY SeqMonotonic DEF Typed
<1>7. /\ blobBuffer' \in Seq(Blobs \union {b})
      /\ Range(blobBuffer') = Range(blobBuffer) \union {b}
  BY <1>5, <1>6, RangeAppend
<1>8. Blobs' = aggregated' \union Range(blobBuffer')
  BY DEF Blobs, Range
<1>9. Blobs' = Blobs \union {b}
  BY <1>5, <1>7, <1>8 DEF Blobs
<1> QED BY <1>1, <1>2, <1>3, <1>4, <1>5, <1>7, <1>9 DEF a, b
\* A checkpoint holds a part of the job's state; a restart goes back to it, and
\* of what the sinks had sent some has arrived.
LEMMA CheckpointEffect ==
  ASSUME Typed, Checkpoint
  PROVE  /\ saved' = [read |-> read, panes |-> panes, baseline |-> baseline,
                      series |-> series, latest |-> latest]
         /\ aggregated' = Blobs /\ Blobs' = Blobs /\ blobBuffer' = <<>> /\ Due = {}
         /\ UNCHANGED <<raw, state, maxTime, watermark, crashes, expiries, joins>>
<1>1. Blobs' = aggregated' \union Range(blobBuffer')
  BY DEF Blobs, Range
<1>2. aggregated' = Blobs /\ blobBuffer' = <<>>
  BY DEF Checkpoint, Blobs
<1>3. Blobs' = Blobs
  BY <1>1, <1>2, RangeEmpty
<1> QED BY <1>2, <1>3 DEF Checkpoint

LEMMA RestoreEffect ==
  ASSUME Typed, Restore
  PROVE  /\ read' = saved.read /\ panes' = saved.panes
         /\ baseline' = saved.baseline /\ series' = saved.series /\ latest' = saved.latest
         /\ maxTime' = 0 /\ watermark' = 0 /\ crashes' = crashes + 1
         /\ blobBuffer' = <<>> /\ Blobs' = aggregated'
         /\ aggregated \subseteq aggregated' /\ Blobs' \subseteq Blobs
         /\ UNCHANGED <<raw, saved, expiries, joins>>
<1>1. Blobs' = aggregated' \union Range(blobBuffer')
  BY DEF Blobs, Range
<1>2. PICK n \in 0..Len(blobBuffer) : aggregated' = aggregated \union Range(SubSeq(blobBuffer, 1, n))
  BY DEF Restore
<1>3. Range(SubSeq(blobBuffer, 1, n)) \subseteq Range(blobBuffer)
  BY RangePrefix DEF Typed
<1>4. blobBuffer' = <<>> /\ Blobs' = aggregated'
  BY <1>1, RangeEmpty DEF Restore
<1> QED BY <1>2, <1>3, <1>4 DEF Restore, Blobs

LEMMA OtherEffect ==
  ASSUME EmitWatermark \/ Expire \/ (\E located \in BOOLEAN : JoinAlert(located)) \/ UNCHANGED vars
  PROVE  /\ UNCHANGED <<raw, read, panes, maxTime, saved, blobBuffer, aggregated, crashes>>
         /\ Blobs' = Blobs
<1>1. UNCHANGED <<raw, read, panes, maxTime, saved, blobBuffer, aggregated, crashes>>
  BY DEF EmitWatermark, Expire, JoinAlert, vars, state, output
<1> QED BY <1>1 DEF Blobs, Range

LEMMA InitTyped == Init => Typed
<1> SUFFICES ASSUME Init PROVE Typed
  OBVIOUS
<1>1. raw \in [1..MaxRaw -> Readings] /\ MaxRaw \in Nat
  BY CellAssumption DEF Init
<1>2. saved.read = 0 /\ saved.panes = Nothing /\ panes = Nothing /\ read = 0
  BY DEF Init, Fresh
<1>3. Nothing \in [Starts -> SUBSET Readings]
  BY DEF Nothing
<1>4. blobBuffer \in Seq(Blobs)
  BY EmptySeq DEF Init
<1> QED BY <1>1, <1>2, <1>3, <1>4 DEF Init, Typed

LEMMA NextTyped == Typed /\ [Next]_vars => Typed'
<1> SUFFICES ASSUME Typed, [Next]_vars PROVE Typed'
  OBVIOUS
<1>1. CASE Process
  <2>1. PICK m \in Readings :
          /\ read + 1 \in 1..MaxRaw /\ read' = read + 1 /\ maxTime' \in {maxTime, m.time}
          /\ panes' \in [Starts -> SUBSET Readings]
          /\ UNCHANGED <<raw, watermark, saved, output, crashes>>
    BY <1>1, ProcessEffect
  <2>2. m.time \in Nat
    BY CellAssumption
  <2>3. blobBuffer' \in Seq(Blobs)'
    BY <2>1 DEF Typed, output, Blobs, Range
  <2> QED BY <2>1, <2>2, <2>3 DEF Typed
<1>2. CASE Fire
  <2>1. /\ panes' \in [Starts -> SUBSET Readings] /\ blobBuffer' \in Seq(Blobs')
        /\ UNCHANGED <<raw, read, maxTime, watermark, saved, crashes>>
    BY <1>2, FireEffect
  <2> QED BY <2>1 DEF Typed
<1>3. CASE Checkpoint
  <2>1. /\ saved'.read = read /\ saved'.panes = panes /\ blobBuffer' = <<>>
        /\ UNCHANGED <<raw, read, panes, maxTime, watermark, crashes>>
    BY <1>3, CheckpointEffect DEF state
  <2>2. blobBuffer' \in Seq(Blobs')
    BY <2>1, EmptySeq
  <2> QED BY <2>1, <2>2 DEF Typed
<1>4. CASE Restore
  <2>1. /\ read' = saved.read /\ panes' = saved.panes /\ maxTime' = 0 /\ watermark' = 0
        /\ crashes' = crashes + 1 /\ blobBuffer' = <<>> /\ UNCHANGED <<raw, saved>>
    BY <1>4, RestoreEffect
  <2>2. blobBuffer' \in Seq(Blobs')
    BY <2>1, EmptySeq
  <2> QED BY <2>1, <2>2 DEF Typed
<1>5. CASE EmitWatermark \/ Expire \/ (\E located \in BOOLEAN : JoinAlert(located)) \/ UNCHANGED vars
  <2>1. /\ UNCHANGED <<raw, read, panes, maxTime, saved, blobBuffer, aggregated, crashes>>
        /\ Blobs' = Blobs
    BY <1>5, OtherEffect
  <2>2. watermark' \in Nat
    <3>1. watermark' = watermark \/ (watermark' = maxTime - Delay /\ maxTime - Delay > watermark)
      BY <1>5 DEF EmitWatermark, Expire, JoinAlert, vars
    <3> QED BY <3>1, CellAssumption DEF Typed
  <2> QED BY <2>1, <2>2 DEF Typed
<1> QED BY <1>1, <1>2, <1>3, <1>4, <1>5 DEF Next

LEMMA TypedInvariant == Spec => []Typed
  BY InitTyped, NextTyped, PTL DEF Spec

-----------------------------------------------------------------------------
(* Windows fire once *)

\* Without a crash a window that has fired stays behind the watermark.
FiredOnce ==
  crashes = 0 =>
    \A a \in Blobs :
      /\ a.blob.window_start \in Starts
      /\ Passed(a.blob.window_start) /\ panes[a.blob.window_start] = {}
      /\ \A b \in Blobs : a.blob.window_start = b.blob.window_start => a.blob = b.blob

LEMMA InitFiredOnce == Init => FiredOnce
<1> SUFFICES ASSUME Init PROVE FiredOnce
  OBVIOUS
<1>1. Blobs = {}
  BY RangeEmpty DEF Init, Blobs
<1> QED BY <1>1 DEF FiredOnce

LEMMA NextFiredOnce == Typed /\ Typed' /\ FiredOnce /\ [Next]_vars => FiredOnce'
<1> SUFFICES ASSUME Typed, Typed', FiredOnce, [Next]_vars PROVE FiredOnce'
  OBVIOUS
<1>1. SUFFICES ASSUME crashes' = 0, NEW a \in Blobs'
               PROVE  /\ a.blob.window_start \in Starts
                      /\ a.blob.window_start + Length <= watermark'
                      /\ panes'[a.blob.window_start] = {}
                      /\ \A b \in Blobs' : a.blob.window_start = b.blob.window_start => a.blob = b.blob
  BY DEF FiredOnce, Passed
<1>2. \A w \in Starts : w \in Nat
  BY WindowOfReading DEF Starts
<1>3. CASE Restore
  BY <1>1, <1>3, RestoreEffect DEF Typed
<1>4. CASE Process
  <2>1. PICK m \in Readings :
          /\ \A w \in Starts : panes'[w] =
               IF m.cell = Cell /\ Start(m) = w /\ ~Passed(w) THEN panes[w] \union {m} ELSE panes[w]
          /\ UNCHANGED <<watermark, output, crashes>>
    BY <1>4, ProcessEffect
  <2>2. Blobs' = Blobs
    BY <2>1 DEF output, Blobs, Range
  <2> QED BY <1>1, <2>1, <2>2 DEF FiredOnce, Passed
<1>5. CASE Fire
  <2>1. PICK w, b :
          /\ w \in Starts /\ Passed(w) /\ panes[w] # {}
          /\ b = enrich_blob(aggregate_bucket(w, panes[w]), baseline)
          /\ panes'[w] = {} /\ \A v \in Starts : v # w => panes'[v] = panes[v]
          /\ Blobs' = Blobs \union {b} /\ UNCHANGED <<watermark, crashes>>
    BY <1>5, FireEffect
  <2>2. b.blob.window_start = w
    BY <2>1, BlobOfWindow
  <2>3. \A c \in Blobs : c.blob.window_start # w
    BY <1>1, <2>1 DEF FiredOnce
  <2> QED BY <1>1, <2>1, <2>2, <2>3 DEF FiredOnce, Passed
<1>6. CASE Checkpoint
  BY <1>1, <1>6, CheckpointEffect DEF FiredOnce, Passed, state
<1>7. CASE EmitWatermark \/ Expire \/ (\E located \in BOOLEAN : JoinAlert(located)) \/ UNCHANGED vars
  <2>1. UNCHANGED <<panes, crashes>> /\ Blobs' = Blobs
    BY <1>7, OtherEffect
  <2>2. watermark \in Nat /\ watermark' \in Nat /\ watermark' >= watermark
    BY <1>7 DEF EmitWatermark, Expire, JoinAlert, vars, Typed
  <2>3. /\ a.blob.window_start \in Starts /\ a.blob.window_start + Length <= watermark
        /\ panes[a.blob.window_start] = {}
        /\ \A b \in Blobs : a.blob.window_start = b.blob.window_start => a.blob = b.blob
    BY <1>1, <2>1 DEF FiredOnce, Passed
  <2>4. a.blob.window_start + Length <= watermark'
    BY <1>2, <2>2, <2>3, CellAssumption
  <2> QED BY <2>1, <2>3, <2>4
<1> QED BY <1>3, <1>4, <1>5, <1>6, <1>7 DEF Next
-----------------------------------------------------------------------------
(* Windows are whole *)

Clock ==
  /\ maxTime # 0 => \E i \in 1..read : raw[i].time = maxTime
  /\ watermark # 0 => \E i \in 1..read : raw[i].time - Delay >= watermark

LEMMA InitClock == Init => Clock
  BY DEF Init, Clock

LEMMA NextClock == Typed /\ Clock /\ [Next]_vars => Clock'
<1> SUFFICES ASSUME Typed, Clock, [Next]_vars PROVE Clock'
  OBVIOUS
<1>1. CASE Process
  <2>1. PICK m \in Readings :
          /\ read + 1 \in 1..MaxRaw /\ m = raw[read + 1] /\ read' = read + 1
          /\ maxTime' \in {maxTime, m.time} /\ UNCHANGED <<raw, watermark>>
    BY <1>1, ProcessEffect
  <2>2. read + 1 \in 1..(read + 1) /\ \A i \in 1..read : i \in 1..(read + 1)
    BY DEF Typed
  <2>3. maxTime' # 0 => \E i \in 1..(read + 1) : raw[i].time = maxTime'
    BY <2>1, <2>2 DEF Clock
  <2>4. watermark # 0 => \E i \in 1..(read + 1) : raw[i].time - Delay >= watermark
    BY <2>2 DEF Clock
  <2> QED BY <2>1, <2>3, <2>4 DEF Clock
<1>2. CASE EmitWatermark
  <2>1. maxTime - Delay > watermark /\ watermark' = maxTime - Delay /\ UNCHANGED <<raw, read, maxTime>>
    BY <1>2 DEF EmitWatermark, state
  <2>2. maxTime # 0 /\ maxTime \in Nat /\ Delay \in Nat
    BY <2>1, CellAssumption DEF Typed
  <2>3. PICK i \in 1..read : raw[i].time = maxTime
    BY <2>2 DEF Clock
  <2>4. raw[i].time - Delay >= watermark'
    BY <2>1, <2>2, <2>3
  <2> QED BY <2>1, <2>4 DEF Clock
<1>3. CASE Restore
  BY <1>3 DEF Restore, Clock
<1>4. CASE Fire \/ Checkpoint \/ Expire \/ (\E located \in BOOLEAN : JoinAlert(located)) \/ UNCHANGED vars
  <2>1. UNCHANGED <<raw, read, maxTime, watermark>>
    BY <1>4 DEF Fire, Checkpoint, Expire, JoinAlert, vars, state
  <2> QED BY <2>1 DEF Clock
<1> QED BY <1>1, <1>2, <1>3, <1>4 DEF Next

LEMMA ClosedByWatermark ==
  ASSUME Typed, Clock, NEW w \in Starts, Passed(w)
  PROVE  Closed(w, read)
<1>1. w \in Nat /\ Length \in Nat \ {0} /\ Delay \in Nat /\ watermark \in Nat
  BY WindowOfReading, CellAssumption DEF Starts, Typed
<1>2. w + Length <= watermark /\ watermark # 0
  BY <1>1 DEF Passed
<1>3. PICK i \in 1..read : raw[i].time - Delay >= watermark
  BY <1>2 DEF Clock
<1>4. i \in 1..MaxRaw
  BY CellAssumption DEF Typed
<1>5. raw[i].time \in Nat
  BY <1>4, StreamOfReadings
<1>6. raw[i].time - Delay >= w + Length
  BY <1>1, <1>2, <1>3, <1>5
<1> QED BY <1>6 DEF Closed

\* A reading behind one that has closed its window would be late.
LEMMA NothingFollows ==
  ASSUME Typed, InTime, NEW n \in 0..MaxRaw, NEW j \in 1..MaxRaw, j > n
  PROVE  ~Closed(Start(raw[j]), n)
<1> SUFFICES ASSUME NEW i \in 1..n, raw[i].time - Delay >= Start(raw[j]) + Length PROVE FALSE
  BY DEF Closed
<1>1. MaxRaw \in Nat /\ i \in 1..MaxRaw /\ i < j /\ DOMAIN raw = 1..MaxRaw
  BY StreamOfReadings
<1>2. raw[i].time - Delay <= raw[j].time
  BY <1>1 DEF InTime
<1>3. raw[j] \in Readings /\ raw[i].time \in Nat /\ Delay \in Nat /\ Length \in Nat
  BY <1>1, StreamOfReadings, CellAssumption
<1>4. raw[j].time < Start(raw[j]) + Length /\ raw[j].time \in Nat /\ Start(raw[j]) \in Nat
  BY <1>3, WindowOfReading
<1> QED BY <1>2, <1>3, <1>4

LEMMA ClosedIsWhole ==
  ASSUME Typed, InTime, NEW n \in 0..MaxRaw, NEW w \in Starts, Closed(w, n)
  PROVE  Arrived(n, w) = Whole(w)
<1>1. Range(raw) = {raw[i] : i \in 1..MaxRaw} /\ MaxRaw \in Nat
  BY StreamOfReadings DEF Range
<1>2. ASSUME NEW m \in Whole(w) PROVE m \in Arrived(n, w)
  <2>1. PICK j \in 1..MaxRaw : raw[j] = m
    BY <1>1 DEF Whole
  <2>2. m \in Readings /\ m.cell = Cell /\ Start(m) = w
    BY <2>1, StreamOfReadings DEF Whole
  <2>3. ~(j > n)
    BY <2>1, <2>2, NothingFollows
  <2>4. j \in 1..n
    BY <1>1, <2>3
  <2> QED BY <2>1, <2>2, <2>4 DEF Arrived
<1>3. ASSUME NEW m \in Arrived(n, w) PROVE m \in Whole(w)
  <2>1. PICK i \in 1..n : raw[i] = m
    BY DEF Arrived
  <2>2. i \in 1..MaxRaw
    BY <1>1
  <2> QED BY <1>1, <2>1, <2>2 DEF Arrived, Whole
<1> QED BY <1>2, <1>3

\* A window lacks a reading only after it is closed, and then it is empty.
Filled(n, contents) ==
  \A w \in Starts : contents[w] = Arrived(n, w) \/ (contents[w] = {} /\ Closed(w, n))

WholeWindows ==
  InTime =>
    /\ Filled(read, panes) /\ Filled(saved.read, saved.panes)
    /\ \A b \in Blobs : b.blob = aggregate_bucket(b.blob.window_start, Whole(b.blob.window_start))

LEMMA InitWholeWindows == Init => WholeWindows
<1> SUFFICES ASSUME Init PROVE WholeWindows
  OBVIOUS
<1>1. Blobs = {}
  BY RangeEmpty DEF Init, Blobs
<1>2. \A w \in Starts : Arrived(0, w) = {} /\ Nothing[w] = {}
  BY DEF Arrived, Nothing
<1>3. Filled(0, Nothing)
  BY <1>2 DEF Filled
<1>4. read = 0 /\ panes = Nothing /\ saved.read = 0 /\ saved.panes = Nothing
  BY DEF Init, Fresh
<1> QED BY <1>1, <1>3, <1>4 DEF WholeWindows

LEMMA ProcessFills ==
  ASSUME Typed, Clock, InTime, Filled(read, panes), Process
  PROVE  Filled(read', panes')
<1>1. PICK m \in Readings :
        /\ read + 1 \in 1..MaxRaw /\ m = raw[read + 1] /\ read' = read + 1
        /\ \A w \in Starts : panes'[w] =
             IF m.cell = Cell /\ Start(m) = w /\ ~Passed(w) THEN panes[w] \union {m} ELSE panes[w]
  BY ProcessEffect
<1>2. read \in 0..MaxRaw /\ read \in Nat /\ read + 1 > read
  BY CellAssumption DEF Typed
<1>3. \A i : i \in 1..(read + 1) <=> i \in 1..read \/ i = read + 1
  BY <1>2
<1>4. ~Closed(Start(m), read)
  BY <1>1, <1>2, NothingFollows
<1>5. ASSUME NEW w \in Starts
      PROVE  panes'[w] = Arrived(read + 1, w) \/ (panes'[w] = {} /\ Closed(w, read + 1))
  <2>1. CASE m.cell = Cell /\ Start(m) = w
    <3>1. ~Passed(w) /\ ~Closed(w, read)
      BY <1>4, <2>1, ClosedByWatermark
    <3>2. panes[w] = Arrived(read, w)
      BY <3>1 DEF Filled
    <3>3. Arrived(read + 1, w) = Arrived(read, w) \union {m}
      BY <1>1, <1>3, <2>1 DEF Arrived
    <3> QED BY <1>1, <2>1, <3>1, <3>2, <3>3
  <2>2. CASE ~(m.cell = Cell /\ Start(m) = w)
    <3>1. Arrived(read + 1, w) = Arrived(read, w)
      BY <1>1, <1>3, <2>2 DEF Arrived
    <3>2. Closed(w, read) => Closed(w, read + 1)
      BY <1>3 DEF Closed
    <3> QED BY <1>1, <2>2, <3>1, <3>2 DEF Filled
  <2> QED BY <2>1, <2>2
<1> QED BY <1>1, <1>5 DEF Filled

LEMMA NextWholeWindows ==
  Typed /\ Typed' /\ Clock /\ WholeWindows /\ [Next]_vars => WholeWindows'
<1> SUFFICES ASSUME Typed, Typed', Clock, WholeWindows, [Next]_vars PROVE WholeWindows'
  OBVIOUS
<1>1. raw' = raw
  BY DEF Next, vars, Process, EmitWatermark, Fire, Checkpoint, Restore, Expire, JoinAlert
<1>2. SUFFICES ASSUME InTime
      PROVE  /\ Filled(read', panes') /\ Filled(saved'.read, saved'.panes)
             /\ \A b \in Blobs' : b.blob = aggregate_bucket(b.blob.window_start, Whole(b.blob.window_start))
  <2>1. /\ InTime' <=> InTime
        /\ \A w : Whole(w)' = Whole(w)
    BY <1>1 DEF InTime, Whole, Range
  <2>2. /\ Filled(read, panes)' <=> Filled(read', panes')
        /\ Filled(saved.read, saved.panes)' <=> Filled(saved'.read, saved'.panes)
    BY <1>1 DEF Filled, Arrived, Closed
  <2>3. WholeWindows' <=>
          (InTime' => /\ Filled(read, panes)' /\ Filled(saved.read, saved.panes)'
                      /\ \A b \in Blobs' : b.blob =
                           aggregate_bucket(b.blob.window_start, Whole(b.blob.window_start)'))
    BY DEF WholeWindows
  <2> QED BY <2>1, <2>2, <2>3
<1>3. /\ Filled(read, panes) /\ Filled(saved.read, saved.panes)
      /\ \A b \in Blobs : b.blob = aggregate_bucket(b.blob.window_start, Whole(b.blob.window_start))
  BY <1>2 DEF WholeWindows
<1>4. CASE Process
  <2>1. UNCHANGED <<saved, output>>
    BY <1>4, ProcessEffect
  <2>2. Blobs' = Blobs
    BY <2>1 DEF output, Blobs, Range
  <2> QED BY <1>2, <1>3, <1>4, <2>1, <2>2, ProcessFills
<1>5. CASE Fire
  <2>1. PICK w, b :
          /\ w \in Starts /\ Passed(w) /\ panes[w] # {}
          /\ b = enrich_blob(aggregate_bucket(w, panes[w]), baseline)
          /\ panes'[w] = {} /\ \A v \in Starts : v # w => panes'[v] = panes[v]
          /\ Blobs' = Blobs \union {b} /\ UNCHANGED <<read, saved>>
    BY <1>5, FireEffect
  <2>2. Closed(w, read)
    BY <2>1, ClosedByWatermark
  <2>3. panes[w] = Whole(w)
    BY <1>2, <1>3, <2>1, <2>2, ClosedIsWhole DEF Filled, Typed
  <2>4. b.blob = aggregate_bucket(b.blob.window_start, Whole(b.blob.window_start))
    BY <2>1, <2>3, BlobOfWindow
  <2>5. Filled(read, panes')
    BY <1>3, <2>1, <2>2 DEF Filled
  <2> QED BY <1>3, <2>1, <2>4, <2>5
<1>6. CASE Checkpoint
  BY <1>3, <1>6, CheckpointEffect DEF state
<1>7. CASE Restore
  BY <1>3, <1>7, RestoreEffect
<1>8. CASE EmitWatermark \/ Expire \/ (\E located \in BOOLEAN : JoinAlert(located)) \/ UNCHANGED vars
  BY <1>3, <1>8, OtherEffect
<1> QED BY <1>4, <1>5, <1>6, <1>7, <1>8 DEF Next

\* A window has one blob, however often the topic or the archive receives it:
\* without a crash because it stays behind the watermark, and with one, when no
\* reading is late, because it fires with the same readings again.
THEOREM OneBlobPerWindow == Spec => []WindowsFireOnce
<1>1. Init => Typed /\ FiredOnce /\ Clock /\ WholeWindows
  BY InitTyped, InitFiredOnce, InitClock, InitWholeWindows
<1>2. Typed /\ FiredOnce /\ Clock /\ WholeWindows /\ [Next]_vars
        => Typed' /\ FiredOnce' /\ Clock' /\ WholeWindows'
  BY NextTyped, NextFiredOnce, NextClock, NextWholeWindows
<1>3. FiredOnce /\ WholeWindows => WindowsFireOnce
  <2> SUFFICES ASSUME FiredOnce, WholeWindows, crashes = 0 \/ InTime, NEW a \in Blobs, NEW b \in Blobs,
                      a.blob.window_start = b.blob.window_start
               PROVE  a.blob = b.blob
    BY DEF WindowsFireOnce
  <2>1. CASE crashes = 0
    BY <2>1 DEF FiredOnce
  <2>2. CASE InTime
    <3>1. /\ a.blob = aggregate_bucket(a.blob.window_start, Whole(a.blob.window_start))
          /\ b.blob = aggregate_bucket(b.blob.window_start, Whole(b.blob.window_start))
      BY <2>2 DEF WholeWindows
    <3> QED BY <3>1
  <2> QED BY <2>1, <2>2
<1> QED BY <1>1, <1>2, <1>3, PTL DEF Spec
-----------------------------------------------------------------------------
(* The windows of the cell in order *)

Window(i) == CHOOSE v \in Occupied : Rank(v) = i
Average(i) == aggregate_bucket(Window(i), Whole(Window(i))).cpm_avg

\* The averages of the windows after the c-th, up to the f-th.
Slice(c, f) == [i \in 1..(f - c) |-> Average(c + i)]

LEMMA OccupiedFinite ==
  ASSUME Typed
  PROVE  /\ Occupied \in SUBSET Nat /\ IsFiniteSet(Occupied)
         /\ \A w \in Occupied : w \in Starts /\ Whole(w) # {}
<1>1. DOMAIN raw = 1..MaxRaw /\ MaxRaw \in Nat /\ \A i \in 1..MaxRaw : raw[i] \in Readings
  BY StreamOfReadings
<1> DEFINE I == {i \in 1..MaxRaw : raw[i].cell = Cell}
           f == [i \in I |-> Start(raw[i])]
<1>2. IsFiniteSet(I)
  <2>1. IsFiniteSet(1..MaxRaw)
    BY <1>1, FS_Interval
  <2> QED BY <2>1, FS_Subset
<1>3. \A w : w \in Occupied <=> \E i \in I : Start(raw[i]) = w
  <2>1. \A m : m \in Range(raw) <=> \E i \in 1..MaxRaw : raw[i] = m
    BY <1>1 DEF Range
  <2>2. \A i \in I : Start(raw[i]) \in Starts
    BY <1>1, WindowOfReading
  <2> QED BY <2>1, <2>2 DEF Occupied, Whole
<1>4. f \in Surjection(I, Occupied)
  BY <1>3 DEF Surjection
<1> HIDE DEF f, I
<1>5. IsFiniteSet(Occupied)
  BY <1>2, <1>4, FS_Surjection
<1>6. Occupied \in SUBSET Nat
  BY WindowOfReading DEF Occupied, Starts
<1> QED BY <1>5, <1>6 DEF Occupied

\* Windows are ranked by their starts, without a gap.
LEMMA RankProperties ==
  ASSUME Typed
  PROVE  /\ \A w \in Occupied : Rank(w) \in 1..Cardinality(Occupied) /\ Window(Rank(w)) = w
         /\ \A u, w \in Occupied : u < w => Rank(u) < Rank(w)
         /\ \A i \in 1..Cardinality(Occupied) : Window(i) \in Occupied /\ Rank(Window(i)) = i
         /\ Cardinality(Occupied) \in Nat
<1> DEFINE N == Cardinality(Occupied)
           Upto(w) == {v \in Occupied : v <= w}
           rank == [w \in Occupied |-> Rank(w)]
<1>1. Occupied \in SUBSET Nat /\ IsFiniteSet(Occupied) /\ N \in Nat
  BY OccupiedFinite, FS_CardinalityType
<1>2. ASSUME NEW w \in Occupied
      PROVE  IsFiniteSet(Upto(w)) /\ Rank(w) = Cardinality(Upto(w)) /\ Rank(w) \in 1..N
  <2> DEFINE U == Upto(w)
  <2>1. U \in SUBSET Occupied /\ w \in U /\ Rank(w) = Cardinality(U)
    BY <1>1 DEF Rank
  <2> HIDE DEF U
  <2>2. IsFiniteSet(U) /\ Cardinality(U) <= N
    BY <1>1, <2>1, FS_Subset
  <2>3. Cardinality(U) \in Nat /\ Cardinality(U) # 0
    BY <2>1, <2>2, FS_CardinalityType, FS_EmptySet
  <2> HIDE DEF N
  <2>4. Cardinality(U) \in 1..N
    BY <1>1, <2>2, <2>3
  <2> QED BY <2>1, <2>2, <2>4 DEF U
<1>3. ASSUME NEW u \in Occupied, NEW w \in Occupied, u < w PROVE Rank(u) < Rank(w)
  <2> DEFINE U == Upto(u)
             V == Upto(w)
  <2>1. U \in SUBSET V /\ w \in V /\ w \notin U
    <3>1. \A v \in Occupied : v \in Nat
      BY <1>1
    <3>2. u \in Nat /\ w \in Nat
      BY <1>1
    <3>3. \A v \in Occupied : v <= u => v <= w
      BY <1>3, <3>1, <3>2
    <3>4. U \in SUBSET V
      BY <3>3
    <3>5. w \in V
      BY <3>2
    <3>6. ~(w <= u)
      BY <1>3, <3>2
    <3>7. w \notin U
      BY <3>6
    <3> QED BY <3>4, <3>5, <3>7
  <2>2. IsFiniteSet(V) /\ Rank(u) = Cardinality(U) /\ Rank(w) = Cardinality(V)
    BY <1>2
  <2> HIDE DEF U, V
  <2>3. IsFiniteSet(U) /\ Cardinality(U) <= Cardinality(V) /\ Cardinality(V) # Cardinality(U)
    BY <2>1, <2>2, FS_Subset
  <2>4. Cardinality(U) \in Nat /\ Cardinality(V) \in Nat
    BY <2>2, <2>3, FS_CardinalityType
  <2> QED BY <2>2, <2>3, <2>4
<1>4. ASSUME NEW u \in Occupied, NEW w \in Occupied, Rank(u) = Rank(w) PROVE u = w
  <2>1. Rank(u) \in Nat /\ u \in Nat /\ w \in Nat
    <3> HIDE DEF N
    <3>1. Rank(u) \in 1..N /\ u \in Nat /\ w \in Nat
      BY <1>1, <1>2
    <3> QED BY <3>1
  <2>2. ~(Rank(u) < Rank(w)) /\ ~(Rank(w) < Rank(u))
    BY <1>4, <2>1
  <2>3. ~(u < w) /\ ~(w < u)
    BY <1>3, <2>2
  <2> QED BY <2>1, <2>3
<1>5. rank \in Injection(Occupied, 1..N)
  <2>1. rank \in [Occupied -> 1..N]
    BY <1>2
  <2>2. \A u, w \in Occupied : rank[u] = rank[w] => u = w
    BY <1>4
  <2> HIDE DEF rank
  <2> QED BY <2>1, <2>2 DEF Injection, IsInjective
<1>6. rank \in Surjection(Occupied, 1..N)
  <2>1. IsFiniteSet(1..N) /\ Cardinality(1..N) = N
    <3> HIDE DEF N
    <3>1. IsFiniteSet(1..N) /\ Cardinality(1..N) = IF 1 > N THEN 0 ELSE N - 1 + 1
      BY <1>1, FS_Interval
    <3> QED BY <1>1, <3>1
  <2> HIDE DEF rank
  <2> QED BY <1>5, <2>1, FS_Injection
<1>7. \A i \in 1..N : \E w \in Occupied : Rank(w) = i
  BY <1>6 DEF Surjection
<1>8. \A i \in 1..N : Window(i) \in Occupied /\ Rank(Window(i)) = i
  BY <1>7 DEF Window
<1>9. \A w \in Occupied : Window(Rank(w)) = w
  BY <1>4 DEF Window
<1> QED BY <1>1, <1>2, <1>3, <1>8, <1>9

Earlier(w) == {v \in Occupied : v < w}

\* How many windows there are up to one: so many as its rank says.
LEMMA RankOfFired ==
  ASSUME Typed, NEW w \in Occupied
  PROVE  /\ Cardinality(Earlier(w)) \in Nat /\ Rank(w) = Cardinality(Earlier(w)) + 1
         /\ Cardinality(Earlier(w) \union {w}) = Rank(w)
         /\ Earlier(w) \union {w} = {v \in Occupied : v <= w}
<1> DEFINE F == Earlier(w)
<1>1. Occupied \in SUBSET Nat /\ IsFiniteSet(Occupied)
  BY OccupiedFinite
<1>2. IsFiniteSet(F)
  BY <1>1, FS_Subset DEF Earlier
<1>3. w \in Nat /\ \A v \in Occupied : v \in Nat
  BY <1>1
<1>4. w \notin F
  BY <1>3 DEF Earlier
<1>5. \A v \in Occupied : v <= w <=> v < w \/ v = w
  BY <1>3
<1>6. F \union {w} = {v \in Occupied : v <= w}
  BY <1>5 DEF Earlier
<1> HIDE DEF F
<1>7. Cardinality(F \union {w}) = Cardinality(F) + 1 /\ Cardinality(F) \in Nat
  BY <1>2, <1>4, FS_AddElement, FS_CardinalityType
<1> QED BY <1>6, <1>7 DEF Rank, F

LEMMA LastOfProperties ==
  ASSUME NEW S, NEW s \in Seq(S), NEW n \in Nat \ {0}
  PROVE  /\ LastOf(s, n) \in Seq(S)
         /\ Len(LastOf(s, n)) = IF Len(s) > n THEN n ELSE Len(s)
         /\ \A i \in 1..Len(LastOf(s, n)) : LastOf(s, n)[i] = s[Len(s) - Len(LastOf(s, n)) + i]
<1> DEFINE m == Len(s)
           first == Max({1, m - n + 1})
<1>1. m \in Nat /\ \A i \in 1..m : s[i] \in S
  BY LenProperties, ElementOfSeq
<1>2. first = IF m > n THEN m - n + 1 ELSE 1
  <2> DEFINE x == m - n + 1
  <2>1. x \in Int /\ 1 \in Int
    BY <1>1
  <2>2. first \in {1, x} /\ first >= 1 /\ first >= x
    <3> HIDE DEF x
    <3>1. Max({1, x}) \in {1, x} /\ Max({1, x}) >= 1 /\ Max({1, x}) >= x
      BY <2>1, MaxOfTwo
    <3> QED BY <3>1 DEF x
  <2> HIDE DEF first, m
  <2> QED BY <1>1, <2>1, <2>2
<1>3. LastOf(s, n) = SubSeq(s, first, m)
  BY DEF LastOf
<1> HIDE DEF first, m
<1>4. first \in 1..m + 1 /\ m - first + 1 = IF m > n THEN n ELSE m
  BY <1>1, <1>2
<1>5. \A i \in first..m : s[i] \in S
  BY <1>1, <1>4
<1>6. /\ SubSeq(s, first, m) \in Seq(S)
      /\ Len(SubSeq(s, first, m)) = IF first <= m THEN m - first + 1 ELSE 0
      /\ \A i \in 1..m - first + 1 : SubSeq(s, first, m)[i] = s[first + i - 1]
  BY <1>1, <1>4, <1>5, SubSeqProperties
<1>7. Len(LastOf(s, n)) = m - first + 1
  BY <1>1, <1>3, <1>4, <1>6
<1>8. \A i \in 1..m - first + 1 : m - (m - first + 1) + i = first + i - 1
  BY <1>1, <1>4
<1> QED BY <1>3, <1>4, <1>6, <1>7, <1>8 DEF m
-----------------------------------------------------------------------------
(* The least-number principle *)

Below(T, n) == {k \in T : k < n}

\* Every set of natural numbers that is not empty has a least member: the sets
\* of the members below one of its members are finite, and strict inclusion
\* among finite sets is well founded.
LEMMA LeastNumber ==
  ASSUME NEW T \in SUBSET Nat, T # {}
  PROVE  \E n \in T : \A k \in T : n <= k
<1> DEFINE Belows == {Below(T, n) : n \in T}
<1>1. ASSUME NEW n \in T PROVE Below(T, n) \in FiniteSubsetsOf(Nat)
  <2>1. Below(T, n) \in SUBSET Nat
    BY DEF Below
  <2>2. \A k \in Below(T, n) : k <= n
    BY DEF Below
  <2>3. IsFiniteSet(Below(T, n))
    BY <2>1, <2>2, FS_BoundedSetOfNaturals
  <2> QED BY <2>1, <2>3 DEF FiniteSubsetsOf
<1>2. PICK B \in Belows : \A C \in Belows : <<C, B>> \notin StrictSubsetOrdering(Nat)
  <2>1. Belows \subseteq FiniteSubsetsOf(Nat) /\ Belows # {}
    BY <1>1
  <2> HIDE DEF Belows
  <2> QED BY <2>1, FS_StrictSubsetOrderingWellFounded, WFMin
<1>3. PICK n \in T : B = Below(T, n)
  BY <1>2
<1>4. ASSUME NEW k \in T, k < n PROVE FALSE
  <2>1. \A j \in Below(T, k) : j \in T /\ j < n
    BY <1>4 DEF Below
  <2>2. Below(T, k) \subseteq Below(T, n)
    BY <2>1 DEF Below
  <2>3. k \in Below(T, n) /\ k \notin Below(T, k)
    BY <1>4 DEF Below
  <2>4. Below(T, k) \in SUBSET Nat /\ Below(T, n) \in SUBSET Nat
    BY DEF Below
  <2>5. <<Below(T, k), Below(T, n)>> \in StrictSubsetOrdering(Nat)
    BY <2>2, <2>3, <2>4 DEF StrictSubsetOrdering
  <2> QED BY <1>2, <1>3, <2>5
<1> QED BY <1>4

-----------------------------------------------------------------------------
(* Series of averages *)

AverageSet == {Average(i) : i \in Nat}

LEMMA SliceProperties ==
  ASSUME NEW c \in Nat, NEW f \in Nat, c <= f
  PROVE  /\ Slice(c, f) \in Seq(AverageSet) /\ Len(Slice(c, f)) = f - c
         /\ \A i \in 1..(f - c) : Slice(c, f)[i] = Average(c + i)
<1> DEFINE s == Slice(c, f)
<1>1. f - c \in Nat /\ \A i \in 1..(f - c) : c + i \in Nat
  OBVIOUS
<1>2. s \in [1..(f - c) -> AverageSet] /\ \A i \in 1..(f - c) : s[i] = Average(c + i)
  BY <1>1 DEF Slice, AverageSet
<1> HIDE DEF s
<1>3. s \in Seq(AverageSet)
  BY <1>1, <1>2, SeqDef
<1>4. Len(s) = f - c
  BY <1>1, <1>2, <1>3, LenProperties
<1> QED BY <1>2, <1>3, <1>4 DEF s

LEMMA SliceAppend ==
  ASSUME NEW c \in Nat, NEW f \in Nat, c <= f
  PROVE  Append(Slice(c, f), Average(f + 1)) = Slice(c, f + 1)
<1> DEFINE s == Slice(c, f)
           t == Slice(c, f + 1)
           a == Average(f + 1)
<1>1. /\ s \in Seq(AverageSet) /\ Len(s) = f - c
      /\ \A i \in 1..(f - c) : s[i] = Average(c + i)
  BY SliceProperties
<1>2. /\ t \in Seq(AverageSet) /\ Len(t) = f + 1 - c
      /\ \A i \in 1..(f + 1 - c) : t[i] = Average(c + i)
  BY SliceProperties
<1>3. a \in AverageSet
  BY DEF AverageSet
<1> HIDE DEF s, t
<1>4. t[f + 1 - c] = a
  <2>1. f + 1 - c \in 1..(f + 1 - c) /\ c + (f + 1 - c) = f + 1
    OBVIOUS
  <2> QED BY <1>2, <2>1
<1> HIDE DEF a
<1> DEFINE u == Append(s, a)
<1>5. /\ u \in Seq(AverageSet) /\ Len(u) = f - c + 1 /\ u[f - c + 1] = a
      /\ \A i \in 1..(f - c) : u[i] = s[i]
  BY <1>1, <1>3, AppendProperties
<1> HIDE DEF u
<1>6. \A i \in 1..(f + 1 - c) : i \in 1..(f - c) \/ i = f + 1 - c
  OBVIOUS
<1>7. f - c + 1 = f + 1 - c
  OBVIOUS
<1>8. \A i \in 1..Len(u) : u[i] = t[i]
  BY <1>1, <1>2, <1>4, <1>5, <1>6, <1>7
<1>9. u = t
  BY <1>2, <1>5, <1>7, <1>8, SeqEqual
<1> QED BY <1>9 DEF s, t, a, u

\* Where the last n of the windows after the c-th begin, up to the f-th.
Cut(c, f, n) == IF f - c > n THEN f - n ELSE c

LEMMA SliceLast ==
  ASSUME NEW c \in Nat, NEW f \in Nat, c <= f, NEW n \in Nat \ {0}
  PROVE  /\ Cut(c, f, n) \in c..f
         /\ LastOf(Slice(c, f), n) = Slice(Cut(c, f, n), f)
<1> DEFINE d == Cut(c, f, n)
           s == Slice(c, f)
           t == Slice(d, f)
           l == LastOf(s, n)
<1>1. d \in c..f /\ d \in Nat /\ d <= f /\ f - d = IF f - c > n THEN n ELSE f - c
  BY DEF Cut
<1> HIDE DEF d
<1>2. /\ s \in Seq(AverageSet) /\ Len(s) = f - c
      /\ \A i \in 1..(f - c) : s[i] = Average(c + i)
  BY SliceProperties
<1>3. /\ t \in Seq(AverageSet) /\ Len(t) = f - d
      /\ \A i \in 1..(f - d) : t[i] = Average(d + i)
  BY <1>1, SliceProperties
<1> HIDE DEF s, t
<1>4. /\ l \in Seq(AverageSet) /\ Len(l) = f - d
      /\ \A i \in 1..Len(l) : l[i] = s[Len(s) - Len(l) + i]
  BY <1>1, <1>2, LastOfProperties
<1> HIDE DEF l
<1>5. ASSUME NEW i \in 1..Len(l) PROVE l[i] = t[i]
  <2>1. i \in 1..(f - d)
    BY <1>4
  <2>2. f - c - (f - d) + i \in 1..(f - c) /\ c + (f - c - (f - d) + i) = d + i
    BY <1>1, <2>1
  <2>3. s[f - c - (f - d) + i] = Average(d + i)
    BY <1>2, <2>2
  <2> QED BY <1>2, <1>3, <1>4, <2>1, <2>3
<1>6. l = t
  BY <1>3, <1>4, <1>5, SeqEqual
<1> QED BY <1>1, <1>6 DEF d, s, t, l

LEMMA SlicePushed ==
  ASSUME NEW c \in Nat, NEW f \in Nat, c <= f, NEW n \in Nat \ {0}
  PROVE  Pushed(Slice(c, f), Average(f + 1), n) = Slice(Cut(c, f + 1, n), f + 1)
<1>1. Pushed(Slice(c, f), Average(f + 1), n) = LastOf(Append(Slice(c, f), Average(f + 1)), n)
  BY DEF Pushed, LastOf
<1>2. Append(Slice(c, f), Average(f + 1)) = Slice(c, f + 1)
  BY SliceAppend
<1> DEFINE g == f + 1
<1>3. c <= g /\ g \in Nat
  OBVIOUS
<1> HIDE DEF g
<1>4. LastOf(Slice(c, g), n) = Slice(Cut(c, g, n), g)
  BY <1>3, SliceLast
<1> QED BY <1>1, <1>2, <1>4 DEF g

LEMMA SliceFront ==
  ASSUME NEW c \in Nat, NEW f \in Nat, c < f
  PROVE  Front(Slice(c, f)) = Slice(c, f - 1)
<1> DEFINE s == Slice(c, f)
           t == Slice(c, f - 1)
           u == SubSeq(s, 1, f - c - 1)
<1>1. /\ s \in Seq(AverageSet) /\ Len(s) = f - c
      /\ \A i \in 1..(f - c) : s[i] = Average(c + i)
  BY SliceProperties
<1>2. /\ t \in Seq(AverageSet) /\ Len(t) = f - 1 - c
      /\ \A i \in 1..(f - 1 - c) : t[i] = Average(c + i)
  <2>1. f - 1 \in Nat /\ c <= f - 1
    OBVIOUS
  <2> QED BY <2>1, SliceProperties
<1>3. Front(s) = u
  BY <1>1 DEF Front
<1> HIDE DEF s, t
<1>4. f - c - 1 \in Nat /\ \A i \in 1..(f - c - 1) : i \in 1..(f - c)
  OBVIOUS
<1>5. \A i \in 1..(f - c - 1) : s[i] \in AverageSet
  <2>1. \A i \in 1..Len(s) : s[i] \in AverageSet
    BY <1>1, ElementOfSeq
  <2> QED BY <1>1, <1>4, <2>1
<1>6. /\ u \in Seq(AverageSet) /\ Len(u) = IF 1 <= f - c - 1 THEN f - c - 1 - 1 + 1 ELSE 0
      /\ \A i \in 1..(f - c - 1 - 1 + 1) : u[i] = s[1 + i - 1]
  BY <1>4, <1>5, SubSeqProperties
<1> HIDE DEF u
<1>7. Len(u) = f - 1 - c /\ \A i \in 1..(f - 1 - c) : u[i] = s[i]
  BY <1>4, <1>6
<1>8. \A i \in 1..(f - 1 - c) : s[i] = t[i]
  BY <1>1, <1>2, <1>4
<1>9. u = t
  BY <1>2, <1>6, <1>7, <1>8, SeqEqual
<1> QED BY <1>3, <1>9 DEF s, t

\* Whether the last MinWindows windows up to the f-th climb.
Rises(f) ==
  /\ \A i \in 2..MinWindows : Average(f - MinWindows + i) > Average(f - MinWindows + i - 1)
  /\ Average(f) - Average(f - MinWindows + 1) >= MinDelta

LEMMA SliceRising ==
  ASSUME NEW c \in Nat, NEW f \in Nat, c <= f
  PROVE  is_rising(Slice(c, f)) <=> f - c >= MinWindows /\ Rises(f)
<1> DEFINE s == Slice(c, f)
           n == MinWindows
           u == SubSeq(s, f - c - n + 1, f - c)
<1>1. /\ s \in Seq(AverageSet) /\ Len(s) = f - c
      /\ \A i \in 1..(f - c) : s[i] = Average(c + i)
  BY SliceProperties
<1>2. n \in Nat \ {0, 1}
  BY CellAssumption
<1> HIDE DEF s
<1>3. is_rising(s) <=> /\ f - c >= n
                       /\ \A i \in 2..n : u[i] > u[i - 1]
                       /\ u[n] - u[1] >= MinDelta
  BY <1>1 DEF is_rising
<1>4. ASSUME f - c >= n PROVE \A i \in 1..n : u[i] = Average(f - n + i)
  <2>1. \A i \in (f - c - n + 1)..(f - c) : s[i] \in AverageSet
    <3>1. \A i \in 1..Len(s) : s[i] \in AverageSet
      BY <1>1, ElementOfSeq
    <3> HIDE DEF n
    <3>2. \A i \in (f - c - n + 1)..(f - c) : i \in 1..(f - c)
      BY <1>2, <1>4
    <3> QED BY <1>1, <3>1, <3>2
  <2> HIDE DEF n
  <2>2. f - c - n + 1 \in Int /\ f - c \in Int
    BY <1>2
  <2>3. \A i \in 1..(f - c - (f - c - n + 1) + 1) : u[i] = s[f - c - n + 1 + i - 1]
    BY <2>1, <2>2, SubSeqProperties
  <2> HIDE DEF u
  <2> SUFFICES ASSUME NEW i \in 1..n PROVE u[i] = Average(f - n + i)
    OBVIOUS
  <2>4. /\ i \in 1..(f - c - (f - c - n + 1) + 1)
        /\ f - c - n + 1 + i - 1 \in 1..(f - c) /\ c + (f - c - n + 1 + i - 1) = f - n + i
    BY <1>2, <1>4
  <2> QED BY <1>1, <2>3, <2>4
<1> HIDE DEF u
<1>5. ASSUME f - c >= n
      PROVE  /\ \A i \in 2..n : u[i] = Average(f - n + i) /\ u[i - 1] = Average(f - n + i - 1)
             /\ u[n] = Average(f) /\ u[1] = Average(f - n + 1)
  <2> HIDE DEF n
  <2>1. /\ \A i \in 2..n : i \in 1..n /\ i - 1 \in 1..n /\ f - n + (i - 1) = f - n + i - 1
        /\ n \in 1..n /\ f - n + n = f /\ 1 \in 1..n
    BY <1>2
  <2> QED BY <1>4, <1>5, <2>1
<1>6. (f - c >= n) =>
        (/\ \A i \in 2..n : u[i] > u[i - 1]
         /\ u[n] - u[1] >= MinDelta) <=> Rises(f)
  BY <1>5 DEF Rises
<1> QED BY <1>3, <1>6 DEF s
-----------------------------------------------------------------------------
(* What a window's blob and alert are made of *)

Alert(w) == TrendAlert(w, LastOf(Averages(w), MinWindows))

LEMMA WindowsInOrder ==
  ASSUME Typed, NEW w \in Occupied
  PROVE  /\ Rank(w) \in Nat \ {0} /\ Window(Rank(w)) = w
         /\ Len(UpTo(w)) = Rank(w) /\ UpTo(w) \in Seq(Occupied)
         /\ \A i \in 1..Rank(w) : UpTo(w)[i] = Window(i)
         /\ Averages(w) = Slice(0, Rank(w))
<1> DEFINE r == Rank(w)
           u == UpTo(w)
           N == Cardinality(Occupied)
<1>1. r \in 1..N /\ Window(r) = w /\ N \in Nat /\ \A i \in 1..N : Window(i) \in Occupied
  BY RankProperties
<1> HIDE DEF N
<1>2. r \in Nat \ {0} /\ \A i \in 1..r : i \in 1..N
  BY <1>1
<1>3. u = [i \in 1..r |-> Window(i)]
  BY DEF UpTo, Window
<1> HIDE DEF r, u
<1>4. u \in [1..r -> Occupied] /\ DOMAIN u = 1..r /\ \A i \in 1..r : u[i] = Window(i)
  BY <1>1, <1>2, <1>3
<1>5. u \in Seq(Occupied)
  BY <1>2, <1>4, SeqDef
<1>6. Len(u) = r
  BY <1>2, <1>4, <1>5, LenProperties
<1>7. Averages(w) = [i \in DOMAIN u |-> aggregate_bucket(u[i], Whole(u[i])).cpm_avg]
  BY DEF Averages, u
<1>8. Averages(w) = [i \in 1..r |-> Average(i)]
  BY <1>4, <1>7 DEF Average
<1>9. 1..(r - 0) = 1..r /\ \A i \in 1..r : 0 + i = i
  BY <1>2
<1>10. Slice(0, r) = [i \in 1..r |-> Average(i)]
  BY <1>9 DEF Slice
<1> QED BY <1>1, <1>2, <1>4, <1>5, <1>6, <1>8, <1>10 DEF r, u

LEMMA ExpectedBlob ==
  ASSUME Typed, NEW w \in Occupied
  PROVE  /\ Expected(w) = enrich_blob(aggregate_bucket(w, Whole(w)),
                                      LastOf(Slice(0, Rank(w) - 1), WindowCount))
         /\ Expected(w).blob.cpm_avg = Average(Rank(w))
         /\ Expected(w).blob.window_start = w
<1> DEFINE a == aggregate_bucket(w, Whole(w))
           p == LastOf(Front(Averages(w)), WindowCount)
<1>1. Rank(w) \in Nat \ {0} /\ Window(Rank(w)) = w /\ Averages(w) = Slice(0, Rank(w))
  BY WindowsInOrder
<1>2. Front(Averages(w)) = Slice(0, Rank(w) - 1)
  <2>1. 0 \in Nat /\ 0 < Rank(w)
    BY <1>1
  <2> QED BY <1>1, <2>1, SliceFront
<1>3. Average(Rank(w)) = a.cpm_avg
  BY <1>1 DEF Average
<1>4. Expected(w) = enrich_blob(a, p)
  BY DEF Expected
<1>5. enrich_blob(a, p).blob = a /\ a.window_start = w
  BY BlobOfWindow
<1> QED BY <1>2, <1>3, <1>4, <1>5

-----------------------------------------------------------------------------
(* The windows of the trend alerts *)

Rising(n) == n >= MinWindows /\ Rises(n)

\* A window ends a reported climb if the averages climb up to it and no window
\* of the climb belongs to an earlier one.
Greedy(T, n) ==
  \A i \in 1..n : i \in T <=> Rising(i) /\ \A k \in T : k < i => i - k >= MinWindows

LEMMA GreedyExists ==
  ASSUME NEW N \in Nat
  PROVE  \E T \in SUBSET (1..N) : Greedy(T, N)
<1> DEFINE Exists(n) == \E T \in SUBSET (1..n) : Greedy(T, n)
           Bad == {n \in Nat : ~Exists(n)}
<1>1. SUFFICES ASSUME Bad # {} PROVE FALSE
  OBVIOUS
<1>2. PICK m \in Bad : \A k \in Bad : m <= k
  <2> HIDE DEF Exists
  <2> QED BY <1>1, LeastNumber
<1>3. m \in Nat /\ ~Exists(m)
  BY <1>2
<1>4. CASE m = 0
  <2>1. {} \in SUBSET (1..0) /\ Greedy({}, 0)
    BY DEF Greedy
  <2> QED BY <1>3, <1>4, <2>1
<1>5. CASE m # 0
  <2> DEFINE p == m - 1
  <2>1. p \in Nat /\ Exists(p)
    <3> HIDE DEF Exists
    <3>1. p \in Nat /\ ~(m <= p)
      BY <1>3, <1>5
    <3> QED BY <1>2, <3>1
  <2>2. PICK T \in SUBSET (1..p) : Greedy(T, p)
    BY <2>1
  <2>3. \A i : i \in 1..m <=> i \in 1..p \/ i = m
    BY <1>3, <1>5
  <2>4. \A k \in T : k < m /\ k \in 1..p
    BY <1>3
  <2>5. MinWindows \in Nat
    BY CellAssumption
  <2>6. \A i \in 1..p : ~(m < i) /\ i # m
    BY <1>3
  <2> DEFINE far == Rising(m) /\ \A k \in T : k < m => m - k >= MinWindows
  <2>7. \A i \in 1..p : i \in T <=> Rising(i) /\ \A k \in T : k < i => i - k >= MinWindows
    BY <2>2 DEF Greedy
  <2> HIDE DEF p
  <2>8. CASE far
    <3> DEFINE U == T \union {m}
    <3>1. U \in SUBSET (1..m)
      BY <2>3, <2>4
    <3>2. ASSUME NEW i \in 1..p
          PROVE  i \in U <=> Rising(i) /\ \A k \in U : k < i => i - k >= MinWindows
      BY <2>6, <2>7
    <3>3. m \in U /\ Rising(m) /\ \A k \in U : k < m => m - k >= MinWindows
      <4>1. ~(m < m)
        BY <1>3
      <4> QED BY <2>8, <4>1
    <3> HIDE DEF U, far
    <3>4. Greedy(U, m)
      BY <2>3, <3>2, <3>3 DEF Greedy
    <3> QED BY <1>3, <3>1, <3>4
  <2>9. CASE ~far
    <3>1. T \in SUBSET (1..m) /\ m \notin T
      BY <2>3, <2>4, <2>6
    <3>2. m \in T <=> far
      BY <2>9, <3>1
    <3>3. Greedy(T, m)
      BY <2>3, <2>7, <3>2 DEF Greedy
    <3> HIDE DEF far
    <3> QED BY <1>3, <3>1, <3>3
  <2> QED BY <2>8, <2>9
<1> QED BY <1>4, <1>5

Peaks == CHOOSE T \in SUBSET (1..Cardinality(Occupied)) : Greedy(T, Cardinality(Occupied))

LEMMA PeaksProperties ==
  ASSUME Typed
  PROVE  /\ Peaks \in SUBSET (1..Cardinality(Occupied))
         /\ \A i \in 1..Cardinality(Occupied) :
              i \in Peaks <=> Rising(i) /\ \A k \in Peaks : k < i => i - k >= MinWindows
<1> DEFINE N == Cardinality(Occupied)
<1>1. N \in Nat
  BY RankProperties
<1>2. Peaks \in SUBSET (1..N) /\ Greedy(Peaks, N)
  <2>1. Peaks = CHOOSE T \in SUBSET (1..N) : Greedy(T, N)
    BY DEF Peaks
  <2> HIDE DEF N
  <2>2. \E T \in SUBSET (1..N) : Greedy(T, N)
    BY <1>1, GreedyExists
  <2> QED BY <2>1, <2>2
<1> QED BY <1>2 DEF Greedy

\* The series of the trend detector after f windows: the averages since the last
\* alert, MinWindows at most.
SeriesAfter(f, s) ==
  \E c \in 0..f :
    /\ s = Slice(c, f) /\ f - c <= MinWindows
    /\ \A k \in Peaks : k <= f => k <= c
    /\ c = 0 \/ c \in Peaks \/ f - c = MinWindows

LEMMA SeriesStep ==
  ASSUME Typed, NEW f \in Nat, f + 1 \in 1..Cardinality(Occupied),
         NEW s, SeriesAfter(f, s), NEW t, t = Pushed(s, Average(f + 1), MinWindows)
  PROVE  /\ is_rising(t) <=> f + 1 \in Peaks
         /\ SeriesAfter(f + 1, IF is_rising(t) THEN <<>> ELSE t)
         /\ is_rising(t) => t = LastOf(Slice(0, f + 1), MinWindows)
<1> DEFINE g == f + 1
           n == MinWindows
<1>1. PICK c \in 0..f :
        /\ s = Slice(c, f) /\ f - c <= n
        /\ \A k \in Peaks : k <= f => k <= c
        /\ c = 0 \/ c \in Peaks \/ f - c = n
  BY DEF SeriesAfter
<1> DEFINE d == Cut(c, g, n)
<1>2. n \in Nat \ {0} /\ n \in Nat \ {0, 1}
  BY CellAssumption
<1>3. t = Slice(d, g)
  <2>1. c \in Nat /\ c <= f
    OBVIOUS
  <2> HIDE DEF n
  <2> QED BY <1>1, <1>2, <2>1, SlicePushed DEF n
<1> HIDE DEF n
<1>4. /\ d \in c..g /\ d \in Nat /\ d <= g /\ g \in Nat \ {0}
      /\ d = IF g - c > n THEN g - n ELSE c
  BY <1>2 DEF Cut
<1>5. is_rising(t) <=> g - d >= n /\ Rises(g)
  <2> HIDE DEF g, d
  <2> QED BY <1>3, <1>4, SliceRising DEF n
<1>6. /\ g \in 1..Cardinality(Occupied)
      /\ Peaks \in SUBSET Nat
      /\ g \in Peaks <=> g >= n /\ Rises(g) /\ \A k \in Peaks : k < g => g - k >= n
  BY PeaksProperties DEF Rising, n
<1>7. \A k \in Nat : (k < g <=> k <= f) /\ (k <= g <=> k <= f \/ k = g)
  OBVIOUS
<1>8. \A k \in Peaks : k < g => k <= d
  <2>1. c <= d
    BY <1>4
  <2> QED BY <1>1, <1>4, <1>6, <1>7, <2>1
<1>9. is_rising(t) <=> g \in Peaks
  <2>1. ASSUME g - d >= n PROVE g >= n /\ \A k \in Peaks : k < g => g - k >= n
    <3>1. \A k \in Nat : k <= d => g - k >= n
      BY <1>2, <1>4, <2>1
    <3> QED BY <1>2, <1>4, <1>6, <1>8, <2>1, <3>1
  <2>2. ASSUME g >= n, \A k \in Peaks : k < g => g - k >= n PROVE g - d >= n
    <3>1. CASE c = 0
      BY <1>2, <1>4, <2>2, <3>1
    <3>2. CASE c \in Peaks
      <4>1. c < g
        OBVIOUS
      <4>2. g - c >= n
        BY <2>2, <3>2, <4>1
      <4> QED BY <1>2, <1>4, <4>2
    <3>3. CASE f - c = n
      BY <1>2, <1>4, <3>3
    <3> QED BY <1>1, <3>1, <3>2, <3>3
  <2> QED BY <1>5, <1>6, <2>1, <2>2
<1>10. ASSUME is_rising(t) PROVE t = LastOf(Slice(0, g), n)
  <2>1. g - d >= n /\ g >= n
    BY <1>2, <1>4, <1>5, <1>10
  <2>2. d = g - n
    BY <1>2, <1>4, <2>1
  <2>3. Cut(0, g, n) = g - n
    BY <1>2, <1>4, <2>1 DEF Cut
  <2>4. LastOf(Slice(0, g), n) = Slice(Cut(0, g, n), g)
    <3>1. 0 \in Nat /\ 0 <= g /\ g \in Nat
      BY <1>4
    <3> HIDE DEF g
    <3> QED BY <1>2, <3>1, SliceLast
  <2> QED BY <1>3, <2>2, <2>3, <2>4
<1>11. SeriesAfter(g, IF is_rising(t) THEN <<>> ELSE t)
  <2>1. CASE is_rising(t)
    <3>1. g - g = 0 /\ g \in 0..g /\ 0 <= n
      BY <1>2, <1>4
    <3>2. Slice(g, g) = <<>>
      BY <3>1 DEF Slice
    <3>3. g \in Peaks
      BY <1>9, <2>1
    <3> HIDE DEF g
    <3>4. SeriesAfter(g, <<>>)
      BY <3>1, <3>2, <3>3 DEF SeriesAfter, n
    <3> QED BY <2>1, <3>4
  <2>2. CASE ~is_rising(t)
    <3>1. g \notin Peaks
      BY <1>9, <2>2
    <3>2. \A k \in Peaks : k <= g => k <= d
      BY <1>6, <1>7, <1>8, <3>1
    <3>3. d \in 0..g /\ g - d <= n
      BY <1>1, <1>2, <1>4
    <3>4. d = 0 \/ d \in Peaks \/ g - d = n
      <4>1. CASE g - c > n
        BY <1>2, <1>4, <4>1
      <4>2. CASE ~(g - c > n)
        <5>1. d = c /\ f - c # n
          BY <1>2, <1>4, <4>2
        <5> QED BY <1>1, <5>1
      <4> QED BY <4>1, <4>2
    <3> HIDE DEF g, d
    <3>5. SeriesAfter(g, t)
      BY <1>3, <3>2, <3>3, <3>4 DEF SeriesAfter, n
    <3> QED BY <2>2, <3>5
  <2> QED BY <2>1, <2>2
<1> QED BY <1>9, <1>10, <1>11 DEF n
-----------------------------------------------------------------------------
(* The alerts *)

Reported == alerts \union Range(alertBuffer)

Sending == alertBuffer \in Seq(Reported) /\ expiries \in Nat

LEMMA AlertSent ==
  ASSUME alertBuffer \in Seq(Reported), NEW a, alertBuffer' = Append(alertBuffer, a), alerts' = alerts
  PROVE  Reported' = Reported \union {a} /\ alertBuffer' \in Seq(Reported')
<1>1. alertBuffer \in Seq(Reported \union {a})
  BY SeqMonotonic
<1>2. /\ alertBuffer' \in Seq(Reported \union {a})
      /\ Range(alertBuffer') = Range(alertBuffer) \union {a}
  BY <1>1, RangeAppend
<1>3. Reported' = alerts' \union Range(alertBuffer')
  BY DEF Reported, Range
<1>4. Reported' = Reported \union {a}
  BY <1>2, <1>3 DEF Reported
<1> QED BY <1>2, <1>4

\* What each action adds to the alerts, those in the topic and those on the way.
LEMMA TrendEffect ==
  ASSUME Sending, NEW w, NEW x, Trend(w, x), alerts' = alerts
  PROVE  \E t : /\ t = Pushed(series, x, MinWindows) /\ alertBuffer' \in Seq(Reported')
                /\ is_rising(t) => series' = <<>> /\ Reported' = Reported \union {TrendAlert(w, t)}
                /\ ~is_rising(t) => series' = t /\ Reported' = Reported
<1> DEFINE t == Pushed(series, x, MinWindows)
           a == TrendAlert(w, t)
<1>1. CASE is_rising(t)
  <2>1. series' = <<>> /\ alertBuffer' = Append(alertBuffer, a)
    BY <1>1 DEF Trend
  <2> HIDE DEF a, t
  <2>2. Reported' = Reported \union {a} /\ alertBuffer' \in Seq(Reported')
    BY <2>1, AlertSent DEF Sending
  <2> QED BY <1>1, <2>1, <2>2 DEF a, t
<1>2. CASE ~is_rising(t)
  <2>1. series' = t /\ alertBuffer' = alertBuffer
    BY <1>2 DEF Trend
  <2>2. Reported' = Reported
    BY <2>1 DEF Reported, Range
  <2>3. alertBuffer' \in Seq(Reported')
    BY <2>1, <2>2 DEF Sending
  <2> QED BY <1>2, <2>1, <2>2, <2>3
<1> QED BY <1>1, <1>2

LEMMA JoinEffect ==
  ASSUME Sending, NEW located \in BOOLEAN, JoinAlert(located)
  PROVE  /\ \E l \in {latest, NoBlob} : Reported' = Reported \union {enrich_alert_with_region(l)}
         /\ alertBuffer' \in Seq(Reported')
         /\ UNCHANGED <<raw, state, maxTime, watermark, saved, blobBuffer, aggregated, alerts, expiries>>
<1> DEFINE l == IF located THEN latest ELSE NoBlob
           a == enrich_alert_with_region(l)
<1>1. /\ alertBuffer' = Append(alertBuffer, a)
      /\ UNCHANGED <<raw, state, maxTime, watermark, saved, blobBuffer, aggregated, alerts, expiries>>
  BY DEF JoinAlert
<1>2. l \in {latest, NoBlob}
  OBVIOUS
<1> HIDE DEF l, a
<1>3. Reported' = Reported \union {a} /\ alertBuffer' \in Seq(Reported')
  BY <1>1, AlertSent DEF Sending
<1> QED BY <1>1, <1>2, <1>3 DEF a

LEMMA FlushEffect ==
  ASSUME Sending, Checkpoint
  PROVE  /\ alerts' = Reported /\ Reported' = Reported /\ alertBuffer' \in Seq(Reported')
<1>1. alerts' = Reported /\ alertBuffer' = <<>>
  BY DEF Checkpoint, Reported
<1>2. Reported' = alerts' \union Range(alertBuffer')
  BY DEF Reported, Range
<1>3. Reported' = Reported
  BY <1>1, <1>2, RangeEmpty
<1> QED BY <1>1, <1>3, EmptySeq

LEMMA LossEffect ==
  ASSUME Sending, Restore
  PROVE  /\ alerts \subseteq alerts' /\ Reported' = alerts' /\ Reported' \subseteq Reported
         /\ alertBuffer' \in Seq(Reported')
<1>1. Reported' = alerts' \union Range(alertBuffer')
  BY DEF Reported, Range
<1>2. PICK n \in 0..Len(alertBuffer) : alerts' = alerts \union Range(SubSeq(alertBuffer, 1, n))
  BY DEF Restore
<1>3. Range(SubSeq(alertBuffer, 1, n)) \subseteq Range(alertBuffer)
  BY RangePrefix DEF Sending
<1>4. alertBuffer' = <<>> /\ Reported' = alerts'
  BY <1>1, RangeEmpty DEF Restore
<1> QED BY <1>2, <1>3, <1>4, EmptySeq DEF Reported

LEMMA QuietEffect ==
  ASSUME Sending, Process \/ EmitWatermark \/ Expire \/ UNCHANGED vars
  PROVE  /\ alerts' = alerts /\ Reported' = Reported /\ alertBuffer' \in Seq(Reported')
         /\ expiries' = expiries \/ expiries' = expiries + 1
<1>1. /\ UNCHANGED <<alerts, alertBuffer>>
      /\ expiries' = expiries \/ expiries' = expiries + 1
  BY DEF Process, EmitWatermark, Expire, vars, output
<1>2. Reported' = Reported
  BY <1>1 DEF Reported, Range
<1> QED BY <1>1, <1>2 DEF Sending

LEMMA NextSending == Typed /\ Sending /\ [Next]_vars => Sending'
<1> SUFFICES ASSUME Typed, Sending, [Next]_vars PROVE Sending'
  OBVIOUS
<1>1. CASE Process \/ EmitWatermark \/ Expire \/ UNCHANGED vars
  BY <1>1, QuietEffect DEF Sending
<1>2. CASE Fire
  <2>1. PICK w, b :
          w \in Starts /\ Trend(w, b.blob.cpm_avg) /\ UNCHANGED <<alerts, expiries>>
    BY <1>2, FireEffect
  <2>2. alertBuffer' \in Seq(Reported')
    BY <2>1, TrendEffect
  <2> QED BY <2>1, <2>2 DEF Sending
<1>3. CASE Checkpoint
  BY <1>3, FlushEffect, CheckpointEffect DEF Sending
<1>4. CASE Restore
  BY <1>4, LossEffect, RestoreEffect DEF Sending
<1>5. CASE \E located \in BOOLEAN : JoinAlert(located)
  BY <1>5, JoinEffect DEF Sending
<1> QED BY <1>1, <1>2, <1>3, <1>4, <1>5 DEF Next

LEMMA InitSending == Init => Sending
  BY EmptySeq DEF Init, Sending

-----------------------------------------------------------------------------
(* Progress through the windows *)

\* The windows that have fired, by the first n readings.
Fired(n, contents) == {w \in Occupied : contents[w] = {} /\ Closed(w, n)}

\* Windows fire in order, and the statistics are those of the ones that have.
Progress(n, contents, b, s, l) ==
  /\ \A v \in Fired(n, contents), u \in Occupied : u < v => u \in Fired(n, contents)
  /\ b = LastOf(Slice(0, Cardinality(Fired(n, contents))), WindowCount)
  /\ SeriesAfter(Cardinality(Fired(n, contents)), s)
  /\ l = NoBlob \/ \E w \in Occupied : l = Expected(w)

Backed(a) ==
  \/ \E w \in Occupied : Rank(w) \in Peaks /\ a = Alert(w)
  \/ a = enrich_alert_with_region(NoBlob)
  \/ \E w \in Occupied : a = enrich_alert_with_region(Expected(w))

\* What has fired is sent.
Delivered(F, sent, reports) ==
  \A w \in F : Expected(w) \in sent /\ (Rank(w) \in Peaks => Alert(w) \in reports)

Sound ==
  InTime /\ expiries = 0 =>
    /\ Progress(read, panes, baseline, series, latest)
    /\ Progress(saved.read, saved.panes, saved.baseline, saved.series, saved.latest)
    /\ \A b \in Blobs : \E w \in Occupied : b = Expected(w)
    /\ \A a \in Reported : Backed(a)
    /\ Delivered(Fired(read, panes), Blobs, Reported)
    /\ Delivered(Fired(saved.read, saved.panes), aggregated, alerts)

\* A reading changes nothing about the windows that have fired: it is not one of
\* theirs, and a window that it closes has its readings.
LEMMA ProcessFiresNone ==
  ASSUME Typed, Clock, InTime, Filled(read, panes), Process
  PROVE  Fired(read', panes') = Fired(read, panes)
<1>1. PICK m \in Readings :
        /\ read + 1 \in 1..MaxRaw /\ m = raw[read + 1] /\ read' = read + 1
        /\ \A w \in Starts : panes'[w] =
             IF m.cell = Cell /\ Start(m) = w /\ ~Passed(w) THEN panes[w] \union {m} ELSE panes[w]
  BY ProcessEffect
<1>2. read \in 0..MaxRaw /\ read \in Nat /\ read + 1 > read /\ read + 1 \in 0..MaxRaw
  BY <1>1, CellAssumption DEF Typed
<1>3. \A i : i \in 1..(read + 1) <=> i \in 1..read \/ i = read + 1
  BY <1>2
<1>4. ~Closed(Start(m), read)
  BY <1>1, <1>2, NothingFollows
<1>5. SUFFICES ASSUME NEW w \in Occupied
               PROVE  panes'[w] = {} /\ Closed(w, read + 1) <=> panes[w] = {} /\ Closed(w, read)
  BY <1>1 DEF Fired
<1>6. w \in Starts /\ Whole(w) # {}
  BY DEF Occupied
<1>7. ASSUME panes[w] = {}, Closed(w, read) PROVE panes'[w] = {} /\ Closed(w, read + 1)
  <2>1. Closed(w, read + 1)
    BY <1>3, <1>7 DEF Closed
  <2>2. Start(m) # w
    BY <1>4, <1>7
  <2> QED BY <1>1, <1>6, <1>7, <2>1, <2>2
<1>8. ASSUME panes'[w] = {}, Closed(w, read + 1) PROVE panes[w] = {} /\ Closed(w, read)
  <2>1. panes[w] = {} /\ ~(m.cell = Cell /\ Start(m) = w /\ ~Passed(w))
    BY <1>1, <1>6, <1>8
  <2>2. ASSUME ~Closed(w, read) PROVE FALSE
    <3>1. Arrived(read, w) = {}
      BY <1>6, <2>1, <2>2 DEF Filled
    <3>2. ~Passed(w)
      BY <1>6, <2>2, ClosedByWatermark
    <3>3. Arrived(read + 1, w) = {}
      BY <1>1, <1>3, <2>1, <3>1, <3>2 DEF Arrived
    <3>4. Arrived(read + 1, w) = Whole(w)
      BY <1>2, <1>6, <1>8, ClosedIsWhole
    <3> QED BY <1>6, <3>3, <3>4
  <2> QED BY <2>1, <2>2
<1> QED BY <1>7, <1>8

\* The window that fires is whole and the first of those that have not.
LEMMA FiresInOrder ==
  ASSUME Typed, Clock, InTime, Filled(read, panes),
         NEW w \in Starts, Passed(w), panes[w] # {}, \A v \in Due : w <= v,
         \A v \in Fired(read, panes), u \in Occupied : u < v => u \in Fired(read, panes)
  PROVE  /\ w \in Occupied /\ panes[w] = Whole(w) /\ Closed(w, read)
         /\ Fired(read, panes) = {v \in Occupied : v < w}
<1>1. Closed(w, read)
  BY ClosedByWatermark
<1>2. panes[w] = Whole(w)
  BY <1>1, ClosedIsWhole DEF Filled, Typed
<1>3. w \in Occupied
  BY <1>2 DEF Occupied
<1>4. w \in Nat /\ \A v \in Occupied : v \in Nat /\ v \in Starts
  BY <1>3, OccupiedFinite
<1>5. ASSUME NEW v \in Fired(read, panes) PROVE v \in Occupied /\ v < w
  <2>1. v \in Occupied /\ panes[v] = {} /\ v # w
    BY DEF Fired
  <2>2. w \notin Fired(read, panes)
    BY DEF Fired
  <2>3. ~(w < v)
    BY <1>3, <2>2
  <2> QED BY <1>4, <2>1, <2>3
<1>6. ASSUME NEW v \in Occupied, v < w PROVE v \in Fired(read, panes)
  <2>1. v \in Nat /\ v \in Starts /\ ~(w <= v)
    BY <1>4, <1>6
  <2>2. Passed(v)
    <3>1. Length \in Nat /\ watermark \in Nat /\ w + Length <= watermark
      BY CellAssumption DEF Passed, Typed
    <3>2. v + Length <= watermark
      BY <1>4, <1>6, <2>1, <3>1
    <3> QED BY <3>2 DEF Passed
  <2>3. panes[v] = {}
    BY <2>1, <2>2 DEF Due
  <2>4. Closed(v, read)
    BY <2>1, <2>2, ClosedByWatermark
  <2> QED BY <2>3, <2>4 DEF Fired
<1>7. Fired(read, panes) = {v \in Occupied : v < w}
  BY <1>5, <1>6
<1> QED BY <1>1, <1>2, <1>3, <1>7
\* The last n of the first f averages, one more, and the last n of those.
LEMMA BaselineStep ==
  ASSUME NEW f \in Nat, NEW n \in Nat \ {0}
  PROVE  Pushed(LastOf(Slice(0, f), n), Average(f + 1), n) = LastOf(Slice(0, f + 1), n)
<1> DEFINE c == Cut(0, f, n)
           g == f + 1
<1>1. c \in Nat /\ c <= f /\ LastOf(Slice(0, f), n) = Slice(c, f)
  <2>1. 0 \in Nat /\ 0 <= f
    OBVIOUS
  <2>2. Cut(0, f, n) \in 0..f /\ LastOf(Slice(0, f), n) = Slice(Cut(0, f, n), f)
    BY <2>1, SliceLast
  <2> HIDE DEF c
  <2>3. c \in 0..f /\ LastOf(Slice(0, f), n) = Slice(c, f)
    BY <2>2 DEF c
  <2> QED BY <2>3
<1>2. Cut(c, f + 1, n) = Cut(0, f + 1, n)
  <2>1. CASE f > n
    BY <2>1 DEF Cut
  <2>2. CASE ~(f > n)
    BY <2>2 DEF Cut
  <2> QED BY <2>1, <2>2
<1> HIDE DEF c
<1>3. Pushed(Slice(c, f), Average(f + 1), n) = Slice(Cut(c, f + 1, n), f + 1)
  BY <1>1, SlicePushed
<1>4. 0 \in Nat /\ 0 <= g /\ g \in Nat
  OBVIOUS
<1> HIDE DEF g
<1>5. LastOf(Slice(0, g), n) = Slice(Cut(0, g, n), g)
  BY <1>4, SliceLast
<1> QED BY <1>1, <1>2, <1>3, <1>5 DEF g

LEMMA FireSteps ==
  ASSUME Typed, Sending, Clock, InTime, Filled(read, panes),
         Progress(read, panes, baseline, series, latest), Fire
  PROVE  \E w \in Occupied :
           /\ Fired(read, panes') = Fired(read, panes) \union {w}
           /\ Progress(read, panes', baseline', series', latest')
           /\ Blobs' = Blobs \union {Expected(w)}
           /\ Reported' = IF Rank(w) \in Peaks THEN Reported \union {Alert(w)} ELSE Reported
           /\ UNCHANGED <<raw, read, saved, aggregated, alerts, expiries>>
<1>1. PICK w, b :
        /\ w \in Starts
        /\ Passed(w) /\ panes[w] # {} /\ \A v \in Due : w <= v
        /\ b = enrich_blob(aggregate_bucket(w, panes[w]), baseline)
        /\ panes'[w] = {} /\ \A v \in Starts : v # w => panes'[v] = panes[v]
        /\ latest' = b /\ baseline' = Pushed(baseline, b.blob.cpm_avg, WindowCount)
        /\ Trend(w, b.blob.cpm_avg)
        /\ Blobs' = Blobs \union {b}
        /\ UNCHANGED <<raw, read, saved, aggregated, alerts, expiries>>
  BY FireEffect
<1> DEFINE F == Fired(read, panes)
           f == Cardinality(F)
<1>2. /\ \A v \in F, u \in Occupied : u < v => u \in F
      /\ baseline = LastOf(Slice(0, f), WindowCount)
      /\ SeriesAfter(f, series)
  BY DEF Progress
<1>3. /\ w \in Occupied /\ panes[w] = Whole(w) /\ Closed(w, read)
      /\ F = Earlier(w) /\ F = {v \in Occupied : v < w}
  BY <1>1, <1>2, FiresInOrder DEF Earlier
<1>4. Fired(read, panes') = F \union {w}
  <2>1. \A v \in Occupied : v \in Starts
    BY OccupiedFinite
  <2> QED BY <1>1, <1>3, <2>1 DEF Fired
<1> HIDE DEF F
<1>5. /\ f \in Nat /\ Rank(w) = f + 1 /\ Cardinality(F \union {w}) = f + 1
      /\ F \union {w} = {v \in Occupied : v <= w}
  <2>1. /\ Cardinality(Earlier(w)) \in Nat /\ Rank(w) = Cardinality(Earlier(w)) + 1
        /\ Cardinality(Earlier(w) \union {w}) = Rank(w)
        /\ Earlier(w) \union {w} = {v \in Occupied : v <= w}
    BY <1>3, RankOfFired
  <2>2. F = Earlier(w)
    BY <1>3
  <2> QED BY <2>1, <2>2
<1> HIDE DEF f
<1>6. b = Expected(w) /\ b.blob.cpm_avg = Average(f + 1)
  <2>1. f + 1 - 1 = f
    BY <1>5
  <2>2. /\ Expected(w) = enrich_blob(aggregate_bucket(w, Whole(w)), LastOf(Slice(0, f), WindowCount))
        /\ Expected(w).blob.cpm_avg = Average(f + 1)
    BY <1>3, <1>5, <2>1, ExpectedBlob
  <2> QED BY <1>1, <1>2, <1>3, <2>2
<1>7. baseline' = LastOf(Slice(0, f + 1), WindowCount)
  <2>1. WindowCount \in Nat \ {0}
    BY CellAssumption
  <2> QED BY <1>1, <1>2, <1>5, <1>6, <2>1, BaselineStep
<1>8. PICK t : /\ t = Pushed(series, Average(f + 1), MinWindows)
               /\ is_rising(t) => series' = <<>> /\ Reported' = Reported \union {TrendAlert(w, t)}
               /\ ~is_rising(t) => series' = t /\ Reported' = Reported
  BY <1>1, <1>6, TrendEffect
<1>9. /\ is_rising(t) <=> f + 1 \in Peaks
      /\ SeriesAfter(f + 1, IF is_rising(t) THEN <<>> ELSE t)
      /\ is_rising(t) => t = LastOf(Slice(0, f + 1), MinWindows)
  <2>1. f + 1 \in 1..Cardinality(Occupied)
    BY <1>3, <1>5, RankProperties
  <2> QED BY <1>2, <1>5, <1>8, <2>1, SeriesStep
<1>10. SeriesAfter(f + 1, series')
  BY <1>8, <1>9
<1>11. Reported' = IF Rank(w) \in Peaks THEN Reported \union {Alert(w)} ELSE Reported
  <2>1. is_rising(t) => TrendAlert(w, t) = Alert(w)
    BY <1>3, <1>5, <1>9, WindowsInOrder DEF Alert
  <2> QED BY <1>5, <1>8, <1>9, <2>1
<1>12. \A v \in F \union {w}, u \in Occupied : u < v => u \in F \union {w}
  <2>1. \A v \in Occupied : v \in Nat
    BY OccupiedFinite
  <2> QED BY <1>3, <1>5, <2>1
<1>13. Progress(read, panes', baseline', series', latest')
  BY <1>1, <1>3, <1>4, <1>5, <1>6, <1>7, <1>10, <1>12 DEF Progress
<1> QED BY <1>1, <1>3, <1>4, <1>6, <1>11, <1>13 DEF F

-----------------------------------------------------------------------------
(* Nothing but what is expected, and all of it *)

\* The stream, and what is expected of it, does not change.
LEMMA Frame ==
  ASSUME raw' = raw
  PROVE  /\ InTime' <=> InTime
         /\ Occupied' = Occupied /\ Peaks' = Peaks
         /\ \A w : Rank(w)' = Rank(w) /\ Expected(w)' = Expected(w) /\ Alert(w)' = Alert(w)
         /\ \A c, f : Slice(c, f)' = Slice(c, f)
         /\ \A w, n : Closed(w, n)' <=> Closed(w, n)
<1>1. /\ InTime' <=> InTime
      /\ Occupied' = Occupied
      /\ \A w : Whole(w)' = Whole(w)
      /\ \A w, n : Closed(w, n)' <=> Closed(w, n)
  BY DEF InTime, Occupied, Whole, Closed, Range
<1>2. \A w : Rank(w)' = Rank(w)
  BY <1>1 DEF Rank
<1>3. \A i : Window(i)' = Window(i)
  BY <1>1, <1>2 DEF Window
<1>4. \A i : Average(i)' = Average(i)
  BY <1>1, <1>3 DEF Average
<1>5. \A c, f : Slice(c, f)' = Slice(c, f)
  BY <1>4 DEF Slice
<1>6. \A w : Averages(w)' = Averages(w)
  <2>1. \A w : UpTo(w) = [i \in 1..Rank(w) |-> Window(i)]
    BY DEF UpTo, Window
  <2>2. \A w : UpTo(w)' = [i \in 1..Rank(w)' |-> Window(i)']
    BY DEF UpTo, Window
  <2>3. \A w : UpTo(w)' = UpTo(w)
    BY <1>2, <1>3, <2>1, <2>2
  <2> QED BY <1>1, <2>3 DEF Averages
<1>7. \A w : Expected(w)' = Expected(w) /\ Alert(w)' = Alert(w)
  BY <1>1, <1>6 DEF Expected, Alert, LastOf
<1>8. \A T, n : Greedy(T, n)' <=> Greedy(T, n)
  BY <1>4 DEF Greedy, Rising, Rises
<1>9. Peaks' = Peaks
  BY <1>1, <1>8 DEF Peaks
<1> QED BY <1>1, <1>2, <1>5, <1>7, <1>9
LEMMA InitSound == Init => Sound
<1> SUFFICES ASSUME Init PROVE Sound
  OBVIOUS
<1>1. Typed
  BY InitTyped
<1>2. /\ read = 0 /\ baseline = <<>> /\ series = <<>> /\ latest = NoBlob
      /\ saved.read = 0 /\ saved.baseline = <<>> /\ saved.series = <<>> /\ saved.latest = NoBlob
      /\ blobBuffer = <<>> /\ aggregated = {} /\ alertBuffer = <<>> /\ alerts = {}
  BY DEF Init, Fresh
<1>3. Fired(0, panes) = {} /\ Fired(0, saved.panes) = {}
  BY DEF Fired, Closed
<1>4. Cardinality({}) = 0
  BY FS_EmptySet
<1>5. Slice(0, 0) = <<>>
  BY DEF Slice
<1>6. LastOf(<<>>, WindowCount) = <<>>
  <2>1. WindowCount \in Nat \ {0} /\ Cut(0, 0, WindowCount) = 0
    BY CellAssumption DEF Cut
  <2>2. LastOf(Slice(0, 0), WindowCount) = Slice(Cut(0, 0, WindowCount), 0)
    BY <2>1, SliceLast
  <2> QED BY <1>5, <2>1, <2>2
<1>7. SeriesAfter(0, <<>>)
  <2>1. \A k \in Peaks : k \in 1..Cardinality(Occupied)
    BY <1>1, PeaksProperties
  <2>2. 0 \in 0..0 /\ 0 - 0 = 0 /\ 0 <= MinWindows /\ \A k \in Peaks : ~(k <= 0)
    BY <2>1, CellAssumption
  <2> QED BY <1>5, <2>2 DEF SeriesAfter
<1>8. Progress(0, panes, <<>>, <<>>, NoBlob) /\ Progress(0, saved.panes, <<>>, <<>>, NoBlob)
  BY <1>3, <1>4, <1>5, <1>6, <1>7 DEF Progress
<1>9. Blobs = {} /\ Reported = {}
  BY <1>2, RangeEmpty DEF Blobs, Reported
<1> QED BY <1>2, <1>3, <1>8, <1>9 DEF Sound, Delivered

LEMMA NextSound ==
  Typed /\ Sending /\ Clock /\ WholeWindows /\ Sound /\ [Next]_vars => Sound'
<1> SUFFICES ASSUME Typed, Sending, Clock, WholeWindows, Sound, [Next]_vars PROVE Sound'
  OBVIOUS
<1>1. raw' = raw
  BY DEF Next, vars, Process, EmitWatermark, Fire, Checkpoint, Restore, Expire, JoinAlert
<1>2. expiries \in Nat /\ (expiries' = expiries \/ (Expire /\ expiries' = expiries + 1))
  BY DEF Next, vars, Process, EmitWatermark, Fire, Checkpoint, Restore, Expire, JoinAlert, Sending
<1>3. SUFFICES ASSUME InTime, expiries = 0, expiries' = expiries
      PROVE  /\ Progress(read', panes', baseline', series', latest')
             /\ Progress(saved'.read, saved'.panes, saved'.baseline, saved'.series, saved'.latest)
             /\ \A b \in Blobs' : \E w \in Occupied : b = Expected(w)
             /\ \A a \in Reported' : Backed(a)
             /\ Delivered(Fired(read', panes'), Blobs', Reported')
             /\ Delivered(Fired(saved'.read, saved'.panes), aggregated', alerts')
  <2>1. /\ InTime' <=> InTime
        /\ Occupied' = Occupied /\ Peaks' = Peaks
        /\ \A w : Rank(w)' = Rank(w) /\ Expected(w)' = Expected(w) /\ Alert(w)' = Alert(w)
        /\ \A c, f : Slice(c, f)' = Slice(c, f)
        /\ \A w, n : Closed(w, n)' <=> Closed(w, n)
    BY <1>1, Frame
  <2>2. /\ Fired(read, panes)' = Fired(read', panes')
        /\ Fired(saved.read, saved.panes)' = Fired(saved'.read, saved'.panes)
    BY <2>1 DEF Fired
  <2>3. \A f, s : SeriesAfter(f, s)' <=> SeriesAfter(f, s)
    BY <2>1 DEF SeriesAfter
  <2>4. /\ Progress(read, panes, baseline, series, latest)'
             <=> Progress(read', panes', baseline', series', latest')
        /\ Progress(saved.read, saved.panes, saved.baseline, saved.series, saved.latest)'
             <=> Progress(saved'.read, saved'.panes, saved'.baseline, saved'.series, saved'.latest)
    BY <2>1, <2>2, <2>3 DEF Progress, LastOf
  <2>5. \A a : Backed(a)' <=> Backed(a)
    BY <2>1 DEF Backed
  <2>6. \A F, B, A : Delivered(F, B, A)' <=> Delivered(F, B, A)
    BY <2>1 DEF Delivered
  <2>7. /\ Delivered(Fired(read, panes), Blobs, Reported)'
             <=> Delivered(Fired(read', panes'), Blobs', Reported')
        /\ Delivered(Fired(saved.read, saved.panes), aggregated, alerts)'
             <=> Delivered(Fired(saved'.read, saved'.panes), aggregated', alerts')
    BY <2>1, <2>2 DEF Delivered
  <2>8. expiries' = 0 => expiries = 0 /\ expiries' = expiries
    BY <1>2
  <2> QED BY <2>1, <2>4, <2>5, <2>7, <2>8 DEF Sound
<1>4. /\ Progress(read, panes, baseline, series, latest)
      /\ Progress(saved.read, saved.panes, saved.baseline, saved.series, saved.latest)
      /\ \A b \in Blobs : \E w \in Occupied : b = Expected(w)
      /\ \A a \in Reported : Backed(a)
      /\ Delivered(Fired(read, panes), Blobs, Reported)
      /\ Delivered(Fired(saved.read, saved.panes), aggregated, alerts)
  BY <1>3 DEF Sound
<1>5. Filled(read, panes)
  BY <1>3 DEF WholeWindows
<1>6. CASE Process
  <2>1. Fired(read', panes') = Fired(read, panes)
    BY <1>3, <1>5, <1>6, ProcessFiresNone
  <2>2. UNCHANGED <<baseline, series, latest, saved, output>>
    BY <1>6, ProcessEffect
  <2>3. alerts' = alerts /\ Reported' = Reported /\ aggregated' = aggregated /\ Blobs' = Blobs
    BY <2>2 DEF output, Blobs, Reported, Range
  <2>4. Progress(read', panes', baseline, series, latest)
    BY <1>4, <2>1 DEF Progress
  <2> QED BY <1>4, <2>1, <2>2, <2>3, <2>4
<1>7. CASE Fire
  <2>1. PICK w \in Occupied :
          /\ Fired(read, panes') = Fired(read, panes) \union {w}
          /\ Progress(read, panes', baseline', series', latest')
          /\ Blobs' = Blobs \union {Expected(w)}
          /\ Reported' = IF Rank(w) \in Peaks THEN Reported \union {Alert(w)} ELSE Reported
          /\ UNCHANGED <<raw, read, saved, aggregated, alerts, expiries>>
    BY <1>3, <1>4, <1>5, <1>7, FireSteps
  <2>2. \A a \in Reported' : Backed(a)
    BY <1>4, <2>1 DEF Backed
  <2>3. Delivered(Fired(read, panes'), Blobs', Reported')
    BY <1>4, <2>1 DEF Delivered
  <2>4. \A b \in Blobs' : \E v \in Occupied : b = Expected(v)
    BY <1>4, <2>1
  <2> QED BY <1>4, <2>1, <2>2, <2>3, <2>4
<1>8. CASE Checkpoint
  <2>1. /\ saved' = [read |-> read, panes |-> panes, baseline |-> baseline,
                     series |-> series, latest |-> latest]
        /\ aggregated' = Blobs /\ Blobs' = Blobs
        /\ UNCHANGED <<read, panes, baseline, series, latest>>
    BY <1>8, CheckpointEffect DEF state
  <2>2. alerts' = Reported /\ Reported' = Reported
    BY <1>8, FlushEffect
  <2> QED BY <1>4, <2>1, <2>2
<1>9. CASE Restore
  <2>1. /\ read' = saved.read /\ panes' = saved.panes
        /\ baseline' = saved.baseline /\ series' = saved.series /\ latest' = saved.latest
        /\ Blobs' = aggregated' /\ aggregated \subseteq aggregated' /\ Blobs' \subseteq Blobs
        /\ saved' = saved
    BY <1>9, RestoreEffect
  <2>2. alerts \subseteq alerts' /\ Reported' = alerts' /\ Reported' \subseteq Reported
    BY <1>9, LossEffect
  <2>3. Delivered(Fired(saved.read, saved.panes), aggregated', alerts')
    BY <1>4, <2>1, <2>2 DEF Delivered
  <2> QED BY <1>4, <2>1, <2>2, <2>3
<1>10. CASE \E located \in BOOLEAN : JoinAlert(located)
  <2>1. /\ \E l \in {latest, NoBlob} : Reported' = Reported \union {enrich_alert_with_region(l)}
        /\ UNCHANGED <<read, panes, baseline, series, latest, saved, blobBuffer, aggregated, alerts>>
    BY <1>10, JoinEffect DEF state
  <2>2. Blobs' = Blobs
    BY <2>1 DEF Blobs, Range
  <2>3. latest = NoBlob \/ \E w \in Occupied : latest = Expected(w)
    BY <1>4 DEF Progress
  <2>4. \A a \in Reported' : Backed(a)
    BY <1>4, <2>1, <2>3 DEF Backed
  <2>5. Delivered(Fired(read, panes), Blobs, Reported')
    BY <1>4, <2>1 DEF Delivered
  <2> QED BY <1>4, <2>1, <2>2, <2>4, <2>5
<1>11. CASE EmitWatermark \/ UNCHANGED vars
  <2>1. UNCHANGED <<read, panes, baseline, series, latest, saved, output>>
    BY <1>11 DEF EmitWatermark, state, vars
  <2>2. alerts' = alerts /\ Reported' = Reported /\ aggregated' = aggregated /\ Blobs' = Blobs
    BY <2>1 DEF output, Blobs, Reported, Range
  <2> QED BY <1>4, <2>1, <2>2
<1>12. ~Expire
  BY <1>3 DEF Expire
<1> QED BY <1>6, <1>7, <1>8, <1>9, <1>10, <1>11, <1>12 DEF Next
-----------------------------------------------------------------------------
(* What readers of the topics may rely on *)

PassedAreFired(x) == \A w \in Occupied : Passed(w) /\ w \notin Due => w \in x

LEMMA PassedHaveFired ==
  ASSUME Typed, Clock
  PROVE  PassedAreFired(Fired(read, panes))
<1> SUFFICES ASSUME NEW w \in Occupied, Passed(w), w \notin Due PROVE w \in Fired(read, panes)
  BY DEF PassedAreFired
<1>1. w \in Starts
  BY DEF Occupied
<1>2. panes[w] = {}
  BY <1>1 DEF Due
<1> QED BY <1>1, <1>2, ClosedByWatermark DEF Fired

LEMMA AlertFields ==
  ASSUME NEW w
  PROVE  /\ Alert(w).reason = "rising-trend" /\ Alert(w).window_start = w
         /\ Alert(w).cpm_series = LastOf(Averages(w), MinWindows)
  BY DEF Alert, TrendAlert

LEMMA RegionFields ==
  ASSUME NEW l
  PROVE  /\ enrich_alert_with_region(l).reason = "sustained-high"
         /\ enrich_alert_with_region(l).hot_region = IF l = NoBlob THEN NoBlob ELSE region_summary(l)
  BY DEF enrich_alert_with_region

LEMMA SoundBlobs ==
  ASSUME Typed, Clock, Sound
  PROVE  BlobsAreWhole
<1> SUFFICES ASSUME InTime, expiries = 0
             PROVE  /\ Blobs \subseteq {Expected(w) : w \in Occupied}
                    /\ Regions \subseteq {region_summary(Expected(w)) : w \in Occupied}
                    /\ {Expected(w) : w \in {v \in Occupied : Passed(v)} \ Due} \subseteq Blobs
  BY DEF BlobsAreWhole
<1>1. /\ \A b \in Blobs : \E w \in Occupied : b = Expected(w)
      /\ \A a \in Reported : Backed(a)
      /\ Delivered(Fired(read, panes), Blobs, Reported)
  BY DEF Sound
<1>2. ASSUME NEW g \in Regions PROVE \E w \in Occupied : g = region_summary(Expected(w))
  <2>1. PICK a \in Reported : a.reason = "sustained-high" /\ g = a.hot_region /\ g # NoBlob
    BY DEF Regions, Reported
  <2>2. CASE \E w \in Occupied : Rank(w) \in Peaks /\ a = Alert(w)
    BY <2>1, <2>2, AlertFields
  <2>3. CASE a = enrich_alert_with_region(NoBlob)
    BY <2>1, <2>3, RegionFields
  <2>4. CASE \E w \in Occupied : a = enrich_alert_with_region(Expected(w))
    BY <2>1, <2>4, RegionFields
  <2> QED BY <1>1, <2>1, <2>2, <2>3, <2>4 DEF Backed
<1>3. ASSUME NEW w \in Occupied, Passed(w), w \notin Due PROVE Expected(w) \in Blobs
  BY <1>1, <1>3, PassedHaveFired DEF PassedAreFired, Delivered
<1> QED BY <1>1, <1>2, <1>3

\* A reading of the cell is in a blob whatever is replayed: the windows fire in
\* order with all of their readings, so that the rolling statistics are those of
\* the windows before it.
THEOREM BlobsOfWholeWindows == Spec => []BlobsAreWhole
<1>1. Init => Typed /\ Sending /\ Clock /\ WholeWindows /\ Sound
  BY InitTyped, InitSending, InitClock, InitWholeWindows, InitSound
<1>2. Typed /\ Sending /\ Clock /\ WholeWindows /\ Sound /\ [Next]_vars
        => Typed' /\ Sending' /\ Clock' /\ WholeWindows' /\ Sound'
  BY NextTyped, NextSending, NextClock, NextWholeWindows, NextSound
<1>3. Typed /\ Clock /\ Sound => BlobsAreWhole
  BY SoundBlobs
<1> QED BY <1>1, <1>2, <1>3, PTL DEF Spec

LEMMA InLastOf ==
  ASSUME NEW S, NEW s \in Seq(S), NEW n \in Nat \ {0}, NEW i \in 1..Len(s), i > Len(s) - n
  PROVE  s[i] \in Range(LastOf(s, n))
<1> DEFINE l == LastOf(s, n)
           j == i - (Len(s) - Len(l))
<1>1. Len(s) \in Nat
  BY LenProperties
<1>2. /\ l \in Seq(S) /\ Len(l) = IF Len(s) > n THEN n ELSE Len(s)
      /\ \A k \in 1..Len(l) : l[k] = s[Len(s) - Len(l) + k]
  BY LastOfProperties
<1> HIDE DEF l
<1>3. j \in 1..Len(l) /\ Len(s) - Len(l) + j = i
  <2> DEFINE N == Len(s)
             L == Len(l)
  <2>1. N \in Nat /\ L = IF N > n THEN n ELSE N
    BY <1>1, <1>2
  <2>2. i \in 1..N /\ i > N - n
    OBVIOUS
  <2> HIDE DEF N, L
  <2>3. i - (N - L) \in 1..L /\ N - L + (i - (N - L)) = i
    BY <2>1, <2>2
  <2> QED BY <2>3 DEF N, L
<1>4. l[j] = s[i]
  BY <1>2, <1>3
<1>5. \A x : x \in Range(l) <=> \E k \in 1..Len(l) : l[k] = x
  BY <1>2, RangeElements
<1> QED BY <1>3, <1>4, <1>5 DEF l

LEMMA ClimbsAreRising ==
  ASSUME Typed, NEW w \in Occupied
  PROVE  Climbs(w) <=> Rising(Rank(w))
<1>1. Rank(w) \in Nat \ {0} /\ Averages(w) = Slice(0, Rank(w))
  BY WindowsInOrder
<1>2. 0 \in Nat /\ 0 <= Rank(w) /\ Rank(w) - 0 = Rank(w)
  BY <1>1
<1>3. is_rising(Slice(0, Rank(w))) <=> Rank(w) - 0 >= MinWindows /\ Rises(Rank(w))
  BY <1>1, <1>2, SliceRising
<1> QED BY <1>1, <1>2, <1>3 DEF Climbs, Rising

\* The windows in the climb up to w are the ones of the ranks next below its own.
LEMMA WindowsOfClimb ==
  ASSUME Typed, NEW w \in Occupied, NEW v \in Occupied,
         Rank(v) <= Rank(w), Rank(w) - Rank(v) < MinWindows
  PROVE  v \in Range(LastOf(UpTo(w), MinWindows))
<1>1. /\ Rank(w) \in Nat \ {0} /\ Rank(v) \in Nat \ {0} /\ Window(Rank(v)) = v
      /\ Len(UpTo(w)) = Rank(w) /\ UpTo(w) \in Seq(Occupied)
      /\ \A i \in 1..Rank(w) : UpTo(w)[i] = Window(i)
  BY WindowsInOrder
<1>2. MinWindows \in Nat \ {0}
  BY CellAssumption
<1>3. Rank(v) \in 1..Len(UpTo(w)) /\ Rank(v) > Len(UpTo(w)) - MinWindows
  BY <1>1, <1>2
<1>4. UpTo(w)[Rank(v)] \in Range(LastOf(UpTo(w), MinWindows))
  BY <1>1, <1>2, <1>3, InLastOf
<1> QED BY <1>1, <1>3, <1>4

LEMMA SoundTrends ==
  ASSUME Typed, Clock, Sound
  PROVE  TrendsAreClimbs
<1> SUFFICES ASSUME InTime, expiries = 0
             PROVE  /\ \A a \in Trends :
                         /\ Climbs(a.window_start)
                         /\ a.cpm_series = LastOf(Averages(a.window_start), MinWindows)
                    /\ \A a, b \in Trends :
                         a.window_start < b.window_start =>
                           Len(UpTo(b.window_start)) - Len(UpTo(a.window_start)) >= MinWindows
                    /\ \A w \in Occupied \ Due :
                         Passed(w) /\ Climbs(w) =>
                           \E a \in Trends : a.window_start \in Range(LastOf(UpTo(w), MinWindows))
  BY DEF TrendsAreClimbs
<1>1. /\ Progress(read, panes, baseline, series, latest)
      /\ \A a \in Reported : Backed(a)
      /\ Delivered(Fired(read, panes), Blobs, Reported)
  BY DEF Sound
<1>2. /\ \A w \in Occupied : Rank(w) \in 1..Cardinality(Occupied) /\ Window(Rank(w)) = w
      /\ \A u, w \in Occupied : u < w => Rank(u) < Rank(w)
      /\ \A i \in 1..Cardinality(Occupied) : Window(i) \in Occupied /\ Rank(Window(i)) = i
      /\ Cardinality(Occupied) \in Nat
  BY RankProperties
<1>3. /\ Peaks \in SUBSET (1..Cardinality(Occupied))
      /\ \A i \in 1..Cardinality(Occupied) :
           i \in Peaks <=> Rising(i) /\ \A k \in Peaks : k < i => i - k >= MinWindows
  BY PeaksProperties
<1>4. MinWindows \in Nat \ {0, 1}
  BY CellAssumption
<1>5. ASSUME NEW a \in Trends
      PROVE  \E w \in Occupied : Rank(w) \in Peaks /\ a = Alert(w) /\ a.window_start = w
  <2>1. a \in Reported /\ a.reason = "rising-trend"
    BY DEF Trends, Reported
  <2>2. \A l : a # enrich_alert_with_region(l)
    BY <2>1, RegionFields
  <2>3. PICK w \in Occupied : Rank(w) \in Peaks /\ a = Alert(w)
    BY <1>1, <2>1, <2>2 DEF Backed
  <2> QED BY <2>3, AlertFields
<1>6. ASSUME NEW a \in Trends
      PROVE  Climbs(a.window_start) /\ a.cpm_series = LastOf(Averages(a.window_start), MinWindows)
  <2>1. PICK w \in Occupied : Rank(w) \in Peaks /\ a = Alert(w) /\ a.window_start = w
    BY <1>5
  <2>2. Climbs(w)
    BY <1>2, <1>3, <2>1, ClimbsAreRising
  <2> QED BY <2>1, <2>2, AlertFields
<1>7. ASSUME NEW a \in Trends, NEW b \in Trends, a.window_start < b.window_start
      PROVE  Len(UpTo(b.window_start)) - Len(UpTo(a.window_start)) >= MinWindows
  <2>1. PICK u \in Occupied : Rank(u) \in Peaks /\ a.window_start = u
    BY <1>5
  <2>2. PICK w \in Occupied : Rank(w) \in Peaks /\ b.window_start = w
    BY <1>5
  <2>3. Rank(u) < Rank(w)
    BY <1>2, <1>7, <2>1, <2>2
  <2>4. Rank(w) - Rank(u) >= MinWindows
    BY <1>2, <1>3, <2>1, <2>2, <2>3
  <2>5. Len(UpTo(u)) = Rank(u) /\ Len(UpTo(w)) = Rank(w)
    BY WindowsInOrder
  <2> QED BY <2>1, <2>2, <2>4, <2>5
<1>8. ASSUME NEW w \in Occupied, w \notin Due, Passed(w), Climbs(w)
      PROVE  \E a \in Trends : a.window_start \in Range(LastOf(UpTo(w), MinWindows))
  <2>1. w \in Fired(read, panes)
    BY <1>8, PassedHaveFired DEF PassedAreFired
  <2>2. Rising(Rank(w)) /\ Rank(w) \in 1..Cardinality(Occupied) /\ w \in Nat
    BY <1>2, <1>8, ClimbsAreRising, OccupiedFinite
  <2>3. \E v \in Fired(read, panes) :
          v \in Occupied /\ Rank(v) \in Peaks /\ Rank(v) <= Rank(w) /\ Rank(w) - Rank(v) < MinWindows
    <3>1. CASE Rank(w) \in Peaks
      <4>1. Rank(w) <= Rank(w) /\ Rank(w) - Rank(w) < MinWindows
        BY <1>4, <2>2
      <4> QED BY <2>1, <3>1, <4>1
    <3>2. CASE Rank(w) \notin Peaks
      <4>1. PICK k \in Peaks : k < Rank(w) /\ ~(Rank(w) - k >= MinWindows)
        BY <1>3, <2>2, <3>2
      <4> DEFINE v == Window(k)
      <4>2. k \in 1..Cardinality(Occupied)
        BY <1>3
      <4>3. v \in Occupied /\ Rank(v) = k
        BY <1>2, <4>2
      <4> HIDE DEF v
      <4>4. v \in Nat
        BY <4>3, OccupiedFinite
      <4>5. v < w
        <5>1. ~(w < v)
          <6>1. w < v => Rank(w) < Rank(v)
            BY <1>2, <4>3
          <6> QED BY <1>2, <2>2, <4>1, <4>2, <4>3, <6>1
        <5>2. v # w
          BY <2>2, <4>1, <4>2, <4>3
        <5> QED BY <2>2, <4>4, <5>1, <5>2
      <4>6. v \in Fired(read, panes)
        BY <1>1, <2>1, <4>3, <4>5 DEF Progress
      <4>7. Rank(v) <= Rank(w) /\ Rank(w) - Rank(v) < MinWindows
        BY <1>2, <1>4, <2>2, <4>1, <4>2, <4>3
      <4> QED BY <4>3, <4>6, <4>7
    <3> QED BY <3>1, <3>2
  <2>4. PICK v \in Fired(read, panes) :
          v \in Occupied /\ Rank(v) \in Peaks /\ Rank(v) <= Rank(w) /\ Rank(w) - Rank(v) < MinWindows
    BY <2>3
  <2>5. Alert(v) \in Reported /\ Alert(v).window_start = v /\ Alert(v).reason = "rising-trend"
    BY <1>1, <2>4, AlertFields DEF Delivered
  <2>6. Alert(v) \in Trends
    BY <2>5 DEF Trends, Reported
  <2>7. v \in Range(LastOf(UpTo(w), MinWindows))
    BY <2>4, WindowsOfClimb
  <2> QED BY <2>5, <2>6, <2>7
<1> QED BY <1>6, <1>7, <1>8

\* A trend alert ends a climb of MinWindows windows that shares none with another
\* alert's, and a climb that is not reported overlaps with one that is: the windows
\* that alert are a function of the stream, so that a replay alerts the same.
THEOREM AlertsAreOfClimbs == Spec => []TrendsAreClimbs
<1>1. Init => Typed /\ Sending /\ Clock /\ WholeWindows /\ Sound
  BY InitTyped, InitSending, InitClock, InitWholeWindows, InitSound
<1>2. Typed /\ Sending /\ Clock /\ WholeWindows /\ Sound /\ [Next]_vars
        => Typed' /\ Sending' /\ Clock' /\ WholeWindows' /\ Sound'
  BY NextTyped, NextSending, NextClock, NextWholeWindows, NextSound
<1>3. Typed /\ Clock /\ Sound => TrendsAreClimbs
  BY SoundTrends
<1> QED BY <1>1, <1>2, <1>3, PTL DEF Spec
=============================================================================
