---------------------------- MODULE DataProvider ----------------------------
(***************************************************************************)
(* The data provider: csv_reader.py reads the Safecast CSV in batches that *)
(* it sorts by upload time, mapper.py turns rows into events,              *)
(* sensor_classifier.py labels the sensors, producer.py hands the events   *)
(* to kafka-python, which sends them to radiation.raw from a thread of its *)
(* own, and metrics.py counts.  A run ends at the end of the file, by an   *)
(* exception or a keyboard interrupt, which flush, or by SIGTERM or        *)
(* SIGKILL, which do not; it can be resumed with --skip-rows.              *)
(*                                                                         *)
(* A time is the rank of the normalised timestamp string, a place one      *)
(* coordinate.  The pace of the replay (_apply_speed) is left out: the     *)
(* steps of the main and of the sender thread interleave freely.           *)
(***************************************************************************)
EXTENDS Integers, SequencesExt

CONSTANTS
  Rows,           \* rows of the file
  Sensors,
  None,           \* an empty or unusable field
  HasUploadTimes, \* the header has a column for uploaded_at
  Start, End,     \* --start and --end
  Preset,         \* the bounds of --preset, or None
  BatchSize,      \* --batch-size
  Threshold,      \* --movement-threshold-m
  Retries, MaxInFlight,       \* of kafka-python
  MaxRows, MaxRuns, MaxFaults \* bounds of the model

ASSUME ProviderAssumption ==
  /\ \A row \in Rows :
       /\ row.sensor_id \in Sensors \union {None} /\ row.device_id \in Sensors \union {None}
       /\ \A t \in {row.captured_at, row.uploaded_at} \ {None} : t \in Nat
       /\ row.place # None => row.place \in Int
  /\ None \notin Sensors /\ None \notin [lo : Int, hi : Int, mobile : BOOLEAN]
  /\ HasUploadTimes \in BOOLEAN
  /\ BatchSize \in Nat \ {0} /\ Threshold \in Nat \ {0}
  /\ Retries \in Nat /\ MaxInFlight \in Nat \ {0}
  /\ MaxRows \in Nat /\ MaxRuns \in Nat /\ MaxFaults \in Nat

VARIABLES
  file,
  phase,      \* of the process: "running", "flushing", "done", "killed"
  runs,       \* runs started
  pos,        \* rows of the file the reader has consumed
  batch,      \* what is left of the sorted batch, as positions in the file
  number,     \* of the batch
  boxes,      \* bounding box of each sensor
  queue,      \* the record accumulator
  inflight,   \* requests the broker has not answered, in the order sent
  topic,      \* radiation.raw
  sent, discarded, errors,  \* ProducerMetrics
  failed,     \* history: rows for which an error was counted, in any run
  complete,   \* history: the rows up to here have all been handled
  gap,        \* history: a run followed a killed one or skipped rows not handled before
  faults

reader == <<pos, batch, number>>
kafka == <<queue, inflight, topic>>
metrics == <<sent, discarded, errors>>
history == <<failed, complete, gap>>
vars == <<file, phase, runs, reader, boxes, kafka, metrics, history, faults>>

-----------------------------------------------------------------------------
\* main: --start and --end take priority over the preset.
start_ts == IF Start # None \/ Preset = None THEN Start ELSE Preset.start
end_ts == IF End # None \/ Preset = None THEN End ELSE Preset.end

\* A row without a time passes, for the mapper to discard it.
in_span(row) ==
  row.captured_at # None =>
    /\ start_ts # None => row.captured_at >= start_ts
    /\ end_ts # None => row.captured_at <= end_ts

\* _pick_order_col
OrderCol(row) == IF HasUploadTimes THEN row.uploaded_at ELSE row.captured_at

\* The key of batch.sort: empty fields last; the sort is stable.
Before(i, j) ==
  LET a == OrderCol(file[i])
      b == OrderCol(file[j])
  IN  IF a = b THEN i < j ELSE IF a = None \/ b = None THEN b = None ELSE a < b

\* A device_id of "0" counts as empty.
resolve_sensor_id(row) == IF row.sensor_id # None THEN row.sensor_id ELSE row.device_id

\* row_to_event returns None for the others.
Mappable(row) ==
  /\ resolve_sensor_id(row) # None
  /\ row.captured_at # None
  /\ row.place # None /\ row.place \in -90..90

Fixed(place) == [lo |-> place, hi |-> place, mobile |-> FALSE]

\* Faulty variant: the label follows the last two readings.
ClassifiedUnstuck(box, place) ==
  IF box = None THEN Fixed(place)
  ELSE [lo |-> place, hi |-> place, mobile |-> Max({box.hi, place}) - Min({box.lo, place}) > Threshold]

\* SensorClassifier.classify: the box grows until its diagonal exceeds the
\* threshold, and the sensor stays mobile from then on.
Classified(box, place) ==
  IF box = None THEN Fixed(place)
  ELSE IF box.mobile THEN box
  ELSE LET lo == Min({box.lo, place})
           hi == Max({box.hi, place})
       IN  [lo |-> lo, hi |-> hi, mobile |-> hi - lo > Threshold]

-----------------------------------------------------------------------------
Init ==
  /\ file \in [1..MaxRows -> Rows]
  /\ phase = "done" /\ runs = 0
  /\ pos = 0 /\ batch = <<>> /\ number = 0
  /\ boxes = [s \in Sensors |-> None]
  /\ queue = <<>> /\ inflight = <<>> /\ topic = <<>>
  /\ sent = 0 /\ discarded = 0 /\ errors = 0
  /\ failed = {} /\ complete = 0 /\ gap = FALSE
  /\ faults = 0

\* A run starts, the first or one that resumes, with new metrics, a new
\* classifier and a new Kafka producer.
Run(skip_rows) ==
  /\ phase \in {"done", "killed"} /\ runs < MaxRuns
  /\ phase' = "running" /\ runs' = runs + 1
  /\ pos' = skip_rows /\ batch' = <<>> /\ number' = 0
  /\ boxes' = [s \in Sensors |-> None]
  /\ sent' = 0 /\ discarded' = 0 /\ errors' = 0
  /\ gap' = (gap \/ phase = "killed" \/ skip_rows > complete) /\ complete' = skip_rows
  /\ UNCHANGED <<file, kafka, failed, faults>>

Eligible == {i \in (pos + 1)..Len(file) : in_span(file[i])}

\* The rows of the next batch: the first in span that fill it.
Chunk == {i \in Eligible : Cardinality({j \in Eligible : j <= i}) <= BatchSize}

\* batch.sort
Sorted(rows) ==
  CHOOSE s \in [1..Cardinality(rows) -> rows] :
    \A k, l \in 1..Cardinality(rows) : k < l => Before(s[k], s[l])

\* Faulty variant: the batch is yielded in file order.
ReadBatchUnsorted ==
  /\ phase = "running" /\ batch = <<>> /\ Eligible # {}
  /\ batch' = SetToSortSeq(Chunk, <)
  /\ pos' = IF Cardinality(Eligible) >= BatchSize THEN Max(Chunk) ELSE Len(file)
  /\ number' = number + 1 /\ complete' = pos
  /\ UNCHANGED <<file, phase, runs, boxes, kafka, metrics, failed, gap, faults>>

\* stream_rows collects rows in span until a batch is full or the file ends.
ReadBatch ==
  /\ phase = "running" /\ batch = <<>> /\ Eligible # {}
  /\ batch' = Sorted(Chunk)
  /\ pos' = IF Cardinality(Eligible) >= BatchSize THEN Max(Chunk) ELSE Len(file)
  /\ number' = number + 1 /\ complete' = pos
  /\ UNCHANGED <<file, phase, runs, boxes, kafka, metrics, failed, gap, faults>>

\* The next row of the batch is discarded.
Discard ==
  /\ phase = "running" /\ batch # <<>>
  /\ ~Mappable(file[Head(batch)])
  /\ batch' = Tail(batch)
  /\ discarded' = discarded + 1
  /\ UNCHANGED <<file, phase, runs, pos, number, boxes, kafka, sent, errors, history, faults>>

\* It is labelled and sent: producer.send queues it, or raises a KafkaError
\* because the buffer stays full or there is no metadata.
Send(raises) ==
  LET i == Head(batch)
      s == resolve_sensor_id(file[i])
      box == Classified(boxes[s], file[i].place)
  IN  /\ phase = "running" /\ batch # <<>>
      /\ Mappable(file[i])
      /\ batch' = Tail(batch)
      /\ boxes' = [boxes EXCEPT ![s] = box]
      /\ IF raises
         THEN /\ faults < MaxFaults /\ faults' = faults + 1
              /\ errors' = errors + 1 /\ failed' = failed \union {i}
              /\ UNCHANGED <<queue, sent>>
         ELSE /\ queue' = Append(queue, [row |-> i, mobile |-> box.mobile,
                                         run |-> runs, batch |-> number, tries |-> 0])
              /\ sent' = sent + 1
              /\ UNCHANGED <<errors, failed, faults>>
      /\ UNCHANGED <<file, phase, runs, pos, number, inflight, topic, discarded, complete, gap>>

\* The sender thread has several requests outstanding on its connection.
Transmit ==
  /\ queue # <<>> /\ Len(inflight) < MaxInFlight
  /\ inflight' = Append(inflight, Head(queue)) /\ queue' = Tail(queue)
  /\ UNCHANGED <<file, phase, runs, reader, boxes, topic, metrics, history, faults>>

\* All replicas have the record and the acknowledgement arrives.
Acknowledge ==
  /\ inflight # <<>>
  /\ topic' = Append(topic, Head(inflight)) /\ inflight' = Tail(inflight)
  /\ UNCHANGED <<file, phase, runs, reader, boxes, queue, metrics, history, faults>>

\* Faulty variant: a record that is given up is not reported.
FailUnreported(appended) ==
  LET r == Head(inflight)
  IN  /\ inflight # <<>> /\ faults < MaxFaults
      /\ faults' = faults + 1
      /\ inflight' = Tail(inflight)
      /\ topic' = IF appended THEN Append(topic, r) ELSE topic
      /\ queue' = IF r.tries < Retries THEN <<[r EXCEPT !.tries = @ + 1]>> \o queue ELSE queue
      /\ UNCHANGED <<file, phase, runs, reader, boxes, metrics, history>>

\* The request or only its answer is lost: the record goes back to the head of
\* the queue, behind what is already in flight; after the last retry the
\* errback counts an error.
Fail(appended) ==
  LET r == Head(inflight)
  IN  /\ inflight # <<>> /\ faults < MaxFaults
      /\ faults' = faults + 1
      /\ inflight' = Tail(inflight)
      /\ topic' = IF appended THEN Append(topic, r) ELSE topic
      /\ IF r.tries < Retries
         THEN queue' = <<[r EXCEPT !.tries = @ + 1]>> \o queue /\ UNCHANGED <<errors, failed>>
         ELSE errors' = errors + 1 /\ failed' = failed \union {r.row} /\ UNCHANGED queue
      /\ UNCHANGED <<file, phase, runs, reader, boxes, sent, discarded, complete, gap>>

\* The file ends, or an exception leaves the loop: on to the finally block.
Leave ==
  /\ phase = "running"
  /\ \/ /\ batch = <<>> /\ Eligible = {}
        /\ complete' = Len(file) /\ UNCHANGED faults
     \/ /\ faults < MaxFaults /\ faults' = faults + 1
        /\ complete' = IF batch = <<>> THEN pos ELSE complete
  /\ phase' = "flushing" /\ batch' = <<>>
  /\ UNCHANGED <<file, runs, pos, number, boxes, kafka, metrics, failed, gap>>

\* Faulty variant: the producer is closed without waiting for the queue.
FlushNothing ==
  /\ phase = "flushing"
  /\ phase' = "done" /\ queue' = <<>> /\ inflight' = <<>>
  /\ UNCHANGED <<file, runs, reader, boxes, topic, metrics, history, faults>>

\* flush returns when every record is acknowledged or given up.
Flush ==
  /\ phase = "flushing" /\ queue = <<>> /\ inflight = <<>>
  /\ phase' = "done"
  /\ UNCHANGED <<file, runs, reader, boxes, kafka, metrics, history, faults>>

\* The process is terminated: what is queued is lost, of what is in flight some
\* has arrived.
Kill ==
  /\ phase \in {"running", "flushing"} /\ faults < MaxFaults
  /\ faults' = faults + 1
  /\ phase' = "killed" /\ batch' = <<>>
  /\ \E n \in 0..Len(inflight) : topic' = topic \o SubSeq(inflight, 1, n)
  /\ queue' = <<>> /\ inflight' = <<>>
  /\ UNCHANGED <<file, runs, pos, number, boxes, metrics, history>>

Next ==
  \/ \E skip_rows \in 0..Len(file) : Run(skip_rows)
  \/ ReadBatch \/ Discard \/ \E raises \in BOOLEAN : Send(raises)
  \/ Transmit \/ Acknowledge \/ \E appended \in BOOLEAN : Fail(appended)
  \/ Leave \/ Flush \/ Kill

Spec == Init /\ [][Next]_vars

-----------------------------------------------------------------------------
Delivered == {topic[k].row : k \in DOMAIN topic}

\* Runs that are not killed, each resumed where every batch before had been
\* handled, leave no row in span behind: it is on the topic, it was discarded,
\* or an error was counted.  The counter sent is no such place, since the sorted
\* batch is not yielded in file order.
ResumeLosesNothing ==
  phase = "done" /\ ~gap =>
    \A i \in 1..complete :
      in_span(file[i]) /\ Mappable(file[i]) => i \in Delivered \union failed

\* Once flushed, what the counters say was sent has been delivered except for
\* the errors: an error that send raised and one that came later count alike.
CountersBoundDelivery ==
  LET delivered == {topic[k].row : k \in {k \in DOMAIN topic : topic[k].run = runs}}
  IN  phase = "done" => sent - errors <= Cardinality(delivered) /\ Cardinality(delivered) <= sent

\* Within a run the topic has the batches in order and each batch by upload
\* time; only a record that was sent again stands behind its successors.
OrderBrokenOnlyByRetry ==
  \A k, l \in DOMAIN topic :
    LET a == topic[k]
        b == topic[l]
    IN  k < l /\ a.run = b.run /\ (b.batch < a.batch \/ (b.batch = a.batch /\ Before(b.row, a.row)))
          => b.tries > 0

\* A sensor that was labelled mobile is not labelled fixed again in the same run,
\* again unless a record was sent twice.
LabelsSharpen ==
  \A k, l \in DOMAIN topic :
    LET a == topic[k]
        b == topic[l]
    IN  k < l /\ a.run = b.run /\ a.mobile /\ ~b.mobile
          /\ resolve_sensor_id(file[a.row]) = resolve_sensor_id(file[b.row]) => b.tries > 0
=============================================================================
