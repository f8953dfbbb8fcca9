--------------------------- MODULE AggregatedSink ---------------------------
(***************************************************************************)
(* aggregated_sink: the process that copies the topic radiation.aggregated *)
(* into the Postgres table aggregated_blobs (ADR-018).                     *)
(*                                                                         *)
(* One loop iteration (process_batch) polls a batch, builds its rows,      *)
(* upserts them in one transaction that execute_values splits into         *)
(* statements of at most page_size rows, commits the transaction, and only *)
(* then commits the Kafka offset.  Any exception ends the process and the  *)
(* container's restart policy starts it again at the committed offset.     *)
(*                                                                         *)
(* A record is identified by its offset in the topic (1, 2, ...), so the   *)
(* table maps a key to the offset of the record its row holds, 0 when the  *)
(* key has no row.                                                         *)
(***************************************************************************)
EXTENDS Naturals, Sequences, FiniteSets

CONSTANTS
  Keys,        \* values of (geohash, window_start), the table's primary key
  Malformed,   \* a message json.loads or record_to_row rejects
  IllTyped,    \* a message with a column value that only Postgres rejects
  BatchSize,   \* config.batch_size, max_records of a poll
  PageSize,    \* page_size of psycopg2's execute_values
  MaxLog,      \* bound on the messages produced
  MaxCrashes   \* bound on the crashes of the process

ASSUME SinkAssumption ==
  /\ {Malformed, IllTyped} \intersect Keys = {} /\ Malformed # IllTyped
  /\ BatchSize \in Nat \ {0} /\ PageSize \in Nat \ {0}
  /\ MaxLog \in Nat /\ MaxCrashes \in Nat

Messages == Keys \union {Malformed, IllTyped}

VARIABLES
  log,         \* the topic: keys, malformed and ill-typed messages
  committed,   \* the consumer group's committed offset
  position,    \* the consumer's position: the batch is committed+1..position
  done,        \* the rows up to this offset have been executed
  txn,         \* the table as the open transaction sees it
  db,          \* the table as committed, what /history reads
  pc,          \* where the process is
  crashes      \* crashes so far

vars == <<log, committed, position, done, txn, db, pc, crashes>>

Offsets == 1..Len(log)

\* Offsets in (lo, hi] whose message becomes a row; the others are skipped.
Rows(lo, hi) == {i \in (lo + 1)..hi : log[i] # Malformed}

\* One statement's rows: PageSize rows, or what is left of the batch.
IsPage(lo, hi) ==
  /\ lo < hi /\ hi <= position
  /\ \/ Cardinality(Rows(lo, hi)) = PageSize /\ log[hi] # Malformed
     \/ Cardinality(Rows(lo, hi)) < PageSize /\ hi = position

\* Postgres rejects a statement that would update one row twice.
RepeatsKey(lo, hi) == \E i, j \in Rows(lo, hi) : i # j /\ log[i] = log[j]

\* Postgres rejects a statement, with every row in it.
Rejected(lo, hi) == RepeatsKey(lo, hi) \/ \E i \in Rows(lo, hi) : log[i] = IllTyped

\* ON CONFLICT DO UPDATE: a row of the statement replaces the key's row.
Upserted(table, lo, hi) ==
  [k \in Keys |-> IF \E i \in Rows(lo, hi) : log[i] = k
                  THEN CHOOSE i \in Rows(lo, hi) : log[i] = k
                  ELSE table[k]]

-----------------------------------------------------------------------------
Init ==
  /\ log = <<>>
  /\ committed = 0 /\ position = 0 /\ done = 0
  /\ db = [k \in Keys |-> 0] /\ txn = db
  /\ pc = "down"
  /\ crashes = 0

\* Flink appends to the topic: a window's record, a late re-fire or a replay of
\* one; or something else puts a message there that makes no row.
Produce(m) ==
  /\ Len(log) < MaxLog
  /\ log' = Append(log, m)
  /\ UNCHANGED <<committed, position, done, txn, db, pc, crashes>>

\* connect_with_retry, ensure_schema, and a consumer at the committed offset
\* (earliest when there is none).
Start ==
  /\ pc = "down"
  /\ pc' = "idle"
  /\ position' = committed /\ done' = committed /\ txn' = db
  /\ UNCHANGED <<log, committed, db, crashes>>

\* poll(max_records = batch_size): any non-empty prefix of what is available.
Poll ==
  /\ pc = "idle"
  /\ \E p \in Offsets :
       /\ position < p /\ p <= position + BatchSize
       /\ position' = p
  /\ pc' = "polled"
  /\ UNCHANGED <<log, committed, done, txn, db, crashes>>

\* Faulty variant: autocommit, each statement is durable at once.
ExecutePageAutocommit ==
  /\ pc = "polled"
  /\ \E hi \in Offsets :
       /\ IsPage(done, hi) /\ ~Rejected(done, hi)
       /\ txn' = Upserted(txn, done, hi)
       /\ db' = txn'
       /\ done' = hi
  /\ UNCHANGED <<log, committed, position, pc, crashes>>

\* One statement of execute_values succeeds, visible inside the transaction.
ExecutePage ==
  /\ pc = "polled"
  /\ \E hi \in Offsets :
       /\ IsPage(done, hi) /\ ~Rejected(done, hi)
       /\ txn' = Upserted(txn, done, hi)
       /\ done' = hi
  /\ UNCHANGED <<log, committed, position, db, pc, crashes>>

\* One statement fails: the exception leaves run(), which closes consumer and
\* connection; the transaction is rolled back and no offset is committed.
RejectPage ==
  /\ pc = "polled"
  /\ \E hi \in Offsets : IsPage(done, hi) /\ Rejected(done, hi)
  /\ pc' = "down"
  /\ UNCHANGED <<log, committed, position, done, txn, db, crashes>>

\* conn.commit() after the last statement.
CommitRows ==
  /\ pc = "polled" /\ done = position
  /\ db' = txn
  /\ pc' = "durable"
  /\ UNCHANGED <<log, committed, position, done, txn, crashes>>

\* Faulty variant: the offset is committed before the rows are durable.
CommitOffsetEarly ==
  /\ pc = "polled"
  /\ committed' = position /\ done' = position
  /\ pc' = "idle"
  /\ UNCHANGED <<log, position, txn, db, crashes>>

\* Faulty variant: one offset too many is committed.
CommitNextOffset ==
  /\ pc = "durable"
  /\ committed' = position + 1
  /\ pc' = "idle"
  /\ UNCHANGED <<log, position, done, txn, db, crashes>>

\* Faulty variant: the loop goes on without committing the offset.
SkipOffsetCommit ==
  /\ pc = "durable"
  /\ pc' = "idle"
  /\ UNCHANGED <<log, committed, position, done, txn, db, crashes>>

\* consumer.commit(), only once the rows are durable.
CommitOffset ==
  /\ pc = "durable"
  /\ committed' = position
  /\ pc' = "idle"
  /\ UNCHANGED <<log, position, done, txn, db, crashes>>

\* The process ends at any point: a kill, a lost connection, a failed commit
\* whose effect did or did not reach the broker or the database, or SIGTERM.
Crash ==
  /\ pc # "down" /\ crashes < MaxCrashes
  /\ pc' = "down"
  /\ crashes' = crashes + 1
  /\ UNCHANGED <<log, committed, position, done, txn, db>>

Step == Start \/ Poll \/ ExecutePage \/ RejectPage \/ CommitRows \/ CommitOffset

Next == (\E m \in Messages : Produce(m)) \/ Step \/ Crash

Spec == Init /\ [][Next]_vars

\* The loop runs for as long as it can and the container is restarted.
FairSpec == Spec /\ WF_vars(Step)

-----------------------------------------------------------------------------
\* Types, and the order of the three offsets.
TypeOK ==
  /\ log \in Seq(Messages)
  /\ committed \in Nat /\ position \in Nat /\ done \in Nat
  /\ txn \in [Keys -> Nat] /\ db \in [Keys -> Nat]
  /\ pc \in {"down", "idle", "polled", "durable"}
  /\ crashes \in Nat
  /\ committed <= done /\ done <= position /\ position <= Len(log)

\* Each row of the table is a record of its key, from this topic.
Sourced(table) == \A k \in Keys : table[k] # 0 => table[k] \in Offsets /\ log[table[k]] = k

\* The table reflects every record up to offset n: its row, or a later one.
Reflects(table, n) == \A i \in 1..n : \A k \in Keys : log[i] = k => i <= table[k]

\* At-least-once (consumer.py:34-36): no record behind the committed offset is
\* missing from the archive, whatever crashed in between.
CommittedRecordsArchived == Sourced(db) /\ Reflects(db, committed)

\* The archive that readers of the table see.
Archived ==
  INSTANCE Archive WITH topic <- log, rows <- db, acked <- committed,
                        applied <- IF pc = "durable" THEN position ELSE committed

\* The sink implements the archive: batches that execute_values cuts into
\* statements, rejected statements and crashes anywhere appear to a reader as
\* whole runs of records, applied latest-wins and acknowledged afterwards
\* (consumer.py:31-49, db.py:155-164).
ImplementsArchive == Archived!Spec

CaughtUp == committed = Len(log) /\ Reflects(db, Len(log))

\* A statement of the batch at the committed offset is one Postgres rejects:
\* execute_values cuts the batch's rows into pages from its first row on.
Obstructed ==
  \E lo, hi \in committed..Len(log) :
    /\ lo < hi /\ hi <= committed + BatchSize
    /\ Cardinality(Rows(committed, lo)) % PageSize = 0
    /\ Cardinality(Rows(lo, hi)) <= PageSize
    /\ Rejected(lo, hi)

\* The sink archives and acknowledges all there is, through malformed messages
\* and crashes, and nothing but a rejected statement can keep it from that.
CatchesUpUnlessObstructed == <>[]CaughtUp \/ <>[]Obstructed

\* Every record is eventually in the archive and acknowledged: duplicates
\* collapse onto one row (db.py:4-7).
ArchiveCatchesUp == <>[]CaughtUp
=============================================================================
