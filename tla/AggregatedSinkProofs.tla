------------------------ MODULE AggregatedSinkProofs ------------------------
(***************************************************************************)
(* Proofs, for every set of keys, batch size, page size and bound, of the  *)
(* safety properties of AggregatedSink.                                    *)
(***************************************************************************)
EXTENDS AggregatedSink, TLAPS

\* What each point of the loop knows of the transaction and of the table.
Progress ==
  /\ Reflects(txn, done)
  /\ pc = "idle" => done = position
  /\ pc = "durable" => done = position /\ db = txn

\* The inductive invariant: the archive reflects the acknowledged prefix, the
\* transaction reflects the executed one, and both hold records of the topic.
IInv ==
  /\ TypeOK
  /\ Sourced(db) /\ Sourced(txn)
  /\ Reflects(db, committed)
  /\ Progress

\* A statement that repeats no key carries the table from the rows before it
\* to the rows up to its end (db.py:155-164).
LEMMA StatementReflects ==
  ASSUME NEW table \in [Keys -> Nat], NEW lo \in Nat, NEW hi \in Offsets,
         log \in Seq(Messages), lo <= hi,
         Sourced(table), Reflects(table, lo), ~RepeatsKey(lo, hi)
  PROVE  /\ Upserted(table, lo, hi) \in [Keys -> Nat]
         /\ Sourced(Upserted(table, lo, hi))
         /\ Reflects(Upserted(table, lo, hi), hi)
<1> DEFINE new == Upserted(table, lo, hi)
           rows == Rows(lo, hi)
<1>1. \A i \in rows : i \in Nat /\ lo < i /\ i <= hi /\ i \in Offsets /\ log[i] # Malformed
  BY DEF Rows, Offsets
<1>2. ASSUME NEW k \in Keys, NEW i \in rows, log[i] = k
      PROVE  new[k] = i
  <2>1. \A j \in rows : log[j] = k => j = i
    BY <1>2 DEF RepeatsKey
  <2>2. (CHOOSE j \in rows : log[j] = k) = i
    BY <1>2, <2>1
  <2>3. QED
    BY <1>2, <2>2 DEF Upserted
<1>3. ASSUME NEW k \in Keys, \A i \in rows : log[i] # k
      PROVE  new[k] = table[k]
  BY <1>3 DEF Upserted
<1>4. \A k \in Keys : new[k] \in Nat
  BY <1>1, <1>2, <1>3
<1>5. new \in [Keys -> Nat]
  BY <1>4 DEF Upserted
<1>6. Sourced(new)
  <2> SUFFICES ASSUME NEW k \in Keys, new[k] # 0
               PROVE  new[k] \in Offsets /\ log[new[k]] = k
    BY DEF Sourced
  <2>1. CASE \E i \in rows : log[i] = k
    BY <2>1, <1>1, <1>2
  <2>2. CASE \A i \in rows : log[i] # k
    BY <2>2, <1>3 DEF Sourced
  <2>3. QED
    BY <2>1, <2>2
<1>7. Reflects(new, hi)
  <2> SUFFICES ASSUME NEW i \in 1..hi, NEW k \in Keys, log[i] = k
               PROVE  i <= new[k]
    BY DEF Reflects
  <2>1. CASE i \in rows
    BY <2>1, <1>2
  <2>2. CASE i \notin rows
    <3>1. log[i] # Malformed
      BY SinkAssumption
    <3>2. i <= lo
      BY <2>2, <3>1 DEF Rows, Offsets
    <3>3. i <= table[k]
      BY <3>2 DEF Reflects
    <3>4. CASE \E j \in rows : log[j] = k
      BY <3>2, <3>4, <1>1, <1>2
    <3>5. CASE \A j \in rows : log[j] # k
      BY <3>3, <3>5, <1>3
    <3>6. QED
      BY <3>4, <3>5
  <2>3. QED
    BY <2>1, <2>2
<1>8. QED
  BY <1>5, <1>6, <1>7

LEMMA InitIInv == Init => IInv
<1> SUFFICES ASSUME Init PROVE IInv
  OBVIOUS
<1> USE DEF Init
<1>1. TypeOK
  BY DEF TypeOK
<1>2. Sourced(db) /\ Sourced(txn) /\ Reflects(db, committed) /\ Progress
  BY DEF Sourced, Reflects, Progress
<1>3. QED
  BY <1>1, <1>2 DEF IInv

\* Appending to the topic disturbs no fact about the offsets it already has.
LEMMA ProduceIInv ==
  ASSUME IInv, NEW m \in Messages, Produce(m)
  PROVE  IInv'
<1>1. /\ log' \in Seq(Messages)
      /\ Len(log') = Len(log) + 1 /\ Len(log) \in Nat
      /\ Offsets \subseteq Offsets'
      /\ \A i \in Offsets : log'[i] = log[i]
  BY DEF Produce, IInv, TypeOK, Offsets
<1>2. TypeOK'
  BY <1>1 DEF Produce, IInv, TypeOK
<1>3. Sourced(db)' /\ Sourced(txn)'
  BY <1>1 DEF Produce, IInv, Sourced
<1>4. \A n \in 0..Len(log) : \A i \in 1..n : log'[i] = log[i]
  BY <1>1 DEF Offsets
<1>5. \A i \in 1..committed : log'[i] = log[i]
  BY <1>4 DEF IInv, TypeOK
<1>6. \A i \in 1..done : log'[i] = log[i]
  BY <1>4 DEF IInv, TypeOK
<1>7. Reflects(db, committed)'
  BY <1>5 DEF Produce, IInv, Reflects
<1>8. Progress'
  BY <1>6 DEF Produce, IInv, Progress, Reflects
<1>9. QED
  BY <1>2, <1>3, <1>7, <1>8 DEF IInv

LEMMA NextIInv == IInv /\ [Next]_vars => IInv'
<1> SUFFICES ASSUME IInv, [Next]_vars PROVE IInv'
  OBVIOUS
<1> USE DEF IInv
<1>1. ASSUME NEW m \in Messages, Produce(m) PROVE IInv'
  BY <1>1, ProduceIInv
<1>2. CASE Start
  BY <1>2 DEF Start, TypeOK, Sourced, Reflects, Progress, Offsets
<1>3. CASE Poll
  BY <1>3 DEF Poll, TypeOK, Sourced, Reflects, Progress, Offsets
<1>4. CASE ExecutePage
  <2>1. PICK hi \in Offsets : /\ IsPage(done, hi) /\ ~Rejected(done, hi)
                              /\ txn' = Upserted(txn, done, hi)
                              /\ done' = hi
    BY <1>4 DEF ExecutePage
  <2>2. done \in Nat /\ hi \in Nat /\ done < hi /\ hi <= position
    BY <2>1 DEF IsPage, TypeOK, Offsets
  <2>3. txn' \in [Keys -> Nat] /\ Sourced(txn') /\ Reflects(txn', hi)
    BY <2>1, <2>2, StatementReflects DEF TypeOK, Progress, Rejected
  <2>4. TypeOK'
    BY <1>4, <2>1, <2>2, <2>3 DEF ExecutePage, TypeOK
  <2>5. Sourced(db)' /\ Sourced(txn)' /\ Reflects(db, committed)'
    BY <1>4, <2>3 DEF ExecutePage, Sourced, Reflects, Offsets
  <2>6. Progress'
    BY <1>4, <2>1, <2>3 DEF ExecutePage, Progress, Reflects
  <2>7. QED
    BY <2>4, <2>5, <2>6
<1>5. CASE RejectPage
  BY <1>5 DEF RejectPage, TypeOK, Sourced, Reflects, Progress, Offsets
<1>6. CASE CommitRows
  <2>1. Reflects(txn, committed)
    BY DEF TypeOK, Reflects, Progress
  <2>2. QED
    BY <1>6, <2>1 DEF CommitRows, TypeOK, Sourced, Reflects, Progress, Offsets
<1>7. CASE CommitOffset
  BY <1>7 DEF CommitOffset, TypeOK, Sourced, Reflects, Progress, Offsets
<1>8. CASE Crash
  BY <1>8 DEF Crash, TypeOK, Sourced, Reflects, Progress, Offsets
<1>9. CASE UNCHANGED vars
  BY <1>9 DEF vars, TypeOK, Sourced, Reflects, Progress, Offsets
<1>10. QED
  BY <1>1, <1>2, <1>3, <1>4, <1>5, <1>6, <1>7, <1>8, <1>9 DEF Next, Step

\* The inductive invariant holds in every reachable state of the sink.
THEOREM InductiveInvariant == Spec => []IInv
  BY InitIInv, NextIInv, PTL DEF Spec

\* Every reachable state is well typed and its offsets are in order.
THEOREM TypeCorrect == Spec => []TypeOK
<1>1. IInv => TypeOK
  BY DEF IInv
<1>2. QED
  BY <1>1, InductiveInvariant, PTL

\* The at-least-once contract of process_batch: a committed offset never
\* leaves behind a record the archive does not reflect.
THEOREM AtLeastOnce == Spec => []CommittedRecordsArchived
<1>1. IInv => CommittedRecordsArchived
  BY DEF IInv, CommittedRecordsArchived
<1>2. QED
  BY <1>1, InductiveInvariant, PTL

-----------------------------------------------------------------------------
\* While a batch is written the transaction holds what the archive would after
\* the records executed so far, and at other times there is nothing to write.
InTransaction ==
  /\ pc = "idle" => txn = db /\ position = committed /\ done = committed
  /\ pc = "polled" =>
       /\ committed < position
       /\ txn = Archived!Latest(db, committed, done)
       /\ Archived!Of(IllTyped, committed, done) = {}
  /\ pc = "durable" => committed < position

\* Of an empty run nothing is applied.
LEMMA EmptyRun ==
  ASSUME NEW table \in [Keys -> Nat], NEW n \in Nat
  PROVE  Archived!Latest(table, n, n) = table
<1>1. \A k : Archived!Of(k, n, n) = {}
  BY DEF Archived!Of
<1>2. QED
  BY <1>1 DEF Archived!Latest

\* A statement that repeats no key continues the run: page by page the upsert
\* arrives at the newest record of each key (db.py:155-164).
LEMMA StatementContinuesRun ==
  ASSUME NEW table \in [Keys -> Nat], NEW lo \in Nat, NEW mid \in Nat, NEW hi \in Nat,
         lo <= mid, mid <= hi, ~RepeatsKey(mid, hi)
  PROVE  Upserted(Archived!Latest(table, lo, mid), mid, hi) = Archived!Latest(table, lo, hi)
<1> DEFINE old == Archived!Latest(table, lo, mid)
           new == Upserted(old, mid, hi)
           all == Archived!Latest(table, lo, hi)
<1>1. ASSUME NEW k \in Keys PROVE new[k] = all[k]
  <2>1. Archived!Of(k, mid, hi) = {i \in Rows(mid, hi) : log[i] = k}
    BY SinkAssumption DEF Archived!Of, Rows
  <2>2. Archived!Of(k, lo, hi) = Archived!Of(k, lo, mid) \union Archived!Of(k, mid, hi)
    BY DEF Archived!Of
  <2>3. CASE Archived!Of(k, mid, hi) = {}
    <3>1. new[k] = old[k]
      BY <2>1, <2>3 DEF Upserted
    <3>2. QED
      BY <2>2, <2>3, <3>1 DEF Archived!Latest
  <2>4. CASE Archived!Of(k, mid, hi) # {}
    <3>1. PICK i \in Rows(mid, hi) : log[i] = k
      BY <2>1, <2>4
    <3>2. \A j \in Rows(mid, hi) : log[j] = k => j = i
      BY <3>1 DEF RepeatsKey
    <3>3. (CHOOSE j \in Rows(mid, hi) : log[j] = k) = i
      BY <3>1, <3>2
    <3>4. new[k] = i
      BY <3>1, <3>3 DEF Upserted
    <3>5. i \in Archived!Of(k, lo, hi) /\ \A j \in Archived!Of(k, lo, hi) : j \in Nat /\ j <= i
      BY <2>1, <2>2, <3>1, <3>2 DEF Archived!Of, Rows
    <3>6. \A j \in Archived!Of(k, lo, hi) :
            (\A l \in Archived!Of(k, lo, hi) : l <= j) => j = i
      BY <3>5
    <3>7. (CHOOSE j \in Archived!Of(k, lo, hi) : \A l \in Archived!Of(k, lo, hi) : l <= j) = i
      BY <3>5, <3>6
    <3>8. all[k] = i
      BY <3>5, <3>7 DEF Archived!Latest
    <3>9. QED
      BY <3>4, <3>8
  <2>5. QED
    BY <2>3, <2>4
<1>2. QED
  BY <1>1 DEF Upserted, Archived!Latest

\* The new record belongs to no run that has begun.
LEMMA ProduceInTransaction ==
  ASSUME IInv, InTransaction, NEW m \in Messages, Produce(m)
  PROVE  InTransaction'
<1>1. /\ committed \in Nat /\ done \in Nat /\ done <= Len(log)
      /\ \A i \in Offsets : log'[i] = log[i]
  BY DEF Produce, IInv, TypeOK, Offsets
<1>2. \A i \in (committed + 1)..done : log'[i] = log[i]
  BY <1>1 DEF Offsets
<1>3. \A k : Archived!Of(k, committed, done)' = Archived!Of(k, committed, done)
  BY <1>2 DEF Produce, Archived!Of
<1>4. Archived!Latest(db, committed, done)' = Archived!Latest(db, committed, done)
  <2> DEFINE Now(k) == {i \in (committed + 1)..done : log[i] = k}
             Then(k) == {i \in (committed + 1)..done : log'[i] = k}
             Newest(k, S) == IF S = {} THEN db[k] ELSE CHOOSE i \in S : \A j \in S : j <= i
  <2>1. \A k \in Keys : Then(k) = Now(k)
    BY <1>2
  <2>2. Archived!Latest(db, committed, done) = [k \in Keys |-> Newest(k, Now(k))]
    BY DEF Archived!Latest, Archived!Of
  <2>3. Archived!Latest(db, committed, done)' = [k \in Keys |-> Newest(k, Then(k))]
    BY DEF Produce, Archived!Latest, Archived!Of
  <2> HIDE DEF Now, Then, Newest
  <2>4. QED
    BY <2>1, <2>2, <2>3
<1>5. QED
  BY <1>3, <1>4 DEF Produce, InTransaction

LEMMA NextInTransaction == IInv /\ InTransaction /\ [Next]_vars => InTransaction'
<1> SUFFICES ASSUME IInv, InTransaction, [Next]_vars PROVE InTransaction'
  OBVIOUS
<1>1. ASSUME NEW m \in Messages, Produce(m) PROVE InTransaction'
  BY <1>1, ProduceInTransaction
<1>2. CASE Start
  BY <1>2 DEF Start, InTransaction
<1>3. CASE Poll
  <2>1. db \in [Keys -> Nat] /\ committed \in Nat /\ position \in Nat
    BY DEF IInv, TypeOK
  <2>2. Archived!Latest(db, committed, committed) = db
    BY <2>1, EmptyRun
  <2>3. Archived!Of(IllTyped, committed, committed) = {}
    BY <2>1 DEF Archived!Of
  <2>4. txn = Archived!Latest(db, committed, done) /\ Archived!Of(IllTyped, committed, done) = {}
    BY <1>3, <2>2, <2>3 DEF Poll, InTransaction
  <2>5. (txn = Archived!Latest(db, committed, done) /\ Archived!Of(IllTyped, committed, done) = {})'
    BY <1>3, <2>4 DEF Poll, Archived!Latest, Archived!Of
  <2>6. pc' = "polled" /\ committed' < position'
    BY <1>3, <2>1 DEF Poll, InTransaction, Offsets
  <2>7. QED
    BY <2>5, <2>6 DEF InTransaction
<1>4. CASE ExecutePage
  <2>1. PICK hi \in Offsets : /\ IsPage(done, hi) /\ ~Rejected(done, hi)
                              /\ txn' = Upserted(txn, done, hi)
                              /\ done' = hi
    BY <1>4 DEF ExecutePage
  <2>2. /\ db \in [Keys -> Nat] /\ committed \in Nat /\ done \in Nat /\ hi \in Nat
        /\ committed <= done /\ done <= hi
    BY <2>1 DEF IInv, TypeOK, Offsets, IsPage
  <2>3. txn' = Archived!Latest(db, committed, hi)
    BY <1>4, <2>1, <2>2, StatementContinuesRun DEF ExecutePage, InTransaction, Rejected
  <2>4. Archived!Of(IllTyped, committed, hi) = {}
    <3>1. \A i \in (done + 1)..hi : log[i] # IllTyped
      BY <2>1, SinkAssumption DEF Rejected, Rows
    <3>2. Archived!Of(IllTyped, committed, done) = {}
      BY <1>4 DEF ExecutePage, InTransaction
    <3>3. QED
      BY <2>2, <3>1, <3>2 DEF Archived!Of
  <2>5. (txn = Archived!Latest(db, committed, done) /\ Archived!Of(IllTyped, committed, done) = {})'
    BY <1>4, <2>1, <2>3, <2>4 DEF ExecutePage, Archived!Latest, Archived!Of
  <2>6. QED
    BY <1>4, <2>5 DEF ExecutePage, InTransaction
<1>5. CASE RejectPage
  BY <1>5 DEF RejectPage, InTransaction
<1>6. CASE CommitRows
  BY <1>6 DEF CommitRows, InTransaction
<1>7. CASE CommitOffset
  BY <1>7 DEF CommitOffset, InTransaction, IInv, Progress
<1>8. CASE Crash
  BY <1>8 DEF Crash, InTransaction
<1>9. CASE UNCHANGED vars
  BY <1>9 DEF vars, InTransaction, Archived!Latest, Archived!Of
<1>10. QED
  BY <1>1, <1>2, <1>3, <1>4, <1>5, <1>6, <1>7, <1>8, <1>9 DEF Next, Step

\* The mapped initial state is the archive's.
LEMMA InitImplements == Init => Archived!Init /\ InTransaction
  BY DEF Init, Archived!Init, InTransaction

\* A step of the sink is a step of the archive, or none: only the commit of the
\* transaction applies, only the offset commit acknowledges, only a crash
\* between the two forgets.
LEMMA StepImplements ==
  ASSUME IInv, InTransaction, [Next]_vars
  PROVE  [Archived!Next]_(Archived!vars)
<1> USE DEF Archived!vars
<1>1. committed \in Nat /\ position \in Nat /\ position <= Len(log) /\ Len(log) \in Nat
  BY DEF IInv, TypeOK
<1>2. ASSUME NEW m \in Messages, Produce(m) PROVE Archived!Produce
  BY <1>2 DEF Produce, Archived!Produce, Messages
<1>3. CASE Start \/ Poll \/ ExecutePage \/ RejectPage
  BY <1>3 DEF Start, Poll, ExecutePage, RejectPage
<1>4. CASE CommitRows
  <2>1. /\ pc = "polled" /\ done = position /\ committed < position
        /\ db' = Archived!Latest(db, committed, position)
        /\ Archived!Of(IllTyped, committed, position) = {}
        /\ pc' = "durable" /\ UNCHANGED <<log, committed, position>>
    BY <1>4 DEF CommitRows, InTransaction
  <2>2. position \in (committed + 1)..Len(log)
    BY <1>1, <2>1
  <2>3. Archived!Apply
    BY <2>1, <2>2 DEF Archived!Apply
  <2>4. QED
    BY <2>3 DEF Archived!Next
<1>5. CASE CommitOffset
  <2>1. Archived!Acknowledge
    BY <1>5 DEF CommitOffset, InTransaction, Archived!Acknowledge
  <2>2. QED
    BY <2>1 DEF Archived!Next
<1>6. CASE Crash
  <2>1. CASE pc = "durable"
    <3>1. Archived!Forget
      BY <1>6, <2>1 DEF Crash, InTransaction, Archived!Forget
    <3>2. QED
      BY <3>1 DEF Archived!Next
  <2>2. CASE pc # "durable"
    BY <1>6, <2>2 DEF Crash
  <2>3. QED
    BY <2>1, <2>2
<1>7. CASE UNCHANGED vars
  BY <1>7 DEF vars
<1>8. QED
  BY <1>2, <1>3, <1>4, <1>5, <1>6, <1>7 DEF Next, Step, Archived!Next

\* To its readers the sink is the archive, whatever the batches, the pages and
\* the crashes.
THEOREM SinkImplementsArchive == Spec => ImplementsArchive
<1>1. Init => Archived!Init /\ InTransaction
  BY InitImplements
<1>2. IInv /\ InTransaction /\ [Next]_vars => [Archived!Next]_(Archived!vars)
  BY StepImplements
<1>3. QED
  BY <1>1, <1>2, NextInTransaction, InductiveInvariant, PTL DEF Spec, ImplementsArchive, Archived!Spec
=============================================================================
