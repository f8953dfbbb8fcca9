------------------------- MODULE SensorAlertsProofs -------------------------
(***************************************************************************)
(* Proofs about the deduplication and the sustained-high alerts of one     *)
(* sensor, for every topic, every geometry of the windows, every sequence  *)
(* of thresholds and every number of crashes and expiries.                 *)
(***************************************************************************)
EXTENDS SensorAlerts, SequenceTheorems, FiniteSetTheorems, TLAPS

-----------------------------------------------------------------------------
(* Finite sets of numbers *)

Under(T, R, n) == {k \in T : <<k, n>> \in R}

\* A transitive and irreflexive relation on a finite set has a minimal member:
\* what is related to a member is a finite set, and strict inclusion of finite
\* sets is well founded.
LEMMA MinimalMember ==
  ASSUME NEW T, IsFiniteSet(T), T # {}, NEW R,
         \A x \in T : <<x, x>> \notin R,
         \A x, y, z \in T : <<x, y>> \in R /\ <<y, z>> \in R => <<x, z>> \in R
  PROVE  \E n \in T : \A k \in T : <<k, n>> \notin R
<1> DEFINE Unders == {Under(T, R, n) : n \in T}
<1>1. ASSUME NEW n \in T PROVE Under(T, R, n) \in FiniteSubsetsOf(T)
  <2>1. Under(T, R, n) \in SUBSET T
    BY DEF Under
  <2>2. IsFiniteSet(Under(T, R, n))
    BY <2>1, FS_Subset
  <2> QED BY <2>1, <2>2 DEF FiniteSubsetsOf
<1>2. PICK B \in Unders : \A C \in Unders : <<C, B>> \notin StrictSubsetOrdering(T)
  <2>1. Unders \subseteq FiniteSubsetsOf(T) /\ Unders # {}
    BY <1>1
  <2> HIDE DEF Unders
  <2> QED BY <2>1, FS_StrictSubsetOrderingWellFounded, WFMin
<1>3. PICK n \in T : B = Under(T, R, n)
  BY <1>2
<1>4. ASSUME NEW k \in T, <<k, n>> \in R PROVE FALSE
  <2>1. Under(T, R, k) \subseteq Under(T, R, n)
    BY <1>4 DEF Under
  <2>2. k \in Under(T, R, n) /\ k \notin Under(T, R, k)
    BY <1>4 DEF Under
  <2>3. Under(T, R, k) \in SUBSET T /\ Under(T, R, n) \in SUBSET T
    BY DEF Under
  <2>4. <<Under(T, R, k), Under(T, R, n)>> \in StrictSubsetOrdering(T)
    BY <2>1, <2>2, <2>3 DEF StrictSubsetOrdering
  <2> QED BY <1>2, <1>3, <2>4
<1> QED BY <1>4

LEMMA MinMax ==
  ASSUME NEW T \in SUBSET Int, IsFiniteSet(T), T # {}
  PROVE  /\ Min(T) \in T /\ \A x \in T : Min(T) <= x
         /\ Max(T) \in T /\ \A x \in T : Max(T) >= x
<1> DEFINE Less == {p \in T \X T : p[1] < p[2]}
           More == {p \in T \X T : p[1] > p[2]}
<1>1. \A x, y \in T : (<<x, y>> \in Less <=> x < y) /\ (<<x, y>> \in More <=> x > y)
  OBVIOUS
<1> HIDE DEF Less, More
<1>2. \A x, y \in T : x \in Int /\ (~(x < y) => y <= x) /\ (~(x > y) => y >= x)
  OBVIOUS
<1>3. \A x, y, z \in T : (x < y /\ y < z => x < z) /\ (x > y /\ y > z => x > z)
  OBVIOUS
<1>4. \A x \in T : ~(x < x) /\ ~(x > x)
  OBVIOUS
<1>5. \E n \in T : \A x \in T : n <= x
  <2>1. /\ \A x \in T : <<x, x>> \notin Less
        /\ \A x, y, z \in T : <<x, y>> \in Less /\ <<y, z>> \in Less => <<x, z>> \in Less
    BY <1>1, <1>3, <1>4
  <2>2. PICK n \in T : \A x \in T : <<x, n>> \notin Less
    BY <2>1, MinimalMember
  <2> QED BY <1>1, <1>2, <2>2
<1>6. \E n \in T : \A x \in T : n >= x
  <2>1. /\ \A x \in T : <<x, x>> \notin More
        /\ \A x, y, z \in T : <<x, y>> \in More /\ <<y, z>> \in More => <<x, z>> \in More
    BY <1>1, <1>3, <1>4
  <2>2. PICK n \in T : \A x \in T : <<x, n>> \notin More
    BY <2>1, MinimalMember
  <2> QED BY <1>1, <1>2, <2>2
<1> QED BY <1>5, <1>6 DEF Min, Max

LEMMA MaxOfTwo ==
  ASSUME NEW x \in Int, NEW y \in Int
  PROVE  Max({x, y}) \in {x, y} /\ Max({x, y}) >= x /\ Max({x, y}) >= y
<1> DEFINE T == {x, y}
<1>1. IsFiniteSet({x}) /\ {x} \union {y} = T
  BY FS_Singleton
<1>2. IsFiniteSet(T)
  BY <1>1, FS_AddElement
<1>3. T \in SUBSET Int /\ T # {} /\ x \in T /\ y \in T
  OBVIOUS
<1>4. Max(T) \in T /\ \A z \in T : Max(T) >= z
  <2> HIDE DEF T
  <2> QED BY <1>2, <1>3, MinMax
<1> QED BY <1>3, <1>4

LEMMA RangeElements ==
  ASSUME NEW S, NEW s \in Seq(S)
  PROVE  /\ Range(s) \subseteq S /\ IsFiniteSet(Range(s))
         /\ \A x : x \in Range(s) <=> \E i \in 1..Len(s) : s[i] = x
<1>1. DOMAIN s = 1..Len(s) /\ Len(s) \in Nat /\ \A i \in 1..Len(s) : s[i] \in S
  BY LenProperties, ElementOfSeq
<1>2. Range(s) = {s[i] : i \in 1..Len(s)}
  BY <1>1 DEF Range
<1> DEFINE f == [i \in 1..Len(s) |-> s[i]]
<1>3. f \in Surjection(1..Len(s), Range(s))
  BY <1>2 DEF Surjection
<1>4. IsFiniteSet(1..Len(s))
  BY <1>1, FS_Interval
<1> HIDE DEF f
<1> QED BY <1>1, <1>2, <1>3, <1>4, FS_Surjection

LEMMA RangeAppend ==
  ASSUME NEW S, NEW s \in Seq(S), NEW e \in S
  PROVE  Append(s, e) \in Seq(S) /\ Range(Append(s, e)) = Range(s) \union {e}
<1> DEFINE t == Append(s, e)
<1>1. /\ t \in Seq(S) /\ Len(t) = Len(s) + 1 /\ Len(s) \in Nat
      /\ \A i \in 1..Len(s) : t[i] = s[i]
      /\ t[Len(s) + 1] = e
  BY LenProperties, AppendProperties
<1> HIDE DEF t
<1>2. /\ \A x : x \in Range(s) <=> \E i \in 1..Len(s) : s[i] = x
      /\ \A x : x \in Range(t) <=> \E i \in 1..Len(s) + 1 : t[i] = x
  BY <1>1, RangeElements
<1>3. \A i : i \in 1..Len(s) + 1 <=> i \in 1..Len(s) \/ i = Len(s) + 1
  BY <1>1
<1>4. Range(t) = Range(s) \union {e}
  BY <1>1, <1>2, <1>3
<1> QED BY <1>1, <1>4 DEF t

LEMMA RangeHeadTail ==
  ASSUME NEW S, NEW s \in Seq(S), s # <<>>
  PROVE  /\ Head(s) \in S /\ Tail(s) \in Seq(S)
         /\ Range(s) = {Head(s)} \union Range(Tail(s))
<1> DEFINE t == Tail(s)
<1>1. /\ Head(s) \in S /\ Head(s) = s[1] /\ t \in Seq(S)
      /\ Len(s) \in Nat /\ Len(s) > 0 /\ Len(t) = Len(s) - 1
      /\ \A i \in 1..Len(t) : t[i] = s[i + 1]
  BY HeadTailProperties, LenProperties, EmptySeq
<1> HIDE DEF t
<1>2. /\ \A x : x \in Range(s) <=> \E i \in 1..Len(s) : s[i] = x
      /\ \A x : x \in Range(t) <=> \E i \in 1..Len(s) - 1 : t[i] = x
  BY <1>1, RangeElements
<1>3. ASSUME NEW i \in 1..Len(s) PROVE s[i] = Head(s) \/ s[i] \in Range(t)
  <2>1. CASE i = 1
    BY <1>1, <2>1
  <2>2. CASE i # 1
    <3>1. i - 1 \in 1..Len(s) - 1 /\ t[i - 1] = s[i]
      BY <1>1, <2>2
    <3> QED BY <1>2, <3>1
  <2> QED BY <2>1, <2>2
<1>4. ASSUME NEW i \in 1..Len(s) - 1 PROVE t[i] \in Range(s)
  <2>1. i + 1 \in 1..Len(s) /\ t[i] = s[i + 1]
    BY <1>1
  <2> QED BY <1>2, <2>1
<1>5. Head(s) \in Range(s)
  BY <1>1, <1>2
<1>6. Range(s) = {Head(s)} \union Range(t)
  BY <1>2, <1>3, <1>4, <1>5
<1> QED BY <1>1, <1>6 DEF t

LEMMA RangeEmpty == Range(<<>>) = {}
<1>1. <<>> \in Seq({})
  BY EmptySeq
<1>2. Range(<<>>) \in SUBSET {}
  BY <1>1, RangeOfSeq
<1> QED BY <1>2
-----------------------------------------------------------------------------
(* Types *)

LEMMA EndsAreNumbers ==
  /\ \A m \in Readings : m.time \in Nat /\ m.cpm \in Int /\ m \notin {Junk, Poison}
  /\ \A m \in Readings : \A e \in EndsOf(m.time) : e \in Ends /\ e > m.time
  /\ \A e \in Ends : e \in Nat /\ e > 0
<1>1. \A m \in Readings : m.time \in Nat /\ m.cpm \in Int /\ m \notin {Junk, Poison}
  BY AlertsAssumption
<1>2. ASSUME NEW m \in Readings, NEW e \in EndsOf(m.time)
      PROVE  e \in Ends /\ e > m.time /\ e \in Nat /\ e > 0
  <2>1. e \in (m.time + 1)..(m.time + Length)
    BY DEF EndsOf
  <2>2. e \in Ends
    BY DEF Ends
  <2> QED BY <1>1, <2>1, <2>2, AlertsAssumption
<1> QED BY <1>1, <1>2 DEF Ends

Snapshots ==
  [read : Nat, configured : Nat, seen : SUBSET Readings, breaches : [Ends -> Nat],
   lastEnd : Ends \union {0}]

Typed ==
  /\ TypeOK
  /\ saved \in Snapshots /\ saved.configured \in 0..Len(Thresholds)
  /\ crashes \in Nat /\ expiries \in Nat /\ reconfigured \in BOOLEAN
  /\ (configured # 0 \/ saved.configured # 0) => reconfigured

LEMMA InitTyped == Init => Typed
<1> SUFFICES ASSUME Init PROVE Typed
  OBVIOUS
<1>1. raw \in Seq(Readings \union {Junk, Poison}) /\ Len(raw) \in Nat
  <2>1. raw \in [1..MaxRaw -> Readings \union {Junk, Poison}] /\ MaxRaw \in Nat
    BY AlertsAssumption DEF Init
  <2>2. raw \in Seq(Readings \union {Junk, Poison})
    BY <2>1, SeqDef
  <2> QED BY <2>2, LenProperties
<1>2. Len(Thresholds) \in Nat
  BY AlertsAssumption, LenProperties
<1>3. [e \in Ends |-> 0] \in [Ends -> Nat]
  OBVIOUS
<1>4. saved \in Snapshots /\ saved.configured = 0 /\ saved.read = 0
  BY <1>3 DEF Init, Fresh, Snapshots
<1>5. cleanBuffer \in Seq(Readings) /\ alertBuffer \in Seq(Ends)
  BY EmptySeq DEF Init
<1>6. TypeOK
  BY <1>1, <1>2, <1>3, <1>4, <1>5 DEF Init, TypeOK
<1>7. configured = 0 /\ crashes \in Nat /\ expiries \in Nat /\ reconfigured \in BOOLEAN
  BY DEF Init
<1>8. saved.configured \in 0..Len(Thresholds) /\ ~(configured # 0 \/ saved.configured # 0)
  BY <1>2, <1>4, <1>7
<1> QED BY <1>4, <1>6, <1>7, <1>8 DEF Typed

\* A failure is counted, on a poisonous record once.
LEMMA RestoreCounts ==
  ASSUME crashes \in Nat, Restore
  PROVE  crashes' \in Nat /\ crashes' > 0
<1>1. CASE Poisoned
  <2>1. crashes' = Max({crashes, 1})
    BY <1>1 DEF Restore
  <2>2. Max({crashes, 1}) \in {crashes, 1} /\ Max({crashes, 1}) >= 1
    BY MaxOfTwo
  <2> QED BY <2>1, <2>2
<1>2. CASE ~Poisoned
  BY <1>2 DEF Restore
<1> QED BY <1>1, <1>2

LEMMA NextTyped == Typed /\ [Next]_vars => Typed'
<1> SUFFICES ASSUME Typed, [Next]_vars PROVE Typed'
  OBVIOUS
<1>1. /\ Len(raw) \in Nat /\ Len(Thresholds) \in Nat
      /\ Thresholds \in Seq(Int) /\ raw \in Seq(Readings \union {Junk, Poison})
  BY AlertsAssumption, LenProperties DEF Typed, TypeOK
<1>2. CASE Configure
  BY <1>1, <1>2 DEF Configure, Typed, TypeOK, event, output
<1>3. CASE Drop
  BY <1>1, <1>3 DEF Drop, Typed, TypeOK, event, output
<1>4. CASE Accept
  <2>1. Following \in Readings /\ Following.time \in Nat
    BY <1>1, <1>4, ElementOfSeq, EndsAreNumbers DEF Accept, Usable, Following, Typed, TypeOK
  <2>2. maxTime' \in Nat
    <3>1. maxTime \in Nat
      BY DEF Typed, TypeOK
    <3> DEFINE t == Following.time
    <3>2. maxTime \in Int /\ t \in Int /\ t \in Nat
      BY <2>1, <3>1
    <3>3. maxTime' = Max({maxTime, t})
      BY <1>4 DEF Accept
    <3> HIDE DEF t
    <3>4. Max({maxTime, t}) \in {maxTime, t}
      BY <3>2, MaxOfTwo
    <3> QED BY <3>1, <3>2, <3>3, <3>4
  <2>3. breaches' \in [Ends -> Nat]
    BY <1>4 DEF Accept, Counted, Typed, TypeOK
  <2>4. cleanBuffer' \in Seq(Readings)
    BY <1>4, <2>1, AppendProperties DEF Accept, Typed, TypeOK
  <2>5. read' \in 0..Len(raw)
    BY <1>1, <1>4 DEF Accept, Typed, TypeOK
  <2> QED BY <1>1, <1>4, <2>1, <2>2, <2>3, <2>4, <2>5 DEF Accept, Typed, TypeOK
<1>5. CASE EmitWatermark
  <2>1. watermark' \in Nat
    BY <1>5, AlertsAssumption DEF EmitWatermark, Typed, TypeOK
  <2> QED BY <1>5, <2>1 DEF EmitWatermark, Typed, TypeOK, state, output
<1>6. CASE Fire
  <2>1. PICK e \in Due :
          /\ breaches' = [breaches EXCEPT ![e] = 0]
          /\ IF Sustained(e) THEN Candidate(e) ELSE UNCHANGED <<lastEnd, alertBuffer>>
          /\ UNCHANGED <<raw, read, configured, seen, event, saved, cleanBuffer, clean, alerts,
                         crashes, expiries, reconfigured>>
    BY <1>6 DEF Fire
  <2>2. e \in Ends /\ breaches' \in [Ends -> Nat]
    BY <2>1 DEF Due, Typed, TypeOK
  <2>3. lastEnd \in Ends \union {0} /\ alertBuffer \in Seq(Ends) /\ Append(alertBuffer, e) \in Seq(Ends)
    BY <2>2, AppendProperties DEF Typed, TypeOK
  <2>4. lastEnd' \in Ends \union {0} /\ alertBuffer' \in Seq(Ends)
    BY <2>1, <2>2, <2>3 DEF Candidate
  <2> QED BY <2>1, <2>2, <2>4 DEF Typed, TypeOK, event
<1>7. CASE Acknowledge
  <2>1. /\ clean' \subseteq Readings /\ cleanBuffer' \in Seq(Readings)
        /\ alerts' \subseteq Ends /\ alertBuffer' \in Seq(Ends)
    <3>1. CASE /\ cleanBuffer # <<>>
               /\ clean' = clean \union {Head(cleanBuffer)} /\ cleanBuffer' = Tail(cleanBuffer)
               /\ UNCHANGED <<alertBuffer, alerts>>
      <4>1. Head(cleanBuffer) \in Readings /\ Tail(cleanBuffer) \in Seq(Readings)
        BY <3>1, RangeHeadTail DEF Typed, TypeOK
      <4> QED BY <3>1, <4>1 DEF Typed, TypeOK
    <3>2. CASE /\ alertBuffer # <<>>
               /\ alerts' = alerts \union {Head(alertBuffer)} /\ alertBuffer' = Tail(alertBuffer)
               /\ UNCHANGED <<cleanBuffer, clean>>
      <4>1. Head(alertBuffer) \in Ends /\ Tail(alertBuffer) \in Seq(Ends)
        BY <3>2, RangeHeadTail DEF Typed, TypeOK
      <4> QED BY <3>2, <4>1 DEF Typed, TypeOK
    <3> QED BY <1>7, <3>1, <3>2 DEF Acknowledge
  <2> QED BY <1>7, <2>1 DEF Acknowledge, Typed, TypeOK, state, event
<1>8. CASE Checkpoint
  <2>1. saved' \in Snapshots /\ saved'.configured = configured /\ saved'.read = read
    BY <1>1, <1>8 DEF Checkpoint, Snapshots, Typed, TypeOK
  <2>2. Range(cleanBuffer) \subseteq Readings /\ Range(alertBuffer) \subseteq Ends
    BY RangeElements DEF Typed, TypeOK
  <2>3. cleanBuffer' \in Seq(Readings) /\ alertBuffer' \in Seq(Ends)
    BY <1>8, EmptySeq DEF Checkpoint
  <2> QED BY <1>8, <2>1, <2>2, <2>3 DEF Checkpoint, Typed, TypeOK, state, event
<1>9. CASE Restore
  <2>1. cleanBuffer' \in Seq(Readings) /\ alertBuffer' \in Seq(Ends)
    BY <1>9, EmptySeq DEF Restore
  <2>2. /\ saved.seen \subseteq Readings /\ saved.breaches \in [Ends -> Nat]
        /\ saved.lastEnd \in Ends \union {0}
    BY DEF Typed, Snapshots
  <2>3. crashes' \in Nat
    BY <1>9, RestoreCounts DEF Typed
  <2> QED BY <1>9, <2>1, <2>2, <2>3 DEF Restore, Typed, TypeOK
<1>10. CASE Expire
  BY <1>10 DEF Expire, Typed, TypeOK, event, output
<1>11. CASE UNCHANGED vars
  BY <1>11 DEF vars, state, event, output, Typed, TypeOK
<1> QED BY <1>2, <1>3, <1>4, <1>5, <1>6, <1>7, <1>8, <1>9, <1>10, <1>11 DEF Next

\* Neither the source nor a checkpoint points past the topic's end, and only
\* end points of windows are alerted.
LEMMA TypedInvariant == Spec => []Typed
  BY InitTyped, NextTyped, PTL DEF Spec

THEOREM TypeCorrect == Spec => []TypeOK
<1>1. Typed => TypeOK
  BY DEF Typed
<1> QED BY <1>1, TypedInvariant, PTL
-----------------------------------------------------------------------------
(* The readings among the records that were read *)

LEMMA PrefixReadings ==
  ASSUME Typed, NEW n \in 0..Len(raw)
  PROVE  /\ \A m : m \in ReadingsIn(n) <=> m \in Readings /\ \E i \in 1..n : raw[i] = m
         /\ ReadingsIn(n) \subseteq Readings
         /\ \A k \in 0..n : ReadingsIn(k) \subseteq ReadingsIn(n)
         /\ IsFiniteSet(ReadingsIn(n))
<1>1. raw \in Seq(Readings \union {Junk, Poison}) /\ Len(raw) \in Nat
  BY LenProperties DEF Typed, TypeOK
<1>2. \A i \in 1..n : i \in 1..Len(raw) /\ raw[i] \in Readings \union {Junk, Poison}
  BY <1>1, ElementOfSeq
<1>3. \A k \in 0..n : \A i \in 1..k : i \in 1..n
  BY <1>1
<1> DEFINE Records == {raw[i] : i \in 1..n}
           f == [i \in 1..n |-> raw[i]]
<1>4. IsFiniteSet(Records)
  <2>1. f \in Surjection(1..n, Records)
    BY DEF Surjection
  <2>2. IsFiniteSet(1..n)
    BY FS_Interval
  <2> HIDE DEF Records, f
  <2> QED BY <2>1, <2>2, FS_Surjection
<1>5. IsFiniteSet(ReadingsIn(n))
  BY <1>4, FS_Subset DEF ReadingsIn
<1> QED BY <1>2, <1>3, <1>5 DEF ReadingsIn

LEMMA NextReading ==
  ASSUME Typed, read < Len(raw)
  PROVE  /\ read + 1 \in 1..Len(raw) /\ Following \in Readings \union {Junk, Poison}
         /\ \A m : m \in ReadingsIn(read + 1) <=>
                     m \in ReadingsIn(read) \/ (m = Following /\ m \in Readings)
<1>1. raw \in Seq(Readings \union {Junk, Poison}) /\ Len(raw) \in Nat /\ read \in 0..Len(raw)
  BY LenProperties DEF Typed, TypeOK
<1>2. read + 1 \in 1..Len(raw) /\ read + 1 \in 0..Len(raw)
  BY <1>1
<1>3. Following \in Readings \union {Junk, Poison}
  BY <1>1, <1>2, ElementOfSeq DEF Following
<1>4. \A i : i \in 1..(read + 1) <=> i \in 1..read \/ i = read + 1
  BY <1>1
<1>5. \A m : m \in ReadingsIn(read + 1) <=> m \in Readings /\ \E i \in 1..(read + 1) : raw[i] = m
  BY <1>2, PrefixReadings
<1>6. \A m : m \in ReadingsIn(read) <=> m \in Readings /\ \E i \in 1..read : raw[i] = m
  BY <1>1, PrefixReadings
<1> QED BY <1>2, <1>3, <1>4, <1>5, <1>6 DEF Following

Surviving ==
  /\ seen \subseteq ReadingsIn(read) /\ saved.seen \subseteq ReadingsIn(saved.read)
  /\ EveryReadingSurvives

LEMMA InitSurviving == Init /\ Typed => Surviving
<1> SUFFICES ASSUME Init, Typed PROVE Surviving
  OBVIOUS
<1>1. read = 0 /\ saved.read = 0 /\ seen = {} /\ saved.seen = {}
  BY DEF Init, Fresh
<1>2. ReadingsIn(0) = {}
  BY DEF ReadingsIn
<1> QED BY <1>1, <1>2 DEF Surviving, EveryReadingSurvives

LEMMA NextSurviving == Typed /\ Typed' /\ Surviving /\ [Next]_vars => Surviving'
<1> SUFFICES ASSUME Typed, Typed', Surviving, [Next]_vars PROVE Surviving'
  OBVIOUS
<1>1. raw' = raw /\ \A n : ReadingsIn(n)' = ReadingsIn(n)
  BY DEF Next, vars, Configure, Drop, Accept, EmitWatermark, Fire, Acknowledge, Checkpoint,
         Restore, Expire, ReadingsIn
<1>2. cleanBuffer \in Seq(Readings)
  BY DEF Typed, TypeOK
<1>3. SUFFICES /\ seen' \subseteq ReadingsIn(read') /\ saved.seen' \subseteq ReadingsIn(saved'.read)
               /\ ReadingsIn(read') \subseteq clean' \union Range(cleanBuffer')
               /\ ReadingsIn(saved'.read) \subseteq clean'
  <2>1. ReadingsIn(read)' = ReadingsIn(read') /\ ReadingsIn(saved.read)' = ReadingsIn(saved'.read)
    BY <1>1 DEF ReadingsIn
  <2>2. Range(cleanBuffer)' = Range(cleanBuffer')
    BY DEF Range
  <2> QED BY <2>1, <2>2 DEF Surviving, EveryReadingSurvives
<1>4. /\ seen \subseteq ReadingsIn(read) /\ saved.seen \subseteq ReadingsIn(saved.read)
      /\ ReadingsIn(read) \subseteq clean \union Range(cleanBuffer)
      /\ ReadingsIn(saved.read) \subseteq clean
  BY DEF Surviving, EveryReadingSurvives
<1>5. CASE Configure \/ EmitWatermark \/ Fire \/ UNCHANGED vars
  <2>1. UNCHANGED <<read, seen, saved, cleanBuffer, clean>>
    BY <1>5 DEF Configure, EmitWatermark, Fire, vars, state, event, output
  <2> QED BY <1>4, <2>1
<1>6. CASE Drop
  <2>1. UNCHANGED <<seen, saved, cleanBuffer, clean>> /\ read' = read + 1
    BY <1>6 DEF Drop, event, output
  <2>2. \A m : m \in ReadingsIn(read') <=> m \in ReadingsIn(read)
    BY <1>4, <1>6, <2>1, NextReading, AlertsAssumption DEF Drop, Duplicate
  <2> QED BY <1>4, <2>1, <2>2
<1>7. CASE Accept
  <2>1. /\ UNCHANGED <<saved, clean>> /\ read' = read + 1 /\ Following \in Readings
        /\ seen' = seen \union {Following} /\ cleanBuffer' = Append(cleanBuffer, Following)
    BY <1>7 DEF Accept, Usable
  <2>2. Following \in Readings /\ \A m : m \in ReadingsIn(read') <=> m \in ReadingsIn(read) \/ m = Following
    BY <1>7, <2>1, NextReading DEF Accept
  <2>3. Range(cleanBuffer') = Range(cleanBuffer) \union {Following}
    BY <1>2, <2>1, <2>2, RangeAppend
  <2> QED BY <1>4, <2>1, <2>2, <2>3
<1>8. CASE Acknowledge
  <2>1. UNCHANGED <<read, seen, saved>>
    BY <1>8 DEF Acknowledge, state
  <2>2. clean \subseteq clean' /\ clean' \union Range(cleanBuffer') = clean \union Range(cleanBuffer)
    <3>1. cleanBuffer # <<>> => Range(cleanBuffer) = {Head(cleanBuffer)} \union Range(Tail(cleanBuffer))
      BY <1>2, RangeHeadTail
    <3> QED BY <1>8, <3>1 DEF Acknowledge
  <2> QED BY <1>4, <2>1, <2>2
<1>9. CASE Checkpoint
  <2>1. UNCHANGED <<read, seen>> /\ saved'.read = read /\ saved'.seen = seen
        /\ clean' = clean \union Range(cleanBuffer) /\ cleanBuffer' = <<>>
    BY <1>9 DEF Checkpoint, state
  <2> QED BY <1>4, <2>1
<1>10. CASE Restore
  <2>1. UNCHANGED <<saved, clean>> /\ read' = saved.read /\ seen' = saved.seen
    BY <1>10 DEF Restore
  <2> QED BY <1>4, <2>1
<1>11. CASE Expire
  <2>1. UNCHANGED <<read, saved, cleanBuffer, clean>> /\ seen' \subseteq seen
    BY <1>11 DEF Expire, event, output
  <2> QED BY <1>4, <2>1
<1> QED BY <1>5, <1>6, <1>7, <1>8, <1>9, <1>10, <1>11 DEF Next

LEMMA SurvivingInvariant == Spec => [](Typed /\ Surviving)
<1>1. Init => Typed /\ Surviving
  BY InitTyped, InitSurviving
<1>2. Typed /\ Surviving /\ [Next]_vars => Typed' /\ Surviving'
  BY NextTyped, NextSurviving
<1>3. Typed' /\ Surviving' => (Typed /\ Surviving)'
  OBVIOUS
<1> QED BY <1>1, <1>2, PTL DEF Spec

\* Every reading that was read is on radiation.clean or on its way, and one the
\* checkpoint covers is there: the dedup state knows only readings that were
\* read, so a replay drops none that is not already out.
THEOREM NothingIsLost == Spec => []EveryReadingSurvives
<1>1. Surviving => EveryReadingSurvives
  BY DEF Surviving
<1> QED BY <1>1, SurvivingInvariant, PTL
-----------------------------------------------------------------------------
(* What the steps do to the windows and the alerts *)

LEMMA AcceptEffect ==
  ASSUME Typed, Accept
  PROVE  /\ Following \in Readings /\ Following \notin seen /\ Due = {}
         /\ read + 1 \in 1..Len(raw) /\ read' = read + 1 /\ seen' = seen \union {Following}
         /\ \A m : m \in ReadingsIn(read') <=> m \in ReadingsIn(read) \/ m = Following
         /\ maxTime' \in {maxTime, Following.time}
         /\ maxTime' >= maxTime /\ maxTime' >= Following.time
         /\ \A e \in Ends : breaches'[e] =
              IF e \in EndsOf(Following.time) /\ e > watermark /\ Danger(Following)
              THEN breaches[e] + 1 ELSE breaches[e]
         /\ UNCHANGED <<raw, configured, lastEnd, watermark, saved, alertBuffer, alerts,
                        crashes, expiries, reconfigured>>
         /\ Alerts' = Alerts
<1>1. /\ read < Len(raw) /\ Following \in Readings /\ Following \notin seen /\ Due = {}
      /\ read' = read + 1 /\ seen' = seen \union {Following}
      /\ breaches' = Counted(Following) /\ maxTime' = Max({maxTime, Following.time})
      /\ UNCHANGED <<raw, configured, lastEnd, watermark, saved, alertBuffer, alerts,
                     crashes, expiries, reconfigured>>
  BY DEF Accept, Usable, Duplicate
<1>2. /\ read + 1 \in 1..Len(raw) /\ Following \in Readings
      /\ \A m : m \in ReadingsIn(read') <=> m \in ReadingsIn(read) \/ m = Following
  BY <1>1, NextReading
<1> DEFINE t == Following.time
<1>3. maxTime \in Int /\ t \in Int
  BY <1>2, EndsAreNumbers DEF Typed, TypeOK
<1>4. maxTime' = Max({maxTime, t})
  BY <1>1
<1>5. Alerts' = Alerts
  BY <1>1 DEF Alerts, Range
<1>6. maxTime' \in {maxTime, t} /\ maxTime' >= maxTime /\ maxTime' >= t
  <2> HIDE DEF t
  <2> QED BY <1>3, <1>4, MaxOfTwo
<1>7. \A e \in Ends : breaches'[e] =
         IF e \in EndsOf(Following.time) /\ e > watermark /\ Danger(Following)
         THEN breaches[e] + 1 ELSE breaches[e]
  BY <1>1 DEF Counted
<1> QED BY <1>1, <1>2, <1>5, <1>6, <1>7

Alerted(e) ==
  /\ Sustained(e) /\ ~CoolingDown(e)
  /\ lastEnd' = e /\ alertBuffer' = Append(alertBuffer, e) /\ Alerts' = Alerts \union {e}

Unalerted(e) ==
  /\ ~Sustained(e) \/ CoolingDown(e)
  /\ UNCHANGED <<lastEnd, alertBuffer>> /\ Alerts' = Alerts

LEMMA FireEffect ==
  ASSUME Typed, Fire
  PROVE  \E e \in Ends :
           /\ e <= watermark /\ breaches[e] > 0 /\ \A d \in Due : e <= d
           /\ breaches'[e] = 0 /\ \A d \in Ends : d # e => breaches'[d] = breaches[d]
           /\ Alerted(e) \/ Unalerted(e)
           /\ UNCHANGED <<raw, read, configured, seen, maxTime, watermark, saved, alerts,
                          crashes, expiries, reconfigured>>
<1>1. PICK e \in Due :
        /\ \A d \in Due : e <= d
        /\ breaches' = [breaches EXCEPT ![e] = 0]
        /\ IF Sustained(e) THEN Candidate(e) ELSE UNCHANGED <<lastEnd, alertBuffer>>
        /\ UNCHANGED <<raw, read, configured, seen, event, saved, cleanBuffer, clean, alerts,
                       crashes, expiries, reconfigured>>
  BY DEF Fire
<1>2. e \in Ends /\ e <= watermark /\ breaches[e] > 0
  BY <1>1 DEF Due
<1>3. breaches'[e] = 0 /\ \A d \in Ends : d # e => breaches'[d] = breaches[d]
  BY <1>1, <1>2 DEF Typed, TypeOK
<1>4. alertBuffer \in Seq(Ends)
  BY DEF Typed, TypeOK
<1>5. CASE Sustained(e) /\ ~CoolingDown(e)
  <2>1. lastEnd' = e /\ alertBuffer' = Append(alertBuffer, e) /\ alerts' = alerts
    BY <1>1, <1>5 DEF Candidate
  <2>2. Range(alertBuffer') = Range(alertBuffer) \union {e}
    BY <1>2, <1>4, <2>1, RangeAppend
  <2>3. Alerts' = alerts' \union Range(alertBuffer')
    BY DEF Alerts, Range
  <2>4. Alerts' = Alerts \union {e}
    BY <2>1, <2>2, <2>3 DEF Alerts
  <2>5. Alerted(e)
    BY <1>5, <2>1, <2>4 DEF Alerted
  <2> QED BY <1>1, <1>2, <1>3, <2>5 DEF event
<1>6. CASE ~(Sustained(e) /\ ~CoolingDown(e))
  <2>1. UNCHANGED <<lastEnd, alertBuffer, alerts>>
    BY <1>1, <1>6 DEF Candidate
  <2>2. Unalerted(e)
    BY <1>6, <2>1 DEF Unalerted, Alerts, Range
  <2> QED BY <1>1, <1>2, <1>3, <2>2 DEF event
<1> QED BY <1>5, <1>6

LEMMA AcknowledgeEffect ==
  ASSUME Typed, Acknowledge
  PROVE  /\ alerts \subseteq alerts' /\ Alerts' = Alerts
         /\ \/ UNCHANGED <<alerts, alertBuffer>>
            \/ /\ alertBuffer # <<>>
               /\ alerts' = alerts \union {Head(alertBuffer)} /\ alertBuffer' = Tail(alertBuffer)
         /\ UNCHANGED <<raw, read, configured, seen, breaches, lastEnd, maxTime, watermark, saved,
                        crashes, expiries, reconfigured>>
<1>1. Alerts' = alerts' \union Range(alertBuffer')
  BY DEF Alerts, Range
<1>2. alertBuffer # <<>> => Range(alertBuffer) = {Head(alertBuffer)} \union Range(Tail(alertBuffer))
  BY RangeHeadTail DEF Typed, TypeOK
<1>3. /\ \/ UNCHANGED <<alerts, alertBuffer>>
         \/ /\ alertBuffer # <<>>
            /\ alerts' = alerts \union {Head(alertBuffer)} /\ alertBuffer' = Tail(alertBuffer)
      /\ UNCHANGED <<raw, read, configured, seen, breaches, lastEnd, maxTime, watermark, saved,
                     crashes, expiries, reconfigured>>
  BY DEF Acknowledge, state, event
<1>4. alerts \subseteq alerts' /\ Alerts' = Alerts
  BY <1>1, <1>2, <1>3 DEF Alerts
<1> QED BY <1>3, <1>4

LEMMA CheckpointEffect ==
  ASSUME Typed, Checkpoint
  PROVE  /\ Due = {} /\ saved' = [read |-> read, configured |-> configured, seen |-> seen,
                                  breaches |-> breaches, lastEnd |-> lastEnd]
         /\ alerts' = Alerts /\ Alerts' = Alerts /\ alertBuffer' = <<>>
         /\ UNCHANGED <<raw, read, configured, seen, breaches, lastEnd, maxTime, watermark,
                        crashes, expiries, reconfigured>>
<1>1. Alerts' = alerts' \union Range(alertBuffer')
  BY DEF Alerts, Range
<1>2. alerts' = Alerts /\ alertBuffer' = <<>>
  BY DEF Checkpoint, Alerts
<1>3. Alerts' = Alerts
  BY <1>1, <1>2, RangeEmpty
<1> QED BY <1>2, <1>3 DEF Checkpoint, state, event

LEMMA RestoreEffect ==
  ASSUME Typed, Restore
  PROVE  /\ read' = saved.read /\ configured' = saved.configured /\ seen' = saved.seen
         /\ breaches' = saved.breaches /\ lastEnd' = saved.lastEnd
         /\ maxTime' = 0 /\ watermark' = 0 /\ crashes' \in Nat /\ crashes' > 0
         /\ Alerts' = alerts /\ alertBuffer' = <<>>
         /\ UNCHANGED <<raw, saved, alerts, expiries, reconfigured>>
<1>1. Alerts' = alerts' \union Range(alertBuffer')
  BY DEF Alerts, Range
<1>2. Alerts' = alerts
  BY <1>1, RangeEmpty DEF Restore
<1>3. crashes' \in Nat /\ crashes' > 0
  BY RestoreCounts DEF Typed
<1> QED BY <1>2, <1>3 DEF Restore

\* The steps that leave the windows, the cooldown and the alerts alone.
LEMMA OtherEffect ==
  ASSUME Configure \/ Drop \/ EmitWatermark \/ UNCHANGED vars
  PROVE  /\ UNCHANGED <<raw, seen, breaches, lastEnd, maxTime, saved, alertBuffer, alerts,
                        crashes, expiries>>
         /\ Alerts' = Alerts
<1>1. UNCHANGED <<raw, seen, breaches, lastEnd, maxTime, saved, alertBuffer, alerts,
                  crashes, expiries>>
  BY DEF Configure, Drop, EmitWatermark, vars, state, event, output
<1> QED BY <1>1 DEF Alerts, Range

-----------------------------------------------------------------------------
(* Alerts are sustained *)

\* The readings of a set that are in a window and reach a threshold.
Backing(S, e, t) == {m \in S : e \in EndsOf(m.time) /\ m.cpm >= t}

LEMMA BackingCounts ==
  ASSUME NEW S, IsFiniteSet(S), NEW e, NEW t
  PROVE  /\ IsFiniteSet(Backing(S, e, t)) /\ Cardinality(Backing(S, e, t)) \in Nat
         /\ \A U : U \subseteq S =>
              Cardinality(Backing(U, e, t)) <= Cardinality(Backing(S, e, t))
         /\ \A m : m \notin S =>
              Cardinality(Backing(S \union {m}, e, t)) =
                IF e \in EndsOf(m.time) /\ m.cpm >= t
                THEN Cardinality(Backing(S, e, t)) + 1 ELSE Cardinality(Backing(S, e, t))
<1>1. IsFiniteSet(Backing(S, e, t))
  BY FS_Subset DEF Backing
<1>2. Cardinality(Backing(S, e, t)) \in Nat
  BY <1>1, FS_CardinalityType
<1>3. ASSUME NEW U, U \subseteq S
      PROVE  Cardinality(Backing(U, e, t)) <= Cardinality(Backing(S, e, t))
  <2>1. Backing(U, e, t) \subseteq Backing(S, e, t)
    BY <1>3 DEF Backing
  <2> QED BY <1>1, <2>1, FS_Subset
<1>4. ASSUME NEW m, m \notin S
      PROVE  Cardinality(Backing(S \union {m}, e, t)) =
               IF e \in EndsOf(m.time) /\ m.cpm >= t
               THEN Cardinality(Backing(S, e, t)) + 1 ELSE Cardinality(Backing(S, e, t))
  <2>1. CASE e \in EndsOf(m.time) /\ m.cpm >= t
    <3>1. Backing(S \union {m}, e, t) = Backing(S, e, t) \union {m} /\ m \notin Backing(S, e, t)
      BY <1>4, <2>1 DEF Backing
    <3>2. Cardinality(Backing(S, e, t) \union {m}) = Cardinality(Backing(S, e, t)) + 1
      BY <1>1, <3>1, FS_AddElement
    <3> QED BY <2>1, <3>1, <3>2
  <2>2. CASE ~(e \in EndsOf(m.time) /\ m.cpm >= t)
    <3>1. Backing(S \union {m}, e, t) = Backing(S, e, t)
      BY <2>2 DEF Backing
    <3> QED BY <2>2, <3>1
  <2> QED BY <2>1, <2>2
<1> QED BY <1>1, <1>2, <1>3, <1>4

LEMMA ThresholdsInForce ==
  ASSUME Typed, NEW m \in Readings
  PROVE  /\ Danger(m) => m.cpm >= Possible
         /\ m.cpm >= Sure => Danger(m)
         /\ configured = 0 => (Danger(m) <=> m.cpm >= DefaultDanger)
<1> DEFINE T == IF configured = 0 THEN DefaultDanger ELSE Thresholds[configured]
<1>1. Thresholds \in Seq(Int) /\ DefaultDanger \in Int /\ Len(Thresholds) \in Nat
  BY AlertsAssumption, LenProperties
<1>2. Dangers \in SUBSET Int /\ IsFiniteSet(Dangers)
  <2>1. Range(Thresholds) \in SUBSET Int /\ IsFiniteSet(Range(Thresholds))
    BY <1>1, RangeElements
  <2>2. IsFiniteSet(Range(Thresholds) \union {DefaultDanger})
    BY <2>1, FS_AddElement
  <2>3. Range(Thresholds) \union {DefaultDanger} = Dangers
    BY DEF Dangers
  <2> QED BY <1>1, <2>1, <2>2, <2>3
<1>3. T \in Dangers
  <2>1. CASE configured = 0
    BY <2>1 DEF Dangers
  <2>2. CASE configured # 0
    <3>1. configured \in 1..Len(Thresholds)
      BY <1>1, <2>2 DEF Typed, TypeOK
    <3>2. Thresholds[configured] \in Range(Thresholds)
      BY <1>1, <3>1, RangeElements
    <3> QED BY <2>2, <3>2 DEF Dangers
  <2> QED BY <2>1, <2>2
<1>4. Possible \in Int /\ Sure \in Int /\ T \in Int /\ Possible <= T /\ T <= Sure
  <2> HIDE DEF T
  <2>1. Dangers # {}
    BY <1>3
  <2> QED BY <1>2, <1>3, <2>1, MinMax DEF Possible, Sure
<1>5. m.cpm \in Int
  BY EndsAreNumbers
<1>6. Danger(m) <=> m.cpm >= T
  BY DEF Danger
<1>7. configured = 0 => T = DefaultDanger
  OBVIOUS
<1> HIDE DEF T
<1> QED BY <1>4, <1>5, <1>6, <1>7
\* What a window has counted is backed by different readings of the dedup state.
Backed(windows, known) ==
  \A e \in Ends : windows[e] <= Cardinality(Backing(known, e, Possible))

SustainedBy(S, a) == Cardinality(Backing(S, a, Possible)) >= MinBreaches

Sustaining ==
  expiries = 0 =>
    /\ Backed(breaches, seen) /\ Backed(saved.breaches, saved.seen)
    /\ \A a \in Alerts : SustainedBy(ReadingsIn(Len(raw)), a)

LEMMA KnownReadings ==
  ASSUME Typed, Surviving
  PROVE  /\ IsFiniteSet(seen) /\ IsFiniteSet(saved.seen)
         /\ seen \subseteq ReadingsIn(Len(raw)) /\ IsFiniteSet(ReadingsIn(Len(raw)))
<1>1. read \in 0..Len(raw) /\ saved.read \in 0..Len(raw) /\ Len(raw) \in 0..Len(raw)
  <2>1. raw \in Seq(Readings \union {Junk, Poison})
    BY DEF Typed, TypeOK
  <2>2. Len(raw) \in Nat
    BY <2>1, LenProperties
  <2> QED BY <2>2 DEF Typed, TypeOK
<1>2. /\ IsFiniteSet(ReadingsIn(read)) /\ IsFiniteSet(ReadingsIn(saved.read))
      /\ IsFiniteSet(ReadingsIn(Len(raw))) /\ ReadingsIn(read) \subseteq ReadingsIn(Len(raw))
  BY <1>1, PrefixReadings
<1> QED BY <1>2, FS_Subset DEF Surviving

LEMMA InitSustaining == Init /\ Typed /\ Surviving => Sustaining
<1> SUFFICES ASSUME Init, Typed, Surviving PROVE Sustaining
  OBVIOUS
<1>1. /\ alerts = {} /\ alertBuffer = <<>>
      /\ \A e \in Ends : breaches[e] = 0 /\ saved.breaches[e] = 0
  BY DEF Init, Fresh
<1>2. Alerts = {}
  BY <1>1, RangeEmpty DEF Alerts
<1>3. Backed(breaches, seen) /\ Backed(saved.breaches, saved.seen)
  BY <1>1, KnownReadings, BackingCounts DEF Backed
<1> QED BY <1>2, <1>3 DEF Sustaining

LEMMA NextSustaining ==
  Typed /\ Typed' /\ Surviving /\ Surviving' /\ Sustaining /\ [Next]_vars => Sustaining'
<1> SUFFICES ASSUME Typed, Typed', Surviving, Surviving', Sustaining, [Next]_vars
             PROVE  Sustaining'
  OBVIOUS
<1> SUFFICES ASSUME expiries' = 0
             PROVE  /\ Backed(breaches', seen') /\ Backed(saved'.breaches, saved'.seen)
                    /\ \A a \in Alerts' : SustainedBy(ReadingsIn(Len(raw)), a)
  <2>1. raw' = raw
    BY DEF Next, vars, Configure, Drop, Accept, EmitWatermark, Fire, Acknowledge, Checkpoint,
           Restore, Expire
  <2>2. ReadingsIn(Len(raw))' = ReadingsIn(Len(raw))
    BY <2>1 DEF ReadingsIn
  <2> QED BY <2>2 DEF Sustaining, Backed, SustainedBy, Backing
<1>1. CASE Expire
  BY <1>1 DEF Expire, Typed
<1>2. CASE Accept
  <2>1. /\ Following \in Readings /\ Following \notin seen /\ seen' = seen \union {Following}
        /\ UNCHANGED <<saved, expiries>> /\ Alerts' = Alerts
        /\ \A e \in Ends : breaches'[e] =
             IF e \in EndsOf(Following.time) /\ e > watermark /\ Danger(Following)
             THEN breaches[e] + 1 ELSE breaches[e]
    BY <1>2, AcceptEffect
  <2>2. Backed(breaches, seen) /\ Backed(saved.breaches, saved.seen)
        /\ \A a \in Alerts : SustainedBy(ReadingsIn(Len(raw)), a)
    BY <2>1 DEF Sustaining
  <2>3. ASSUME NEW e \in Ends PROVE breaches'[e] <= Cardinality(Backing(seen', e, Possible))
    <3> DEFINE c == Cardinality(Backing(seen, e, Possible))
               d == Cardinality(Backing(seen', e, Possible))
               hit == e \in EndsOf(Following.time) /\ Following.cpm >= Possible
    <3>1. c \in Nat /\ d = IF hit THEN c + 1 ELSE c
      BY <2>1, KnownReadings, BackingCounts
    <3>2. breaches[e] \in Nat /\ breaches[e] <= c
      BY <2>2 DEF Backed, Typed, TypeOK
    <3>3. breaches'[e] = breaches[e] \/ (breaches'[e] = breaches[e] + 1 /\ hit)
      BY <2>1, ThresholdsInForce
    <3> HIDE DEF c, d, hit
    <3>4. breaches'[e] <= d
      BY <3>1, <3>2, <3>3
    <3> QED BY <3>4 DEF d
  <2> QED BY <2>1, <2>2, <2>3 DEF Backed
<1>3. CASE Fire
  <2>1. PICK e \in Ends :
          /\ breaches'[e] = 0 /\ \A d \in Ends : d # e => breaches'[d] = breaches[d]
          /\ Alerted(e) \/ Unalerted(e)
          /\ UNCHANGED <<seen, saved, expiries>>
    BY <1>3, FireEffect
  <2>2. Backed(breaches, seen) /\ Backed(saved.breaches, saved.seen)
        /\ \A a \in Alerts : SustainedBy(ReadingsIn(Len(raw)), a)
    BY <2>1 DEF Sustaining
  <2>3. Backed(breaches', seen)
    BY <2>1, <2>2, KnownReadings, BackingCounts DEF Backed
  <2>4. ASSUME Sustained(e) PROVE SustainedBy(ReadingsIn(Len(raw)), e)
    <3>1. /\ Cardinality(Backing(seen, e, Possible)) \in Nat
          /\ Cardinality(Backing(ReadingsIn(Len(raw)), e, Possible)) \in Nat
          /\ Cardinality(Backing(seen, e, Possible)) <=
               Cardinality(Backing(ReadingsIn(Len(raw)), e, Possible))
      BY KnownReadings, BackingCounts
    <3>2. /\ breaches[e] <= Cardinality(Backing(seen, e, Possible)) /\ breaches[e] >= MinBreaches
          /\ breaches[e] \in Nat /\ MinBreaches \in Nat
      BY <2>2, <2>4, AlertsAssumption DEF Backed, Sustained, Typed, TypeOK
    <3> QED BY <3>1, <3>2 DEF SustainedBy
  <2> QED BY <2>1, <2>2, <2>3, <2>4 DEF Alerted, Unalerted
<1>4. CASE Acknowledge
  BY <1>4, AcknowledgeEffect DEF Sustaining
<1>5. CASE Checkpoint
  BY <1>5, CheckpointEffect DEF Sustaining
<1>6. CASE Restore
  BY <1>6, RestoreEffect DEF Sustaining, Alerts
<1>7. CASE Configure \/ Drop \/ EmitWatermark \/ UNCHANGED vars
  BY <1>7, OtherEffect DEF Sustaining
<1> QED BY <1>1, <1>2, <1>3, <1>4, <1>5, <1>6, <1>7 DEF Next

\* An alert is backed by enough different readings of its window, whatever was
\* sent twice or replayed: while no dedup entry expires, a window counts a
\* reading only when it enters the dedup state, and both go back together.
THEOREM AlertsAreBacked == Spec => []AlertsAreSustained
<1>1. Init => Typed /\ Surviving /\ Sustaining
  BY InitTyped, InitSurviving, InitSustaining
<1>2. Typed /\ Surviving /\ Sustaining /\ [Next]_vars => Typed' /\ Surviving' /\ Sustaining'
  BY NextTyped, NextSurviving, NextSustaining
<1>3. Sustaining => AlertsAreSustained
  BY DEF Sustaining, AlertsAreSustained, SustainedBy, Backing, Breaching
<1> QED BY <1>1, <1>2, <1>3, PTL DEF Spec
-----------------------------------------------------------------------------
(* Bursts are alerted *)

\* A reading among the first n records has closed the window that ends at e for
\* every reading that is not late.
Closed(e, n) == \E i \in 1..n : raw[i] \in Readings /\ raw[i].time - Delay >= e

LEMMA RecordsAreReadings ==
  ASSUME Typed, NEW n \in 0..Len(raw)
  PROVE  n \in Nat /\ \A i \in 1..n : i \in Nat /\ (raw[i] \in Readings => raw[i] \in Readings /\ raw[i].time \in Nat)
<1>1. raw \in Seq(Readings \union {Junk, Poison})
  BY DEF Typed, TypeOK
<1>2. Len(raw) \in Nat
  BY <1>1, LenProperties
<1>3. \A i \in 1..n : i \in 1..Len(raw) /\ i \in Nat
  BY <1>2
<1>4. \A i \in 1..n : raw[i] \in Readings \union {Junk, Poison}
  BY <1>1, <1>3, ElementOfSeq
<1> QED BY <1>2, <1>3, <1>4, EndsAreNumbers

LEMMA ClosedStays ==
  ASSUME Typed, NEW n \in 0..Len(raw), NEW k \in 0..n, NEW e \in Int, NEW d \in Int, d <= e,
         Closed(e, k)
  PROVE  Closed(d, n)
<1>1. PICK i \in 1..k : raw[i] \in Readings /\ raw[i].time - Delay >= e
  BY DEF Closed
<1>2. n \in Nat
  BY RecordsAreReadings
<1>3. i \in 1..n
  BY <1>2
<1>4. raw[i].time \in Nat /\ Delay \in Nat
  BY <1>1, <1>3, RecordsAreReadings, AlertsAssumption
<1>5. raw[i].time - Delay >= d
  BY <1>1, <1>4
<1> QED BY <1>1, <1>3, <1>5 DEF Closed

LEMMA InTimeBefore ==
  ASSUME Typed, NEW n \in 0..Len(raw), NEW k \in 0..n, InTime(n)
  PROVE  InTime(k)
<1>1. n \in Nat
  BY RecordsAreReadings
<1>2. \A i \in 1..k : i \in 1..n
  BY <1>1
<1> QED BY <1>2 DEF InTime

LEMMA NoLateReading ==
  ASSUME Typed, read < Len(raw), Following \in Readings, InTime(read + 1),
         NEW e \in Int, Closed(e, read)
  PROVE  e \notin EndsOf(Following.time)
<1>1. PICK i \in 1..read : raw[i] \in Readings /\ raw[i].time - Delay >= e
  BY DEF Closed
<1>2. read + 1 \in 1..Len(raw) /\ read \in Nat
  BY NextReading DEF Typed, TypeOK
<1>3. i \in 1..(read + 1) /\ read + 1 \in 1..(read + 1) /\ i < read + 1
  BY <1>2
<1>4. Following = raw[read + 1] /\ Following \in Readings
  BY EndsAreNumbers DEF Following
<1>5. raw[i].time - Delay <= Following.time
  BY <1>1, <1>3, <1>4 DEF InTime
<1>6. read + 1 \in 0..Len(raw)
  BY <1>2
<1>7. raw[i].time \in Nat /\ Following.time \in Nat /\ Delay \in Nat
  BY <1>1, <1>3, <1>6, RecordsAreReadings, EndsAreNumbers, AlertsAssumption
<1>8. ~(e > Following.time)
  BY <1>1, <1>5, <1>7
<1> QED BY <1>8, EndsAreNumbers

Clock ==
  /\ maxTime # 0 => \E i \in 1..read : raw[i] \in Readings /\ raw[i].time = maxTime
  /\ watermark # 0 => Closed(watermark, read)

\* An alert answers for a window.
Answered(e, A) == \E a \in A : a = e \/ (a < e /\ e - a < Cooldown)

SureOf(n, e) == Cardinality(Backing(ReadingsIn(n), e, Sure))

\* What the windows and the cooldown of a job that has read n records owe to the
\* readings among them, when A has been alerted and no reading was late: a
\* window lacks a reading only after it has been dealt with, and those that are
\* pending end after the last alert.
Owed(n, windows, last, A) ==
  InTime(n) =>
    /\ \A e \in Ends :
         \/ windows[e] >= SureOf(n, e)
         \/ Closed(e, n) /\ (SureOf(n, e) >= MinBreaches => Answered(e, A))
    /\ last # 0 => /\ last \in A /\ Closed(last, n)
                   /\ \A e \in Ends : windows[e] > 0 => e > last

Answering ==
  /\ Clock
  /\ Owed(read, breaches, lastEnd, Alerts)
  /\ Owed(saved.read, saved.breaches, saved.lastEnd, alerts)

LEMMA OwedStays ==
  ASSUME NEW n, NEW windows, NEW last, NEW A, NEW C, A \subseteq C, Owed(n, windows, last, A)
  PROVE  Owed(n, windows, last, C)
<1>1. \A e : Answered(e, A) => Answered(e, C)
  BY DEF Answered
<1> QED BY <1>1 DEF Owed

LEMMA InitAnswering == Init /\ Typed => Answering
<1> SUFFICES ASSUME Init, Typed PROVE Answering
  OBVIOUS
<1>1. /\ maxTime = 0 /\ watermark = 0 /\ read = 0 /\ saved.read = 0 /\ lastEnd = 0 /\ saved.lastEnd = 0
      /\ \A e \in Ends : breaches[e] = 0 /\ saved.breaches[e] = 0
  BY DEF Init, Fresh
<1>2. ASSUME NEW e \in Ends PROVE SureOf(0, e) = 0
  <2>1. Backing(ReadingsIn(0), e, Sure) = {}
    BY DEF Backing, ReadingsIn
  <2> QED BY <2>1, FS_EmptySet DEF SureOf
<1>3. \A A : Owed(0, breaches, 0, A) /\ Owed(0, saved.breaches, 0, A)
  BY <1>1, <1>2 DEF Owed
<1> QED BY <1>1, <1>3 DEF Answering, Clock
LEMMA ReadBounds ==
  ASSUME Typed
  PROVE  /\ read \in Nat /\ read \in 0..Len(raw) /\ read \in 0..read
         /\ saved.read \in Nat /\ saved.read \in 0..Len(raw)
         /\ read < Len(raw) => read + 1 \in 0..Len(raw) /\ read \in 0..(read + 1)
<1>1. raw \in Seq(Readings \union {Junk, Poison})
  BY DEF Typed, TypeOK
<1>2. Len(raw) \in Nat
  BY <1>1, LenProperties
<1> QED BY <1>2 DEF Typed, TypeOK

LEMMA AcceptOwed ==
  ASSUME Typed, Surviving, Clock, Owed(read, breaches, lastEnd, Alerts), Accept, InTime(read + 1)
  PROVE  /\ \A e \in Ends :
              \/ breaches'[e] >= SureOf(read + 1, e)
              \/ Closed(e, read + 1) /\ (SureOf(read + 1, e) >= MinBreaches => Answered(e, Alerts))
         /\ lastEnd # 0 => /\ lastEnd \in Alerts /\ Closed(lastEnd, read + 1)
                           /\ \A e \in Ends : breaches'[e] > 0 => e > lastEnd
<1>1. /\ Following \in Readings /\ read + 1 \in 0..Len(raw) /\ read < Len(raw)
      /\ read \in 0..(read + 1) /\ read \in 0..Len(raw) /\ read' = read + 1
      /\ \A m : m \in ReadingsIn(read + 1) <=> m \in ReadingsIn(read) \/ m = Following
  BY AcceptEffect, ReadBounds DEF Accept
<1>2. \A e \in Ends : breaches'[e] =
         IF e \in EndsOf(Following.time) /\ e > watermark /\ Danger(Following)
         THEN breaches[e] + 1 ELSE breaches[e]
  BY AcceptEffect
<1>3. /\ \A e \in Ends :
           \/ breaches[e] >= SureOf(read, e)
           \/ Closed(e, read) /\ (SureOf(read, e) >= MinBreaches => Answered(e, Alerts))
      /\ lastEnd # 0 => /\ lastEnd \in Alerts /\ Closed(lastEnd, read)
                        /\ \A e \in Ends : breaches[e] > 0 => e > lastEnd
  BY <1>1, InTimeBefore DEF Owed
<1>4. \A e \in Ends : e \in Int /\ e > 0 /\ breaches[e] \in Nat
  BY EndsAreNumbers DEF Typed, TypeOK
<1>5. \A e \in Ends : Closed(e, read) => Closed(e, read + 1) /\ e \notin EndsOf(Following.time)
  BY <1>1, <1>4, ClosedStays, NoLateReading
\* The reading is not late, so its windows are open.
<1>6. ASSUME NEW e \in Ends, e \in EndsOf(Following.time) PROVE e > watermark
  <2>1. SUFFICES ASSUME e <= watermark PROVE Closed(e, read)
    BY <1>4, <1>5, <1>6 DEF Typed, TypeOK
  <2>2. watermark \in Int /\ watermark # 0
    BY <1>4, <2>1 DEF Typed, TypeOK
  <2> QED BY <1>1, <1>4, <2>1, <2>2, ClosedStays DEF Clock
<1>7. ASSUME NEW e \in Ends
      PROVE  \/ breaches'[e] >= SureOf(read + 1, e)
             \/ Closed(e, read + 1) /\ (SureOf(read + 1, e) >= MinBreaches => Answered(e, Alerts))
  <2> DEFINE R == ReadingsIn(read)
             c == SureOf(read, e)
             d == SureOf(read + 1, e)
             hit == e \in EndsOf(Following.time) /\ Following.cpm >= Sure
  <2>1. IsFiniteSet(R) /\ ReadingsIn(read + 1) = R \union {Following}
    BY <1>1, PrefixReadings
  <2>2. c \in Nat /\ (d = c \/ (hit /\ d = c + 1))
    <3>1. CASE Following \in R
      <4>1. R \union {Following} = R
        BY <3>1
      <4> QED BY <2>1, <4>1, BackingCounts DEF SureOf
    <3>2. CASE Following \notin R
      BY <2>1, <3>2, BackingCounts DEF SureOf
    <3> QED BY <3>1, <3>2
  <2>3. hit => breaches'[e] = breaches[e] + 1
    BY <1>1, <1>2, <1>6, ThresholdsInForce
  <2>4. breaches'[e] >= breaches[e]
    BY <1>2, <1>4
  <2>5. CASE breaches[e] >= c
    <3> HIDE DEF c, d, hit
    <3>1. breaches'[e] >= d
      BY <1>2, <1>4, <2>2, <2>3, <2>4, <2>5
    <3> QED BY <3>1 DEF d
  <2>6. CASE Closed(e, read) /\ (c >= MinBreaches => Answered(e, Alerts))
    <3>1. ~hit
      BY <1>5, <2>6
    <3>2. d = c
      <4> HIDE DEF c, d, hit
      <4> QED BY <2>2, <3>1
    <3> QED BY <1>5, <2>6, <3>2
  <2> QED BY <1>3, <2>5, <2>6
<1>8. ASSUME lastEnd # 0
      PROVE  /\ lastEnd \in Alerts /\ Closed(lastEnd, read + 1)
             /\ \A e \in Ends : breaches'[e] > 0 => e > lastEnd
  <2>1. lastEnd \in Ends /\ lastEnd \in Alerts /\ Closed(lastEnd, read)
    BY <1>3, <1>8 DEF Typed, TypeOK
  <2>2. ASSUME NEW e \in Ends, breaches'[e] > 0 PROVE e > lastEnd
    <3>1. CASE breaches[e] > 0
      BY <1>3, <1>8, <3>1
    <3>2. CASE ~(breaches[e] > 0)
      <4>1. e \in EndsOf(Following.time)
        BY <1>2, <1>4, <2>2, <3>2
      <4>2. ~(e <= lastEnd)
        BY <1>1, <1>4, <1>5, <2>1, <4>1, ClosedStays
      <4> QED BY <1>4, <2>1, <4>2
    <3> QED BY <3>1, <3>2
  <2> QED BY <1>5, <2>1, <2>2
<1> QED BY <1>7, <1>8

LEMMA FireOwed ==
  ASSUME Typed, Clock, Owed(read, breaches, lastEnd, Alerts), Fire, InTime(read)
  PROVE  /\ \A e \in Ends :
              \/ breaches'[e] >= SureOf(read, e)
              \/ Closed(e, read) /\ (SureOf(read, e) >= MinBreaches => Answered(e, Alerts'))
         /\ lastEnd' # 0 => /\ lastEnd' \in Alerts' /\ Closed(lastEnd', read)
                            /\ \A e \in Ends : breaches'[e] > 0 => e > lastEnd'
<1>1. PICK e \in Ends :
        /\ e <= watermark /\ breaches[e] > 0 /\ \A d \in Due : e <= d
        /\ breaches'[e] = 0 /\ \A d \in Ends : d # e => breaches'[d] = breaches[d]
        /\ Alerted(e) \/ Unalerted(e)
  BY FireEffect
<1>2. /\ \A d \in Ends :
           \/ breaches[d] >= SureOf(read, d)
           \/ Closed(d, read) /\ (SureOf(read, d) >= MinBreaches => Answered(d, Alerts))
      /\ lastEnd # 0 => /\ lastEnd \in Alerts /\ Closed(lastEnd, read)
                        /\ \A d \in Ends : breaches[d] > 0 => d > lastEnd
  BY DEF Owed
<1>3. /\ \A d \in Ends : d \in Int /\ d > 0 /\ breaches[d] \in Nat
      /\ watermark \in Int /\ watermark > 0 /\ MinBreaches \in Nat \ {0} /\ Cooldown \in Nat
      /\ lastEnd # 0 => lastEnd \in Ends
  BY <1>1, EndsAreNumbers, AlertsAssumption DEF Typed, TypeOK
<1>4. Closed(e, read)
  BY <1>1, <1>3, ReadBounds, ClosedStays DEF Clock
<1>5. Alerts \subseteq Alerts'
  BY <1>1 DEF Alerted, Unalerted
<1>6. \A d : Answered(d, Alerts) => Answered(d, Alerts')
  BY <1>5 DEF Answered
<1>7. ASSUME SureOf(read, e) >= MinBreaches PROVE Answered(e, Alerts')
  <2>1. SUFFICES ASSUME breaches[e] >= SureOf(read, e) PROVE Answered(e, Alerts')
    BY <1>2, <1>6, <1>7
  <2>2. SureOf(read, e) \in Nat
    BY ReadBounds, PrefixReadings, BackingCounts DEF SureOf
  <2>3. Sustained(e)
    BY <1>3, <1>7, <2>1, <2>2 DEF Sustained
  <2>4. CASE Alerted(e)
    BY <2>4 DEF Alerted, Answered
  <2>5. CASE Unalerted(e)
    <3>1. lastEnd # 0 /\ e - lastEnd < Cooldown
      BY <2>3, <2>5 DEF Unalerted, CoolingDown
    <3>2. lastEnd \in Alerts' /\ e > lastEnd
      BY <1>1, <1>2, <1>5, <3>1
    <3> QED BY <3>1, <3>2 DEF Answered
  <2> QED BY <1>1, <2>4, <2>5
<1>8. ASSUME NEW d \in Ends
      PROVE  \/ breaches'[d] >= SureOf(read, d)
             \/ Closed(d, read) /\ (SureOf(read, d) >= MinBreaches => Answered(d, Alerts'))
  <2>1. CASE d = e
    BY <1>4, <1>7, <2>1
  <2>2. CASE d # e
    BY <1>1, <1>2, <1>6, <2>2
  <2> QED BY <2>1, <2>2
<1>9. ASSUME NEW d \in Ends, breaches'[d] > 0
      PROVE  d > e /\ breaches[d] > 0
  <2>1. d # e /\ breaches[d] > 0
    BY <1>1, <1>3, <1>9
  <2>2. CASE d <= watermark
    BY <1>1, <1>3, <2>1, <2>2 DEF Due
  <2>3. CASE ~(d <= watermark)
    BY <1>1, <1>3, <2>1, <2>3
  <2> QED BY <2>1, <2>2, <2>3
<1>10. CASE Alerted(e)
  BY <1>4, <1>8, <1>9, <1>10 DEF Alerted
<1>11. CASE Unalerted(e)
  BY <1>2, <1>5, <1>8, <1>9, <1>11 DEF Unalerted
<1> QED BY <1>1, <1>10, <1>11
LEMMA NextClock == Typed /\ Clock /\ [Next]_vars => Clock'
<1> SUFFICES ASSUME Typed, Clock, [Next]_vars PROVE Clock'
  OBVIOUS
<1>1. raw' = raw
  BY DEF Next, vars, Configure, Drop, Accept, EmitWatermark, Fire, Acknowledge, Checkpoint,
         Restore, Expire
<1>2. SUFFICES /\ maxTime' # 0 => \E i \in 1..read' : raw[i] \in Readings /\ raw[i].time = maxTime'
               /\ watermark' # 0 => Closed(watermark', read')
  BY <1>1 DEF Clock, Closed
<1>3. /\ maxTime # 0 => \E i \in 1..read : raw[i] \in Readings /\ raw[i].time = maxTime
      /\ watermark # 0 => Closed(watermark, read)
  BY DEF Clock
<1>4. CASE Configure \/ Fire \/ Acknowledge \/ Checkpoint \/ Expire \/ UNCHANGED vars
  <2>1. UNCHANGED <<read, maxTime, watermark>>
    BY <1>4 DEF Configure, Fire, Acknowledge, Checkpoint, Expire, vars, state, event
  <2> QED BY <1>3, <2>1
<1>5. CASE Restore
  BY <1>5 DEF Restore
<1>6. CASE EmitWatermark
  <2>1. maxTime - Delay > watermark /\ watermark' = maxTime - Delay /\ UNCHANGED <<read, maxTime>>
    BY <1>6 DEF EmitWatermark, state
  <2>2. maxTime # 0 /\ maxTime \in Nat /\ Delay \in Nat
    BY <2>1, AlertsAssumption DEF Typed, TypeOK
  <2>3. PICK i \in 1..read : raw[i] \in Readings /\ raw[i].time = maxTime
    BY <1>3, <2>2
  <2>4. Closed(watermark', read)
    BY <2>1, <2>2, <2>3 DEF Closed
  <2> QED BY <1>3, <2>1, <2>4
<1>7. CASE Drop \/ Accept
  <2>1. read' = read + 1 /\ watermark' = watermark /\ read \in Nat
        /\ (maxTime' = maxTime \/ (Following \in Readings /\ maxTime' = Following.time))
    BY <1>7, AcceptEffect, EndsAreNumbers DEF Drop, event, Typed, TypeOK
  <2>2. read + 1 \in 1..(read + 1) /\ Following = raw[read + 1] /\ \A i \in 1..read : i \in 1..(read + 1)
    BY <2>1 DEF Following
  <2>3. watermark # 0 => Closed(watermark, read + 1)
    BY <1>3, <2>2 DEF Closed
  <2>4. maxTime' # 0 => \E i \in 1..(read + 1) : raw[i] \in Readings /\ raw[i].time = maxTime'
    BY <1>3, <2>1, <2>2
  <2> QED BY <2>1, <2>3, <2>4
<1> QED BY <1>4, <1>5, <1>6, <1>7 DEF Next

LEMMA NextAnswering == Typed /\ Typed' /\ Surviving /\ Answering /\ [Next]_vars => Answering'
<1> SUFFICES ASSUME Typed, Typed', Surviving, Answering, [Next]_vars PROVE Answering'
  OBVIOUS
<1>1. raw' = raw
  BY DEF Next, vars, Configure, Drop, Accept, EmitWatermark, Fire, Acknowledge, Checkpoint,
         Restore, Expire
<1>2. SUFFICES /\ Owed(read', breaches', lastEnd', Alerts')
               /\ Owed(saved'.read, saved'.breaches, saved'.lastEnd, alerts')
  <2>1. Clock'
    BY NextClock DEF Answering
  <2>2. /\ Owed(read, breaches, lastEnd, Alerts)' = Owed(read', breaches', lastEnd', Alerts')
        /\ Owed(saved.read, saved.breaches, saved.lastEnd, alerts)'
             = Owed(saved'.read, saved'.breaches, saved'.lastEnd, alerts')
    BY <1>1 DEF Owed, InTime, Closed, SureOf, Backing, ReadingsIn, Answered, Alerts, Range
  <2> QED BY <2>1, <2>2 DEF Answering
<1>3. /\ Clock /\ Owed(read, breaches, lastEnd, Alerts)
      /\ Owed(saved.read, saved.breaches, saved.lastEnd, alerts)
  BY DEF Answering
<1>4. CASE Accept
  <2>1. Owed(read + 1, breaches', lastEnd, Alerts)
    BY <1>3, <1>4, AcceptOwed DEF Owed
  <2> QED BY <1>3, <1>4, <2>1, AcceptEffect
<1>5. CASE Drop
  <2>1. read' = read + 1 /\ UNCHANGED <<breaches, lastEnd, saved, alerts>> /\ Alerts' = Alerts
        /\ read < Len(raw) /\ read + 1 \in 0..Len(raw) /\ read \in 0..(read + 1) /\ read \in 0..Len(raw)
    BY <1>5, OtherEffect, ReadBounds DEF Drop
  <2>2. ReadingsIn(read + 1) = ReadingsIn(read)
    <3>1. Following = Junk \/ Following \in ReadingsIn(read)
      BY <1>5 DEF Drop, Duplicate, Surviving
    <3> QED BY <2>1, <3>1, NextReading, AlertsAssumption
  <2>3. \A e : SureOf(read + 1, e) = SureOf(read, e)
    BY <2>2 DEF SureOf
  <2>4. \A e \in Ends \union {0} : Closed(e, read) => Closed(e, read + 1)
    BY <2>1, EndsAreNumbers, ClosedStays
  <2>5. Owed(read + 1, breaches, lastEnd, Alerts)
    <3>1. SUFFICES ASSUME InTime(read + 1)
                   PROVE  /\ \A e \in Ends :
                               \/ breaches[e] >= SureOf(read + 1, e)
                               \/ /\ Closed(e, read + 1)
                                  /\ SureOf(read + 1, e) >= MinBreaches => Answered(e, Alerts)
                          /\ lastEnd # 0 => /\ lastEnd \in Alerts /\ Closed(lastEnd, read + 1)
                                            /\ \A e \in Ends : breaches[e] > 0 => e > lastEnd
      BY DEF Owed
    <3>2. InTime(read)
      BY <2>1, <3>1, InTimeBefore
    <3>3. lastEnd \in Ends \union {0}
      BY DEF Typed, TypeOK
    <3>4. /\ \A e \in Ends :
               \/ breaches[e] >= SureOf(read, e)
               \/ Closed(e, read) /\ (SureOf(read, e) >= MinBreaches => Answered(e, Alerts))
          /\ lastEnd # 0 => /\ lastEnd \in Alerts /\ Closed(lastEnd, read)
                            /\ \A e \in Ends : breaches[e] > 0 => e > lastEnd
      BY <1>3, <3>2 DEF Owed
    <3> QED BY <2>3, <2>4, <3>3, <3>4
  <2> QED BY <1>3, <2>1, <2>5
<1>6. CASE Fire
  <2>1. /\ UNCHANGED <<read, saved, alerts>>
        /\ Alerts \subseteq Alerts'
    BY <1>6, FireEffect DEF Alerted, Unalerted
  <2>2. Owed(read, breaches', lastEnd', Alerts')
    BY <1>3, <1>6, FireOwed DEF Owed
  <2> QED BY <1>3, <2>1, <2>2
<1>7. CASE Acknowledge
  <2>1. /\ UNCHANGED <<read, breaches, lastEnd, saved>>
        /\ Alerts' = Alerts /\ alerts \subseteq alerts'
    BY <1>7, AcknowledgeEffect
  <2> QED BY <1>3, <2>1, OwedStays
<1>8. CASE Checkpoint
  BY <1>3, <1>8, CheckpointEffect
<1>9. CASE Restore
  BY <1>3, <1>9, RestoreEffect
<1>10. CASE Expire
  <2>1. /\ UNCHANGED <<read, breaches, saved, alerts>> /\ (lastEnd' = lastEnd \/ lastEnd' = 0)
        /\ Alerts' = Alerts
    BY <1>10 DEF Expire, output, Alerts, Range
  <2> QED BY <1>3, <2>1 DEF Owed
<1>11. CASE Configure \/ EmitWatermark \/ UNCHANGED vars
  <2>1. UNCHANGED <<read, breaches, lastEnd, saved, alerts>> /\ Alerts' = Alerts
    BY <1>11, OtherEffect DEF Configure, EmitWatermark, vars, state
  <2> QED BY <1>3, <2>1
<1> QED BY <1>4, <1>5, <1>6, <1>7, <1>8, <1>9, <1>10, <1>11 DEF Next

\* Readings in time that are DANGER under every threshold, enough of them in one
\* window that event time has passed, have their alert, across crashes, expiries
\* and changes of the threshold: a replayed job that still counts such a window
\* has the cooldown of the checkpoint, whose alerts are on radiation.alerts.
THEOREM BurstsAnswered == Spec => []BurstsAreAlerted
<1>1. Init => Typed /\ Surviving /\ Answering
  BY InitTyped, InitSurviving, InitAnswering
<1>2. Typed /\ Surviving /\ Answering /\ [Next]_vars => Typed' /\ Surviving' /\ Answering'
  BY NextTyped, NextSurviving, NextAnswering
<1>3. Typed /\ Answering => BurstsAreAlerted
  <2> SUFFICES ASSUME Typed, Answering, InTime(read), NEW e \in Ends \ Due, e <= watermark,
                      Cardinality(Breaching(read, e, Sure)) >= MinBreaches
               PROVE  Answered(e, Alerts)
    BY DEF BurstsAreAlerted, Answered
  <2>1. SureOf(read, e) >= MinBreaches
    BY DEF SureOf, Backing, Breaching
  <2>2. breaches[e] \in Nat /\ ~(breaches[e] > 0) /\ MinBreaches \in Nat \ {0}
    BY AlertsAssumption DEF Due, Typed, TypeOK
  <2>3. SureOf(read, e) \in Nat
    BY ReadBounds, PrefixReadings, BackingCounts DEF SureOf
  <2>4. ~(breaches[e] >= SureOf(read, e))
    BY <2>1, <2>2, <2>3
  <2> QED BY <2>1, <2>4 DEF Answering, Owed
<1> QED BY <1>1, <1>2, <1>3, PTL DEF Spec
-----------------------------------------------------------------------------
(* Alerts are a cooldown apart *)

Apart(A) == \A a, b \in A : a < b => b - a >= Cooldown

\* Until a restart, the cooldown state is the last alert.
Spaced ==
  crashes = 0 /\ expiries = 0 =>
    /\ \A a \in Alerts : lastEnd # 0 /\ a <= lastEnd
    /\ Apart(Alerts)

LEMMA InitSpaced == Init => Spaced
<1> SUFFICES ASSUME Init PROVE Spaced
  OBVIOUS
<1>1. Alerts = {}
  BY RangeEmpty DEF Init, Alerts
<1> QED BY <1>1 DEF Spaced, Apart

LEMMA NextSpaced == Typed /\ Typed' /\ Spaced /\ [Next]_vars => Spaced'
<1> SUFFICES ASSUME Typed, Typed', Spaced, [Next]_vars PROVE Spaced'
  OBVIOUS
<1> SUFFICES ASSUME crashes' = 0, expiries' = 0
             PROVE  (\A a \in Alerts' : lastEnd' # 0 /\ a <= lastEnd') /\ Apart(Alerts')
  BY DEF Spaced, Apart
<1>1. CASE Restore
  BY <1>1, RestoreEffect DEF Typed
<1>2. CASE Expire
  BY <1>2 DEF Expire, Typed
<1>3. CASE Fire
  <2>1. PICK e \in Ends : (Alerted(e) \/ Unalerted(e)) /\ UNCHANGED <<crashes, expiries>>
    BY <1>3, FireEffect
  <2>2. (\A a \in Alerts : lastEnd # 0 /\ a <= lastEnd) /\ Apart(Alerts)
    BY <2>1 DEF Spaced
  <2>3. CASE Unalerted(e)
    BY <2>2, <2>3 DEF Unalerted
  <2>4. CASE Alerted(e)
    <3>1. /\ \A a \in Alerts : a \in Int
          /\ e \in Int /\ e > 0 /\ lastEnd \in Int /\ Cooldown \in Nat
      <4>1. Alerts \subseteq Ends
        BY RangeElements DEF Typed, TypeOK, Alerts
      <4>2. \A d \in Ends : d \in Int /\ d > 0
        BY EndsAreNumbers
      <4>3. lastEnd \in Ends \/ lastEnd = 0
        BY DEF Typed, TypeOK
      <4> QED BY <4>1, <4>2, <4>3, AlertsAssumption
    <3>2. lastEnd = 0 \/ e - lastEnd >= Cooldown
      BY <2>4, <3>1 DEF Alerted, CoolingDown
    <3>3. ASSUME NEW a \in Alerts PROVE a <= e /\ e - a >= Cooldown
      <4>1. a <= lastEnd /\ lastEnd # 0 /\ a \in Int
        BY <2>2, <3>1
      <4> QED BY <3>1, <3>2, <4>1
    <3>4. lastEnd' = e /\ Alerts' = Alerts \union {e}
      BY <2>4 DEF Alerted
    <3>5. ASSUME NEW a \in Alerts', NEW b \in Alerts', a < b PROVE b - a >= Cooldown
      <4>1. CASE b \in Alerts /\ a \in Alerts
        BY <2>2, <3>5, <4>1 DEF Apart
      <4>2. CASE b = e /\ a \in Alerts
        BY <3>3, <4>2
      <4>3. a # e
        <5> SUFFICES ASSUME a = e PROVE FALSE
          OBVIOUS
        <5>1. b <= e /\ b \in Int
          BY <3>1, <3>3, <3>4
        <5> QED BY <3>1, <3>5, <5>1
      <4> QED BY <3>4, <4>1, <4>2, <4>3
    <3> QED BY <3>1, <3>3, <3>4, <3>5 DEF Apart
  <2> QED BY <2>1, <2>3, <2>4
<1>4. CASE Accept
  BY <1>4, AcceptEffect DEF Spaced
<1>5. CASE Acknowledge
  BY <1>5, AcknowledgeEffect DEF Spaced
<1>6. CASE Checkpoint
  BY <1>6, CheckpointEffect DEF Spaced
<1>7. CASE Configure \/ Drop \/ EmitWatermark \/ UNCHANGED vars
  BY <1>7, OtherEffect DEF Spaced
<1> QED BY <1>1, <1>2, <1>3, <1>4, <1>5, <1>6, <1>7 DEF Next

\* DANGER readings of a window under the default threshold, among the first n records.
CountOf(n, e) == Cardinality(Backing(ReadingsIn(n), e, DefaultDanger))

Whole(e) == CountOf(Len(raw), e)

SustainedEnds == {e \in Ends : Whole(e) >= MinBreaches}

\* No dedup entry expired, no threshold was applied and no reading is late.
Steady == expiries = 0 /\ ~reconfigured /\ InTime(Len(raw))

\* A job that has read n records has fired the window.
Fired(n, windows, e) == windows[e] = 0 /\ CountOf(n, e) # 0

\* A window lacks a reading only after it is closed, and windows fire in the
\* order of their ends.
InOrder(n, windows) ==
  /\ \A e \in Ends : windows[e] = CountOf(n, e) \/ (windows[e] = 0 /\ Closed(e, n))
  /\ \A a, b \in Ends : Fired(n, windows, a) /\ Whole(b) # 0 /\ ~Fired(n, windows, b) => a < b

\* What the cooldown makes of the sustained windows up to the last alert.
Greedy(A) == \A a \in A : a \in SustainedEnds /\ \A s \in SustainedEnds : s < a => Answered(s, A)

\* The cooldown state is the last of the alerts A that the job has fired.
Latest(n, windows, last, A) == \A a \in A : Fired(n, windows, a) => last # 0 /\ a <= last

Recalled(n, windows, last, A) ==
  /\ last # 0 => last \in A /\ Fired(n, windows, last)
  /\ \A s \in SustainedEnds : Fired(n, windows, s) => Answered(s, A)

\* Alerts on their way are in order, and of windows the job has fired.
SentInOrder(buffer, n, windows) ==
  /\ \A i, j \in 1..Len(buffer) : i < j => buffer[i] < buffer[j]
  /\ \A i \in 1..Len(buffer) : Fired(n, windows, buffer[i])

\* A job that knows these readings and has this state, when A has been alerted.
Current(known, n, windows, last, buffer, A) ==
  /\ known = ReadingsIn(n) /\ InOrder(n, windows) /\ SentInOrder(buffer, n, windows)
  /\ Greedy(A) /\ Apart(A)
  /\ Latest(n, windows, last, A) /\ Recalled(n, windows, last, A)

\* A checkpoint, when A has been alerted and D of that is on radiation.alerts.
Durable(s, A, D) ==
  /\ s.seen = ReadingsIn(s.read) /\ InOrder(s.read, s.breaches)
  /\ Greedy(D)
  /\ Latest(s.read, s.breaches, s.lastEnd, A) /\ Recalled(s.read, s.breaches, s.lastEnd, D)

Ahead(s, n, windows) == \A e \in Ends : Fired(s.read, s.breaches, e) => Fired(n, windows, e)

Repeating ==
  Steady =>
    /\ Current(seen, read, breaches, lastEnd, alertBuffer, Alerts)
    /\ Durable(saved, Alerts, alerts)
    /\ Ahead(saved, read, breaches)

LEMMA CountsGrow ==
  ASSUME Typed, NEW n \in 0..Len(raw), NEW e
  PROVE  CountOf(n, e) \in Nat /\ Whole(e) \in Nat /\ CountOf(n, e) <= Whole(e)
<1>1. raw \in Seq(Readings \union {Junk, Poison})
  BY DEF Typed, TypeOK
<1>2. Len(raw) \in 0..Len(raw)
  BY <1>1, LenProperties
<1>3. /\ IsFiniteSet(ReadingsIn(n)) /\ IsFiniteSet(ReadingsIn(Len(raw)))
      /\ ReadingsIn(n) \subseteq ReadingsIn(Len(raw))
  BY <1>2, PrefixReadings
<1> QED BY <1>3, BackingCounts DEF CountOf, Whole

\* A window that is closed has all its readings.
LEMMA ClosedIsWhole ==
  ASSUME Typed, InTime(Len(raw)), NEW n \in 0..Len(raw), NEW e \in Ends, Closed(e, n)
  PROVE  CountOf(n, e) = Whole(e)
<1>1. raw \in Seq(Readings \union {Junk, Poison})
  BY DEF Typed, TypeOK
<1>2. Len(raw) \in 0..Len(raw) /\ Len(raw) \in Nat /\ n \in Nat
  BY <1>1, LenProperties
<1>3. PICK i \in 1..n : raw[i] \in Readings /\ raw[i].time - Delay >= e
  BY DEF Closed
<1>4. ASSUME NEW m \in Backing(ReadingsIn(Len(raw)), e, DefaultDanger)
      PROVE  m \in ReadingsIn(n)
  <2>1. m \in ReadingsIn(Len(raw)) /\ e \in EndsOf(m.time)
    BY DEF Backing
  <2>2. PICK j \in 1..Len(raw) : raw[j] = m /\ m \in Readings
    BY <1>2, <2>1, PrefixReadings
  <2>3. CASE j \in 1..n
    BY <2>2, <2>3, PrefixReadings
  <2>4. CASE ~(j \in 1..n)
    <3>1. i \in 1..Len(raw) /\ i < j
      BY <1>2, <2>4
    <3>2. raw[i].time - Delay <= m.time
      BY <1>3, <2>2, <3>1 DEF InTime
    <3>3. m \in Readings /\ e > m.time /\ m.time \in Nat /\ e \in Int
      BY <1>2, <2>1, PrefixReadings, EndsAreNumbers
    <3>4. raw[i].time \in Nat /\ Delay \in Nat
      BY <1>2, <1>3, RecordsAreReadings, AlertsAssumption
    <3> QED BY <1>3, <3>2, <3>3, <3>4
  <2> QED BY <2>3, <2>4
<1>5. ReadingsIn(n) \subseteq ReadingsIn(Len(raw))
  BY <1>2, PrefixReadings
<1>6. Backing(ReadingsIn(n), e, DefaultDanger) = Backing(ReadingsIn(Len(raw)), e, DefaultDanger)
  BY <1>4, <1>5 DEF Backing
<1> QED BY <1>6 DEF CountOf, Whole

LEMMA AcceptInOrder ==
  ASSUME Typed, Clock, Steady, seen = ReadingsIn(read), InOrder(read, breaches), Accept
  PROVE  /\ seen' = ReadingsIn(read') /\ InOrder(read', breaches')
         /\ \A e \in Ends : Fired(read', breaches', e) <=> Fired(read, breaches, e)
<1> DEFINE hit(e) == e \in EndsOf(Following.time) /\ Following.cpm >= DefaultDanger
<1>1. /\ Following \in Readings /\ Following \notin seen /\ seen' = seen \union {Following}
      /\ read' = read + 1 /\ read < Len(raw)
      /\ \A m : m \in ReadingsIn(read') <=> m \in ReadingsIn(read) \/ m = Following
      /\ \A e \in Ends : breaches'[e] =
           IF e \in EndsOf(Following.time) /\ e > watermark /\ Danger(Following)
           THEN breaches[e] + 1 ELSE breaches[e]
  BY AcceptEffect DEF Accept
<1>2. seen' = ReadingsIn(read')
  BY <1>1
<1>3. /\ read + 1 \in 0..Len(raw) /\ read \in 0..Len(raw) /\ read \in 0..(read + 1)
      /\ Len(raw) \in 0..Len(raw)
  <2>1. raw \in Seq(Readings \union {Junk, Poison})
    BY DEF Typed, TypeOK
  <2> QED BY <1>1, <2>1, ReadBounds, LenProperties
<1>4. InTime(read + 1)
  BY <1>3, InTimeBefore DEF Steady
<1>5. \A e \in Ends : e \in Int /\ e > 0 /\ breaches[e] \in Nat /\ CountOf(read, e) \in Nat
  BY <1>3, EndsAreNumbers, CountsGrow DEF Typed, TypeOK
<1>6. \A e \in Ends : Closed(e, read) => Closed(e, read + 1) /\ e \notin EndsOf(Following.time)
  BY <1>1, <1>3, <1>4, <1>5, ClosedStays, NoLateReading
<1>7. ASSUME NEW e \in Ends, e \in EndsOf(Following.time) PROVE e > watermark
  <2>1. SUFFICES ASSUME e <= watermark PROVE Closed(e, read)
    BY <1>5, <1>6, <1>7 DEF Typed, TypeOK
  <2>2. watermark \in Int /\ watermark # 0
    BY <1>5, <2>1 DEF Typed, TypeOK
  <2> QED BY <1>3, <1>5, <2>1, <2>2, ClosedStays, ReadBounds DEF Clock
<1>8. Danger(Following) <=> Following.cpm >= DefaultDanger
  <2>1. configured = 0
    BY DEF Steady, Typed
  <2> QED BY <1>1, <2>1, ThresholdsInForce
<1>9. ASSUME NEW e \in Ends
      PROVE  /\ breaches'[e] = CountOf(read', e) \/ (breaches'[e] = 0 /\ Closed(e, read'))
             /\ Fired(read', breaches', e) <=> Fired(read, breaches, e)
  <2> DEFINE b == breaches[e]
             c == CountOf(read, e)
             d == CountOf(read', e)
  <2>1. d = IF hit(e) THEN c + 1 ELSE c
    <3>1. ReadingsIn(read') = ReadingsIn(read) \union {Following} /\ Following \notin ReadingsIn(read)
          /\ IsFiniteSet(ReadingsIn(read))
      BY <1>1, <1>3, PrefixReadings
    <3> QED BY <3>1, BackingCounts DEF CountOf
  <2>2. breaches'[e] = IF hit(e) THEN b + 1 ELSE b
    BY <1>1, <1>7, <1>8
  <2>3. b = c \/ (b = 0 /\ Closed(e, read))
    BY DEF InOrder
  <2>4. b \in Nat /\ c \in Nat
    BY <1>5
  <2>5. CASE hit(e)
    <3>1. b = c
      BY <1>6, <2>3, <2>5
    <3>2. breaches'[e] = d /\ breaches'[e] # 0 /\ ~(b = 0 /\ c # 0)
      <4> HIDE DEF b, c, d
      <4> QED BY <2>1, <2>2, <2>4, <2>5, <3>1
    <3> QED BY <3>2 DEF Fired
  <2>6. CASE ~hit(e)
    <3>1. breaches'[e] = b /\ d = c
      BY <2>1, <2>2, <2>6
    <3> QED BY <1>1, <1>6, <2>3, <3>1 DEF Fired
  <2> QED BY <2>5, <2>6
<1>10. InOrder(read', breaches')
  BY <1>9 DEF InOrder
<1> QED BY <1>2, <1>9, <1>10

LEMMA FireInOrder ==
  ASSUME Typed, Clock, Steady, InOrder(read, breaches), NEW e \in Ends, e <= watermark,
         breaches[e] > 0, \A d \in Due : e <= d, breaches'[e] = 0,
         \A d \in Ends : d # e => breaches'[d] = breaches[d]
  PROVE  /\ InOrder(read, breaches')
         /\ \A d \in Ends : Fired(read, breaches', d) <=> Fired(read, breaches, d) \/ d = e
         /\ breaches[e] = Whole(e)
         /\ \A d \in Ends : Fired(read, breaches, d) => d < e
<1>1. /\ \A d \in Ends : d \in Int /\ d > 0 /\ breaches[d] \in Nat
      /\ watermark \in Int /\ read \in 0..Len(raw) /\ read \in 0..read
  BY EndsAreNumbers, ReadBounds DEF Typed, TypeOK
<1>2. Closed(e, read)
  BY <1>1, ClosedStays DEF Clock
<1>3. breaches[e] = CountOf(read, e)
  BY <1>1 DEF InOrder
<1>4. breaches[e] = Whole(e)
  BY <1>1, <1>2, <1>3, ClosedIsWhole DEF Steady
<1>5. ~Fired(read, breaches, e) /\ Fired(read, breaches', e) /\ Whole(e) # 0
  BY <1>1, <1>3, <1>4 DEF Fired
<1>6. \A d \in Ends : Fired(read, breaches', d) <=> Fired(read, breaches, d) \/ d = e
  BY <1>5 DEF Fired
<1>7. \A d \in Ends : Fired(read, breaches, d) => d < e
  BY <1>5 DEF InOrder
<1>8. ASSUME NEW b \in Ends, Whole(b) # 0, ~Fired(read, breaches', b) PROVE e < b
  <2>1. b # e /\ ~Fired(read, breaches, b)
    BY <1>6, <1>8
  <2>2. CASE breaches[b] > 0
    <3>1. b \in Due \/ b > watermark
      BY <1>1, <2>2 DEF Due
    <3> QED BY <1>1, <2>1, <3>1
  <2>3. CASE ~(breaches[b] > 0)
    <3>1. CountOf(read, b) = 0
      BY <1>1, <2>1, <2>3 DEF Fired
    <3>2. ~Closed(b, read)
      BY <1>1, <1>8, <3>1, ClosedIsWhole DEF Steady
    <3>3. ~(b <= e)
      BY <1>1, <1>2, <3>2, ClosedStays
    <3> QED BY <1>1, <3>3
  <2> QED BY <2>2, <2>3
<1>9. InOrder(read, breaches')
  <2>1. \A d \in Ends : breaches'[d] = CountOf(read, d) \/ (breaches'[d] = 0 /\ Closed(d, read))
    BY <1>2 DEF InOrder
  <2>2. ASSUME NEW a \in Ends, NEW b \in Ends, Fired(read, breaches', a), Whole(b) # 0,
               ~Fired(read, breaches', b)
        PROVE  a < b
    <3>1. e < b
      BY <1>8, <2>2
    <3>2. a = e \/ a < e
      BY <1>6, <1>7, <2>2
    <3> QED BY <1>1, <3>1, <3>2
  <2> QED BY <2>1, <2>2 DEF InOrder
<1> QED BY <1>4, <1>6, <1>7, <1>9
LEMMA AlertsAreEnds ==
  ASSUME Typed
  PROVE  Alerts \subseteq Ends /\ alerts \subseteq Alerts
<1>1. Range(alertBuffer) \subseteq Ends
  BY RangeElements DEF Typed, TypeOK
<1> QED BY <1>1 DEF Typed, TypeOK, Alerts

\* A window fires after every sustained window that ends before it, here and in
\* the run that sent the alerts, so what the cooldown decides is the same.
LEMMA FireGreedy ==
  ASSUME Typed, Clock, Steady, InOrder(read, breaches),
         Greedy(Alerts), Apart(Alerts),
         Latest(read, breaches, lastEnd, Alerts), Recalled(read, breaches, lastEnd, Alerts),
         NEW e \in Ends, e <= watermark,
         breaches[e] > 0, \A d \in Due : e <= d, breaches'[e] = 0,
         \A d \in Ends : d # e => breaches'[d] = breaches[d],
         Alerted(e) \/ Unalerted(e)
  PROVE  /\ Greedy(Alerts') /\ Apart(Alerts')
         /\ Latest(read, breaches', lastEnd', Alerts')
         /\ Recalled(read, breaches', lastEnd', Alerts')
<1>1. /\ \A d \in Ends : d \in Int /\ d > 0
      /\ Alerts \subseteq Ends /\ SustainedEnds \subseteq Ends /\ Cooldown \in Nat
  BY EndsAreNumbers, AlertsAreEnds, AlertsAssumption DEF SustainedEnds
<1>2. /\ InOrder(read, breaches')
      /\ \A d \in Ends : Fired(read, breaches', d) <=> Fired(read, breaches, d) \/ d = e
      /\ breaches[e] = Whole(e)
      /\ \A d \in Ends : Fired(read, breaches, d) => d < e
  BY FireInOrder
<1>3. Sustained(e) <=> e \in SustainedEnds
  BY <1>2 DEF Sustained, SustainedEnds
<1>4. ASSUME NEW s \in SustainedEnds, s < e PROVE Fired(read, breaches, s)
  <2>1. Whole(s) # 0
    <3>1. Whole(s) >= MinBreaches /\ MinBreaches \in Nat \ {0}
      BY AlertsAssumption DEF SustainedEnds
    <3>2. Whole(s) \in Nat
      BY ReadBounds, CountsGrow
    <3> QED BY <3>1, <3>2
  <2>2. s \in Ends /\ s \in Int /\ e \in Int
    BY <1>1
  <2>3. ~Fired(read, breaches', s) => e < s
    BY <1>2, <2>1, <2>2 DEF InOrder
  <2> QED BY <1>2, <1>4, <2>2, <2>3
<1>5. /\ \A a \in Alerts : a \in SustainedEnds
      /\ \A a \in Alerts : a < e => lastEnd # 0 /\ a <= lastEnd
      /\ lastEnd # 0 => lastEnd \in Alerts /\ lastEnd < e /\ lastEnd \in Int
  <2>1. \A a \in Alerts : a \in SustainedEnds
    BY DEF Greedy
  <2>2. \A a \in Alerts : a < e => lastEnd # 0 /\ a <= lastEnd
    BY <1>4, <2>1 DEF Latest
  <2>3. lastEnd # 0 => lastEnd \in Alerts /\ Fired(read, breaches, lastEnd)
    BY DEF Recalled
  <2> QED BY <1>1, <1>2, <2>1, <2>2, <2>3
<1>6. CASE Unalerted(e)
  <2>1. lastEnd' = lastEnd /\ Alerts' = Alerts
    BY <1>6 DEF Unalerted
  <2>2. e \in SustainedEnds => lastEnd # 0 /\ e - lastEnd < Cooldown
    BY <1>3, <1>6 DEF Unalerted, CoolingDown
  <2>3. e \notin Alerts
    <3> SUFFICES ASSUME e \in Alerts PROVE FALSE
      OBVIOUS
    <3>1. lastEnd # 0 /\ e - lastEnd < Cooldown
      BY <1>5, <2>2
    <3>2. e - lastEnd >= Cooldown
      BY <1>5, <3>1 DEF Apart
    <3> QED BY <1>1, <1>5, <3>1, <3>2
  <2>4. Latest(read, breaches', lastEnd', Alerts')
    BY <1>1, <1>2, <2>1, <2>3 DEF Latest
  <2>5. e \in SustainedEnds => Answered(e, Alerts)
    BY <1>5, <2>2 DEF Answered
  <2>6. Recalled(read, breaches', lastEnd', Alerts')
    <3>1. /\ lastEnd # 0 => lastEnd \in Alerts /\ Fired(read, breaches, lastEnd)
          /\ \A s \in SustainedEnds : Fired(read, breaches, s) => Answered(s, Alerts)
      BY DEF Recalled
    <3>2. lastEnd # 0 => Fired(read, breaches', lastEnd)
      BY <1>1, <1>2, <3>1
    <3>3. \A s \in SustainedEnds : Fired(read, breaches', s) => Answered(s, Alerts)
      BY <1>1, <1>2, <2>5, <3>1
    <3> QED BY <2>1, <3>1, <3>2, <3>3 DEF Recalled
  <2> QED BY <2>1, <2>4, <2>6
<1>7. CASE Alerted(e)
  <2>1. lastEnd' = e /\ Alerts' = Alerts \union {e} /\ e \in SustainedEnds
    BY <1>3, <1>7 DEF Alerted
  <2>2. lastEnd = 0 \/ e - lastEnd >= Cooldown
    <3>1. e \in Int /\ (lastEnd # 0 => lastEnd \in Int)
      BY <1>1, <1>5
    <3> QED BY <1>1, <1>7, <3>1 DEF Alerted, CoolingDown
  <2>3. \A s : Answered(s, Alerts) => Answered(s, Alerts')
    BY <2>1 DEF Answered
  <2>4. Answered(e, Alerts')
    BY <2>1 DEF Answered
  <2>5. Latest(read, breaches', lastEnd', Alerts')
    <3>1. \A a \in Alerts' : Fired(read, breaches', a) => a <= e
      BY <1>1, <1>2, <2>1
    <3>2. e # 0
      BY <1>1
    <3> QED BY <2>1, <3>1, <3>2 DEF Latest
  <2>6. Recalled(read, breaches', lastEnd', Alerts')
    <3>1. \A s \in SustainedEnds : Fired(read, breaches', s) => Answered(s, Alerts')
      BY <1>1, <1>2, <2>3, <2>4 DEF Recalled
    <3>2. Fired(read, breaches', e)
      BY <1>2
    <3> QED BY <2>1, <3>1, <3>2 DEF Recalled
  <2>7. \A g \in Alerts : g < e => e - g >= Cooldown
    <3> SUFFICES ASSUME NEW g \in Alerts, g < e PROVE e - g >= Cooldown
      OBVIOUS
    <3>1. lastEnd # 0 /\ g <= lastEnd /\ lastEnd \in Int
      BY <1>5
    <3> QED BY <1>1, <2>2, <3>1
  <2>8. \A b \in Alerts : e < b => b - e >= Cooldown
    <3> SUFFICES ASSUME NEW b \in Alerts, e < b PROVE b - e >= Cooldown
      OBVIOUS
    <3>1. Answered(e, Alerts)
      BY <2>1 DEF Greedy
    <3>2. e \in Alerts
      <4>1. PICK g \in Alerts : g = e \/ (g < e /\ e - g < Cooldown)
        BY <3>1 DEF Answered
      <4>2. ~(g < e /\ e - g < Cooldown)
        BY <1>1, <2>7
      <4> QED BY <4>1, <4>2
    <3> QED BY <3>2 DEF Apart
  <2>9. Apart(Alerts')
    <3> SUFFICES ASSUME NEW a \in Alerts', NEW b \in Alerts', a < b PROVE b - a >= Cooldown
      BY DEF Apart
    <3>1. ~(a = e /\ b = e)
      BY <1>1
    <3> QED BY <2>1, <2>7, <2>8, <3>1 DEF Apart
  <2>10. Greedy(Alerts')
    <3>1. \A s \in SustainedEnds : s < e => Answered(s, Alerts')
      BY <1>4, <2>3 DEF Recalled
    <3> QED BY <2>1, <2>3, <3>1 DEF Greedy
  <2> QED BY <2>5, <2>6, <2>9, <2>10
<1> QED BY <1>6, <1>7
LEMMA FireSends ==
  ASSUME Typed, SentInOrder(alertBuffer, read, breaches), NEW e \in Ends,
         \A d \in Ends : Fired(read, breaches', d) <=> Fired(read, breaches, d) \/ d = e,
         \A d \in Ends : Fired(read, breaches, d) => d < e,
         Alerted(e) \/ Unalerted(e)
  PROVE  SentInOrder(alertBuffer', read, breaches')
<1>1. alertBuffer \in Seq(Ends)
  BY DEF Typed, TypeOK
<1>2. Len(alertBuffer) \in Nat /\ \A i \in 1..Len(alertBuffer) : alertBuffer[i] \in Ends
  BY <1>1, LenProperties, ElementOfSeq
<1>3. /\ \A i, j \in 1..Len(alertBuffer) : i < j => alertBuffer[i] < alertBuffer[j]
      /\ \A i \in 1..Len(alertBuffer) : Fired(read, breaches, alertBuffer[i])
  BY DEF SentInOrder
<1>4. CASE Unalerted(e)
  <2>1. alertBuffer' = alertBuffer
    BY <1>4 DEF Unalerted
  <2> QED BY <1>2, <1>3, <2>1 DEF SentInOrder
<1>5. CASE Alerted(e)
  <2> DEFINE b == Append(alertBuffer, e)
             n == Len(alertBuffer)
  <2>1. /\ alertBuffer' = b /\ Len(b) = n + 1 /\ n \in Nat
        /\ \A i \in 1..n : b[i] = alertBuffer[i]
        /\ b[n + 1] = e
    BY <1>1, <1>2, <1>5, AppendProperties DEF Alerted
  <2> HIDE DEF b, n
  <2>2. \A i \in 1..(n + 1) : i \in 1..n \/ i = n + 1
    BY <2>1
  <2>3. \A i \in 1..n : b[i] \in Ends /\ Fired(read, breaches, b[i]) /\ b[i] < e
    BY <1>2, <1>3, <2>1 DEF n
  <2>4. \A i, j \in 1..n : i < j => b[i] < b[j]
    BY <1>3, <2>1 DEF n
  <2>5. \A i, j \in 1..(n + 1) : i < j => b[i] < b[j]
    <3> SUFFICES ASSUME NEW i \in 1..(n + 1), NEW j \in 1..(n + 1), i < j PROVE b[i] < b[j]
      OBVIOUS
    <3>1. i \in 1..n
      BY <2>1
    <3> QED BY <2>1, <2>2, <2>3, <2>4, <3>1
  <2>6. \A i \in 1..(n + 1) : Fired(read, breaches', b[i])
    BY <2>1, <2>2, <2>3
  <2> QED BY <2>1, <2>5, <2>6 DEF SentInOrder
<1> QED BY <1>4, <1>5

\* An acknowledged alert does not overtake the one that answers for a window.
LEMMA AcknowledgeGreedy ==
  ASSUME Typed, Greedy(alerts), Greedy(Alerts), SentInOrder(alertBuffer, read, breaches),
         alertBuffer # <<>>
  PROVE  /\ Greedy(alerts \union {Head(alertBuffer)})
         /\ SentInOrder(Tail(alertBuffer), read, breaches)
<1> DEFINE h == Head(alertBuffer)
           t == Tail(alertBuffer)
           n == Len(alertBuffer)
<1>1. alertBuffer \in Seq(Ends)
  BY DEF Typed, TypeOK
<1>2. /\ n \in Nat /\ n > 0 /\ \A i \in 1..n : alertBuffer[i] \in Ends
      /\ h = alertBuffer[1] /\ Len(t) = n - 1
      /\ \A i \in 1..Len(t) : t[i] = alertBuffer[i + 1]
  BY <1>1, LenProperties, ElementOfSeq, EmptySeq, HeadTailProperties
<1>3. /\ \A i, j \in 1..n : i < j => alertBuffer[i] < alertBuffer[j]
      /\ \A i \in 1..n : Fired(read, breaches, alertBuffer[i])
  BY DEF SentInOrder
<1>4. \A x : x \in Range(alertBuffer) <=> \E i \in 1..n : alertBuffer[i] = x
  BY <1>1, RangeElements
<1> HIDE DEF h, t, n
<1>5. 1 \in 1..n /\ \A i \in 1..n : i = 1 \/ 1 < i
  BY <1>2
<1>6. \A x \in Range(alertBuffer) : x = h \/ h < x
  BY <1>2, <1>3, <1>4, <1>5
<1>7. SentInOrder(t, read, breaches)
  <2>1. \A i \in 1..(n - 1) : i + 1 \in 1..n
    BY <1>2
  <2>2. \A i, j \in 1..(n - 1) : i < j => i + 1 < j + 1
    BY <1>2
  <2> QED BY <1>2, <1>3, <2>1, <2>2 DEF SentInOrder
<1>8. h \in Alerts /\ h \in Ends
  BY <1>2, <1>4, <1>5 DEF Alerts
<1>9. \A d \in Ends : d \in Int
  BY EndsAreNumbers
<1>10. ASSUME NEW s \in SustainedEnds, s < h PROVE Answered(s, alerts)
  <2>1. Answered(s, Alerts)
    BY <1>8, <1>10 DEF Greedy
  <2>2. PICK g \in Alerts : g = s \/ (g < s /\ s - g < Cooldown)
    BY <2>1 DEF Answered
  <2>3. g \in Int /\ s \in Int /\ h \in Int
    BY <1>8, <1>9, AlertsAreEnds DEF SustainedEnds
  <2>4. g < h
    BY <1>10, <2>2, <2>3
  <2>5. g \notin Range(alertBuffer)
    BY <1>6, <2>3, <2>4
  <2> QED BY <2>2, <2>5 DEF Alerts, Answered
<1>11. \A s : Answered(s, alerts) => Answered(s, alerts \union {h})
  BY DEF Answered
<1>12. h \in SustainedEnds
  BY <1>8 DEF Greedy
<1>13. Greedy(alerts \union {h})
  BY <1>10, <1>11, <1>12 DEF Greedy
<1> QED BY <1>7, <1>13 DEF h, t
LEMMA NothingSent == \A n, w : SentInOrder(<<>>, n, w)
<1>1. Len(<<>>) = 0
  OBVIOUS
<1> QED BY <1>1 DEF SentInOrder

SameFired(n, windows) ==
  \A e \in Ends : Fired(n, windows, e) <=> Fired(read, breaches, e)

\* A record that fires no window.
LEMMA CurrentMoves ==
  ASSUME Typed, Current(seen, read, breaches, lastEnd, alertBuffer, Alerts),
         Ahead(saved, read, breaches),
         NEW known, NEW n, NEW windows, SameFired(n, windows),
         known = ReadingsIn(n), InOrder(n, windows)
  PROVE  /\ Current(known, n, windows, lastEnd, alertBuffer, Alerts)
         /\ Ahead(saved, n, windows)
<1>1. /\ Alerts \subseteq Ends /\ SustainedEnds \subseteq Ends
      /\ lastEnd # 0 => lastEnd \in Ends
  BY AlertsAreEnds DEF SustainedEnds, Typed, TypeOK
<1>2. Latest(n, windows, lastEnd, Alerts)
  BY <1>1 DEF Current, Latest, SameFired
<1>3. Recalled(n, windows, lastEnd, Alerts)
  BY <1>1 DEF Current, Recalled, SameFired
<1>4. SentInOrder(alertBuffer, n, windows)
  <2>1. \A i \in 1..Len(alertBuffer) : alertBuffer[i] \in Ends
    BY ElementOfSeq DEF Typed, TypeOK
  <2> QED BY <2>1 DEF Current, SentInOrder, SameFired
<1>5. Ahead(saved, n, windows)
  BY DEF Ahead, SameFired
<1> QED BY <1>2, <1>3, <1>4, <1>5 DEF Current

LEMMA InitRepeating == Init /\ Typed => Repeating
<1> SUFFICES ASSUME Init, Typed PROVE Repeating
  OBVIOUS
<1>1. /\ read = 0 /\ seen = {} /\ lastEnd = 0 /\ saved.read = 0 /\ saved.seen = {}
      /\ saved.lastEnd = 0 /\ alerts = {} /\ alertBuffer = <<>>
      /\ \A e \in Ends : breaches[e] = 0 /\ saved.breaches[e] = 0
  BY DEF Init, Fresh
<1>2. ReadingsIn(0) = {}
  BY DEF ReadingsIn
<1>3. \A e : CountOf(0, e) = 0
  <2>1. \A e : Backing(ReadingsIn(0), e, DefaultDanger) = {}
    BY <1>2 DEF Backing
  <2> QED BY <2>1, FS_EmptySet DEF CountOf
<1>4. Alerts = {}
  BY <1>1, RangeEmpty DEF Alerts
<1>5. /\ \A w, e : ~Fired(0, w, e)
      /\ InOrder(0, breaches) /\ InOrder(0, saved.breaches)
  BY <1>1, <1>3 DEF InOrder, Fired
<1>6. /\ Greedy({}) /\ Apart({})
      /\ \A w : Latest(0, w, 0, {}) /\ Recalled(0, w, 0, {})
  BY <1>5 DEF Greedy, Apart, Latest, Recalled
<1>7. SentInOrder(<<>>, 0, breaches)
  BY NothingSent
<1> QED BY <1>1, <1>2, <1>4, <1>5, <1>6, <1>7 DEF Repeating, Current, Durable, Ahead

LEMMA NextRepeating ==
  Typed /\ Typed' /\ Clock /\ Repeating /\ [Next]_vars => Repeating'
<1> SUFFICES ASSUME Typed, Typed', Clock, Repeating, [Next]_vars PROVE Repeating'
  OBVIOUS
<1>1. raw' = raw /\ (expiries' = 0 => expiries = 0) /\ (~reconfigured' => ~reconfigured)
  <2>1. expiries \in Nat
    BY DEF Typed
  <2> QED BY <2>1 DEF Next, vars, Configure, Drop, Accept, EmitWatermark, Fire, Acknowledge,
                      Checkpoint, Restore, Expire
<1>2. Steady' => Steady
  BY <1>1 DEF Steady, InTime
<1>3. SUFFICES ASSUME Steady, expiries' = 0
      PROVE  /\ Current(seen', read', breaches', lastEnd', alertBuffer', Alerts')
             /\ Durable(saved', Alerts', alerts') /\ Ahead(saved', read', breaches')
  <2>1. Current(seen, read, breaches, lastEnd, alertBuffer, Alerts)'
           = Current(seen', read', breaches', lastEnd', alertBuffer', Alerts')
    BY <1>1 DEF Current, InOrder, SentInOrder, Greedy, Apart, Latest, Recalled, Fired, Whole,
                CountOf, Backing, ReadingsIn, SustainedEnds, Closed, Answered, Alerts, Range
  <2>2. Durable(saved, Alerts, alerts)' = Durable(saved', Alerts', alerts')
    BY <1>1 DEF Durable, InOrder, Greedy, Latest, Recalled, Fired, Whole,
                CountOf, Backing, ReadingsIn, SustainedEnds, Closed, Answered, Alerts, Range
  <2>3. Ahead(saved, read, breaches)' = Ahead(saved', read', breaches')
    BY <1>1 DEF Ahead, Fired, CountOf, Backing, ReadingsIn
  <2>4. Steady' => expiries' = 0
    BY DEF Steady
  <2> QED BY <1>2, <2>1, <2>2, <2>3, <2>4 DEF Repeating
<1>4. /\ Current(seen, read, breaches, lastEnd, alertBuffer, Alerts)
      /\ Durable(saved, Alerts, alerts) /\ Ahead(saved, read, breaches)
  BY <1>3 DEF Repeating
<1>5. Alerts \subseteq Ends /\ alerts \subseteq Alerts
  BY AlertsAreEnds
<1>6. CASE Accept
  <2>1. /\ seen' = ReadingsIn(read') /\ InOrder(read', breaches')
        /\ \A e \in Ends : Fired(read', breaches', e) <=> Fired(read, breaches, e)
    BY <1>3, <1>4, <1>6, AcceptInOrder DEF Current
  <2>2. UNCHANGED <<lastEnd, saved, alertBuffer, alerts>> /\ Alerts' = Alerts
    BY <1>6, AcceptEffect
  <2>3. SameFired(read', breaches')
    BY <2>1 DEF SameFired
  <2> QED BY <1>4, <2>1, <2>2, <2>3, CurrentMoves
<1>7. CASE Drop
  <2>1. /\ read' = read + 1 /\ UNCHANGED <<seen, breaches, lastEnd, saved, alertBuffer, alerts>>
        /\ Alerts' = Alerts /\ read < Len(raw) /\ read + 1 \in 0..Len(raw)
        /\ read \in 0..(read + 1) /\ read \in 0..Len(raw)
    BY <1>7, OtherEffect, ReadBounds DEF Drop
  <2>2. ReadingsIn(read + 1) = ReadingsIn(read)
    <3>1. Following = Junk \/ Following \in ReadingsIn(read)
      BY <1>4, <1>7 DEF Drop, Duplicate, Current
    <3> QED BY <2>1, <3>1, NextReading, AlertsAssumption
  <2>3. \A e : CountOf(read + 1, e) = CountOf(read, e)
    BY <2>2 DEF CountOf
  <2>4. \A e \in Ends : Closed(e, read) => Closed(e, read + 1)
    BY <2>1, EndsAreNumbers, ClosedStays
  <2>5. SameFired(read + 1, breaches)
    BY <2>3 DEF Fired, SameFired
  <2>6. InOrder(read + 1, breaches)
    BY <1>4, <2>3, <2>4 DEF InOrder, Current, Fired
  <2>7. seen = ReadingsIn(read + 1)
    BY <1>4, <2>2 DEF Current
  <2> QED BY <1>4, <2>1, <2>5, <2>6, <2>7, CurrentMoves
<1>8. CASE Fire
  <2>1. PICK e \in Ends :
          /\ e <= watermark /\ breaches[e] > 0 /\ \A d \in Due : e <= d
          /\ breaches'[e] = 0 /\ \A d \in Ends : d # e => breaches'[d] = breaches[d]
          /\ Alerted(e) \/ Unalerted(e)
          /\ UNCHANGED <<read, seen, saved, alerts>>
    BY <1>8, FireEffect
  <2>2. /\ InOrder(read, breaches')
        /\ \A d \in Ends : Fired(read, breaches', d) <=> Fired(read, breaches, d) \/ d = e
        /\ \A d \in Ends : Fired(read, breaches, d) => d < e
    BY <1>3, <1>4, <2>1, FireInOrder DEF Current
  <2>3. /\ Greedy(Alerts') /\ Apart(Alerts')
        /\ Latest(read, breaches', lastEnd', Alerts')
        /\ Recalled(read, breaches', lastEnd', Alerts')
    BY <1>3, <1>4, <2>1, FireGreedy DEF Current
  <2>4. SentInOrder(alertBuffer', read, breaches')
    BY <1>4, <2>1, <2>2, FireSends DEF Current
  <2>5. Current(seen', read', breaches', lastEnd', alertBuffer', Alerts')
    BY <1>4, <2>1, <2>2, <2>3, <2>4 DEF Current
  <2>6. ~Fired(saved.read, saved.breaches, e)
    <3>1. ~(e < e)
      BY EndsAreNumbers
    <3> QED BY <1>4, <2>2, <3>1 DEF Ahead
  <2>7. Latest(saved.read, saved.breaches, saved.lastEnd, Alerts')
    BY <1>4, <2>1, <2>6 DEF Durable, Latest, Alerted, Unalerted
  <2>8. Durable(saved', Alerts', alerts')
    BY <1>4, <2>1, <2>7 DEF Durable
  <2>9. Ahead(saved', read', breaches')
    BY <1>4, <2>1, <2>2 DEF Ahead
  <2> QED BY <2>5, <2>8, <2>9
<1>9. CASE Acknowledge
  <2>1. /\ UNCHANGED <<read, seen, breaches, lastEnd, saved>>
        /\ Alerts' = Alerts /\ alerts \subseteq alerts'
        /\ \/ UNCHANGED <<alerts, alertBuffer>>
           \/ /\ alertBuffer # <<>>
              /\ alerts' = alerts \union {Head(alertBuffer)} /\ alertBuffer' = Tail(alertBuffer)
    BY <1>9, AcknowledgeEffect
  <2>2. Greedy(alerts') /\ SentInOrder(alertBuffer', read, breaches)
    BY <1>4, <2>1, AcknowledgeGreedy DEF Current, Durable
  <2>3. \A s : Answered(s, alerts) => Answered(s, alerts')
    BY <2>1 DEF Answered
  <2>4. Recalled(saved.read, saved.breaches, saved.lastEnd, alerts')
    BY <1>4, <2>1, <2>3 DEF Durable, Recalled
  <2>5. Durable(saved', Alerts', alerts')
    BY <1>4, <2>1, <2>2, <2>4 DEF Durable
  <2>6. Current(seen', read', breaches', lastEnd', alertBuffer', Alerts')
    BY <1>4, <2>1, <2>2 DEF Current
  <2> QED BY <1>4, <2>1, <2>5, <2>6
<1>10. CASE Checkpoint
  <2> DEFINE s == [read |-> read, configured |-> configured, seen |-> seen,
                   breaches |-> breaches, lastEnd |-> lastEnd]
  <2>1. /\ saved' = s /\ alerts' = Alerts /\ Alerts' = Alerts /\ alertBuffer' = <<>>
        /\ UNCHANGED <<read, seen, breaches, lastEnd>>
    BY <1>10, CheckpointEffect
  <2>2. s.read = read /\ s.seen = seen /\ s.breaches = breaches /\ s.lastEnd = lastEnd
    OBVIOUS
  <2> HIDE DEF s
  <2>3. Durable(s, Alerts, Alerts) /\ Ahead(s, read, breaches)
    BY <1>4, <2>2 DEF Current, Durable, Ahead
  <2>4. Current(seen, read, breaches, lastEnd, <<>>, Alerts)
    BY <1>4, NothingSent DEF Current
  <2> QED BY <2>1, <2>3, <2>4
<1>11. CASE Restore
  <2>1. /\ read' = saved.read /\ seen' = saved.seen /\ breaches' = saved.breaches
        /\ lastEnd' = saved.lastEnd /\ saved' = saved /\ alerts' = alerts
        /\ Alerts' = alerts /\ alertBuffer' = <<>>
    BY <1>11, RestoreEffect
  <2>2. Latest(saved.read, saved.breaches, saved.lastEnd, alerts) /\ Apart(alerts)
    BY <1>4, <1>5 DEF Durable, Current, Latest, Apart
  <2>3. Durable(saved, alerts, alerts) /\ Ahead(saved, saved.read, saved.breaches)
    BY <1>4, <2>2 DEF Durable, Ahead
  <2>4. Current(saved.seen, saved.read, saved.breaches, saved.lastEnd, <<>>, alerts)
    BY <2>2, <2>3, NothingSent DEF Durable, Current
  <2> QED BY <2>1, <2>3, <2>4
<1>12. CASE Expire
  BY <1>3, <1>12 DEF Expire, Typed
<1>13. CASE Configure \/ EmitWatermark \/ UNCHANGED vars
  <2>1. /\ UNCHANGED <<read, seen, breaches, lastEnd, saved, alertBuffer, alerts>>
        /\ Alerts' = Alerts
    BY <1>13, OtherEffect DEF Configure, EmitWatermark, vars, state
  <2> QED BY <1>4, <2>1
<1> QED BY <1>6, <1>7, <1>8, <1>9, <1>10, <1>11, <1>12, <1>13 DEF Next

\* Two alerts are a cooldown apart.  A replay keeps it so when it fires the same
\* windows: it deals with the windows in the same order, with the same contents,
\* so the cooldown lets through the alerts that were sent, and then the next ones.
THEOREM CooldownHolds == Spec => []CooldownKept
<1>1. Init => Typed /\ Clock /\ Spaced /\ Repeating
  BY InitTyped, InitAnswering, InitSpaced, InitRepeating DEF Answering
<1>2. Typed /\ Clock /\ Spaced /\ Repeating /\ [Next]_vars
        => Typed' /\ Clock' /\ Spaced' /\ Repeating'
  BY NextTyped, NextClock, NextSpaced, NextRepeating
<1>3. Typed /\ Spaced /\ Repeating => CooldownKept
  <2> SUFFICES ASSUME Typed, Spaced, Repeating, expiries = 0,
                      crashes > 0 => InTime(Len(raw)) /\ ~reconfigured
               PROVE  Apart(Alerts)
    BY DEF CooldownKept, Apart
  <2>1. CASE crashes = 0
    BY <2>1 DEF Spaced
  <2>2. CASE crashes # 0
    <3>1. crashes > 0
      BY <2>2 DEF Typed
    <3> QED BY <3>1 DEF Repeating, Steady, Current
  <2> QED BY <2>1, <2>2
<1> QED BY <1>1, <1>2, <1>3, PTL DEF Spec
====
