------------------------- MODULE DataProviderProofs -------------------------
(***************************************************************************)
(* Proofs about the data provider, for every file, every size of the       *)
(* batches, every limit of the producer and every sequence of runs,        *)
(* faults and kills.                                                       *)
(*                                                                         *)
(* The first part is about sequences and finite sets of numbers, the       *)
(* second about the batch that is read and sorted; then each property has  *)
(* its inductive invariant.                                                *)
(***************************************************************************)
EXTENDS DataProvider, SequenceTheorems, FiniteSetTheorems, TLAPS

-----------------------------------------------------------------------------
(* Finite sets of numbers *)

Under(T, R, n) == {k \in T : <<k, n>> \in R}

\* A transitive and irreflexive relation on a finite set has a minimal member:
\* what is related to a member is a finite set, and strict inclusion of finite
\* sets is well founded.
LEMMA MinimalMember ==
  ASSUME NEW T, IsFiniteSet(T), T # {}, NEW R,
         \A x \in T : <<x, x>> \notin R,
         \A x, y, z \in T : <<x, y>> \in R /\ <<y, z>> \in R => <<x, z>> \in R
  PROVE  \E n \in T : \A k \in T : <<k, n>> \notin R
<1> DEFINE Unders == {Under(T, R, n) : n \in T}
<1>1. ASSUME NEW n \in T PROVE Under(T, R, n) \in FiniteSubsetsOf(T)
  <2>1. Under(T, R, n) \in SUBSET T
    BY DEF Under
  <2>2. IsFiniteSet(Under(T, R, n))
    BY <2>1, FS_Subset
  <2> QED BY <2>1, <2>2 DEF FiniteSubsetsOf
<1>2. PICK B \in Unders : \A C \in Unders : <<C, B>> \notin StrictSubsetOrdering(T)
  <2>1. Unders \subseteq FiniteSubsetsOf(T) /\ Unders # {}
    BY <1>1
  <2> HIDE DEF Unders
  <2> QED BY <2>1, FS_StrictSubsetOrderingWellFounded, WFMin
<1>3. PICK n \in T : B = Under(T, R, n)
  BY <1>2
<1>4. ASSUME NEW k \in T, <<k, n>> \in R PROVE FALSE
  <2>1. Under(T, R, k) \subseteq Under(T, R, n)
    BY <1>4 DEF Under
  <2>2. k \in Under(T, R, n) /\ k \notin Under(T, R, k)
    BY <1>4 DEF Under
  <2>3. Under(T, R, k) \in SUBSET T /\ Under(T, R, n) \in SUBSET T
    BY DEF Under
  <2>4. <<Under(T, R, k), Under(T, R, n)>> \in StrictSubsetOrdering(T)
    BY <2>1, <2>2, <2>3 DEF StrictSubsetOrdering
  <2> QED BY <1>2, <1>3, <2>4
<1> QED BY <1>4

LEMMA MinMax ==
  ASSUME NEW T \in SUBSET Int, IsFiniteSet(T), T # {}
  PROVE  /\ Min(T) \in T /\ \A x \in T : Min(T) <= x
         /\ Max(T) \in T /\ \A x \in T : Max(T) >= x
<1> DEFINE Less == {p \in T \X T : p[1] < p[2]}
           More == {p \in T \X T : p[1] > p[2]}
<1>1. \A x, y \in T : (<<x, y>> \in Less <=> x < y) /\ (<<x, y>> \in More <=> x > y)
  OBVIOUS
<1> HIDE DEF Less, More
<1>2. \A x, y \in T : x \in Int /\ (~(x < y) => y <= x) /\ (~(x > y) => y >= x)
  OBVIOUS
<1>3. \A x, y, z \in T : (x < y /\ y < z => x < z) /\ (x > y /\ y > z => x > z)
  OBVIOUS
<1>4. \A x \in T : ~(x < x) /\ ~(x > x)
  OBVIOUS
<1>5. \E n \in T : \A x \in T : n <= x
  <2>1. /\ \A x \in T : <<x, x>> \notin Less
        /\ \A x, y, z \in T : <<x, y>> \in Less /\ <<y, z>> \in Less => <<x, z>> \in Less
    BY <1>1, <1>3, <1>4
  <2>2. PICK n \in T : \A x \in T : <<x, n>> \notin Less
    BY <2>1, MinimalMember
  <2> QED BY <1>1, <1>2, <2>2
<1>6. \E n \in T : \A x \in T : n >= x
  <2>1. /\ \A x \in T : <<x, x>> \notin More
        /\ \A x, y, z \in T : <<x, y>> \in More /\ <<y, z>> \in More => <<x, z>> \in More
    BY <1>1, <1>3, <1>4
  <2>2. PICK n \in T : \A x \in T : <<x, n>> \notin More
    BY <2>1, MinimalMember
  <2> QED BY <1>1, <1>2, <2>2
<1> QED BY <1>5, <1>6 DEF Min, Max

LEMMA MaxOfTwo ==
  ASSUME NEW x \in Int, NEW y \in Int
  PROVE  Max({x, y}) \in {x, y} /\ Max({x, y}) >= x /\ Max({x, y}) >= y
<1> DEFINE T == {x, y}
<1>1. IsFiniteSet({x}) /\ {x} \union {y} = T
  BY FS_Singleton
<1>2. IsFiniteSet(T)
  BY <1>1, FS_AddElement
<1>3. T \in SUBSET Int /\ T # {} /\ x \in T /\ y \in T
  OBVIOUS
<1>4. Max(T) \in T /\ \A z \in T : Max(T) >= z
  <2> HIDE DEF T
  <2> QED BY <1>2, <1>3, MinMax
<1> QED BY <1>3, <1>4

LEMMA RangeElements ==
  ASSUME NEW S, NEW s \in Seq(S)
  PROVE  /\ Range(s) \subseteq S /\ IsFiniteSet(Range(s))
         /\ \A x : x \in Range(s) <=> \E i \in 1..Len(s) : s[i] = x
<1>1. DOMAIN s = 1..Len(s) /\ Len(s) \in Nat /\ \A i \in 1..Len(s) : s[i] \in S
  BY LenProperties, ElementOfSeq
<1>2. Range(s) = {s[i] : i \in 1..Len(s)}
  BY <1>1 DEF Range
<1> DEFINE f == [i \in 1..Len(s) |-> s[i]]
<1>3. f \in Surjection(1..Len(s), Range(s))
  BY <1>2 DEF Surjection
<1>4. IsFiniteSet(1..Len(s))
  BY <1>1, FS_Interval
<1> HIDE DEF f
<1> QED BY <1>1, <1>2, <1>3, <1>4, FS_Surjection

LEMMA RangeAppend ==
  ASSUME NEW S, NEW s \in Seq(S), NEW e \in S
  PROVE  Append(s, e) \in Seq(S) /\ Range(Append(s, e)) = Range(s) \union {e}
<1> DEFINE t == Append(s, e)
<1>1. /\ t \in Seq(S) /\ Len(t) = Len(s) + 1 /\ Len(s) \in Nat
      /\ \A i \in 1..Len(s) : t[i] = s[i]
      /\ t[Len(s) + 1] = e
  BY LenProperties, AppendProperties
<1> HIDE DEF t
<1>2. /\ \A x : x \in Range(s) <=> \E i \in 1..Len(s) : s[i] = x
      /\ \A x : x \in Range(t) <=> \E i \in 1..Len(s) + 1 : t[i] = x
  BY <1>1, RangeElements
<1>3. \A i : i \in 1..Len(s) + 1 <=> i \in 1..Len(s) \/ i = Len(s) + 1
  BY <1>1
<1>4. Range(t) = Range(s) \union {e}
  BY <1>1, <1>2, <1>3
<1> QED BY <1>1, <1>4 DEF t

LEMMA RangeHeadTail ==
  ASSUME NEW S, NEW s \in Seq(S), s # <<>>
  PROVE  /\ Head(s) \in S /\ Tail(s) \in Seq(S)
         /\ Range(s) = {Head(s)} \union Range(Tail(s))
<1> DEFINE t == Tail(s)
<1>1. /\ Head(s) \in S /\ Head(s) = s[1] /\ t \in Seq(S)
      /\ Len(s) \in Nat /\ Len(s) > 0 /\ Len(t) = Len(s) - 1
      /\ \A i \in 1..Len(t) : t[i] = s[i + 1]
  BY HeadTailProperties, LenProperties, EmptySeq
<1> HIDE DEF t
<1>2. /\ \A x : x \in Range(s) <=> \E i \in 1..Len(s) : s[i] = x
      /\ \A x : x \in Range(t) <=> \E i \in 1..Len(s) - 1 : t[i] = x
  BY <1>1, RangeElements
<1>3. ASSUME NEW i \in 1..Len(s) PROVE s[i] = Head(s) \/ s[i] \in Range(t)
  <2>1. CASE i = 1
    BY <1>1, <2>1
  <2>2. CASE i # 1
    <3>1. i - 1 \in 1..Len(s) - 1 /\ t[i - 1] = s[i]
      BY <1>1, <2>2
    <3> QED BY <1>2, <3>1
  <2> QED BY <2>1, <2>2
<1>4. ASSUME NEW i \in 1..Len(s) - 1 PROVE t[i] \in Range(s)
  <2>1. i + 1 \in 1..Len(s) /\ t[i] = s[i + 1]
    BY <1>1
  <2> QED BY <1>2, <2>1
<1>5. Head(s) \in Range(s)
  BY <1>1, <1>2
<1>6. Range(s) = {Head(s)} \union Range(t)
  BY <1>2, <1>3, <1>4, <1>5
<1> QED BY <1>1, <1>6 DEF t

LEMMA RangeEmpty == Range(<<>>) = {}
<1>1. <<>> \in Seq({})
  BY EmptySeq
<1>2. Range(<<>>) \in SUBSET {}
  BY <1>1, RangeOfSeq
<1> QED BY <1>2
LEMMA RangePrefix ==
  ASSUME NEW S, NEW s \in Seq(S), NEW n \in 0..Len(s)
  PROVE  /\ SubSeq(s, 1, n) \in Seq(S) /\ Len(SubSeq(s, 1, n)) = n
         /\ \A i \in 1..n : SubSeq(s, 1, n)[i] = s[i]
<1>1. Len(s) \in Nat /\ \A i \in 1..n : s[i] \in S
  BY LenProperties, ElementOfSeq
<1> QED BY <1>1, SubSeqProperties

\* Members of a finite set of numbers are ranked by how many are not greater.
LEMMA Ranks ==
  ASSUME NEW T \in SUBSET Int, IsFiniteSet(T), NEW i \in T, NEW j \in T, i <= j
  PROVE  /\ Cardinality({k \in T : k <= i}) \in Nat
         /\ Cardinality({k \in T : k <= i}) <= Cardinality({k \in T : k <= j})
         /\ Cardinality({k \in T : k <= j}) <= Cardinality(T)
<1> DEFINE A == {k \in T : k <= i}
           B == {k \in T : k <= j}
<1>1. A \in SUBSET B /\ B \in SUBSET T
  <2>1. i \in Int /\ j \in Int /\ \A k \in T : k \in Int
    OBVIOUS
  <2>2. \A k \in T : k <= i => k <= j
    BY <2>1
  <2> QED BY <2>2
<1> HIDE DEF A, B
<1>2. IsFiniteSet(B) /\ Cardinality(B) <= Cardinality(T)
  BY <1>1, FS_Subset
<1>3. IsFiniteSet(A) /\ Cardinality(A) <= Cardinality(B)
  BY <1>1, <1>2, FS_Subset
<1>4. Cardinality(A) \in Nat
  BY <1>3, FS_CardinalityType
<1> QED BY <1>2, <1>3, <1>4 DEF A, B

-----------------------------------------------------------------------------
(* Sorting *)

Sorts(s, T, R) ==
  /\ s \in [1..Cardinality(T) -> T]
  /\ \A k, l \in 1..Cardinality(T) : k < l => <<s[k], s[l]>> \in R

\* A finite set with a strict total order can be put in order: each member goes
\* to the position that its rank gives, and no two have the same rank.
LEMMA SortExists ==
  ASSUME NEW T, IsFiniteSet(T), NEW R,
         \A x \in T : <<x, x>> \notin R,
         \A x, y, z \in T : <<x, y>> \in R /\ <<y, z>> \in R => <<x, z>> \in R,
         \A x, y \in T : x = y \/ <<x, y>> \in R \/ <<y, x>> \in R
  PROVE  \E s : Sorts(s, T, R)
<1> DEFINE N == Cardinality(T)
           Upto(x) == {x} \union {y \in T : <<y, x>> \in R}
           rank == [x \in T |-> Cardinality(Upto(x))]
<1>1. N \in Nat
  BY FS_CardinalityType
<1>2. ASSUME NEW x \in T
      PROVE  IsFiniteSet(Upto(x)) /\ Upto(x) \in SUBSET T
             /\ Cardinality(Upto(x)) \in 1..N
  <2> DEFINE U == Upto(x)
  <2>1. U \in SUBSET T /\ x \in U
    OBVIOUS
  <2> HIDE DEF U
  <2>2. IsFiniteSet(U) /\ Cardinality(U) <= N
    BY <2>1, FS_Subset
  <2>3. Cardinality(U) \in Nat /\ Cardinality(U) # 0
    BY <2>1, <2>2, FS_CardinalityType, FS_EmptySet
  <2> HIDE DEF N
  <2>4. Cardinality(U) \in 1..N
    BY <1>1, <2>2, <2>3
  <2> QED BY <2>1, <2>2, <2>4 DEF U
<1>3. ASSUME NEW x \in T, NEW y \in T, <<x, y>> \in R
      PROVE  rank[x] < rank[y]
  <2> DEFINE U == Upto(x)
             V == Upto(y)
  <2>1. U \in SUBSET V /\ y \in V /\ y \notin U
    BY <1>3
  <2>2. IsFiniteSet(V) /\ rank[x] = Cardinality(U) /\ rank[y] = Cardinality(V)
    BY <1>2
  <2> HIDE DEF U, V
  <2>3. IsFiniteSet(U) /\ Cardinality(U) <= Cardinality(V) /\ Cardinality(V) # Cardinality(U)
    BY <2>1, <2>2, FS_Subset
  <2>4. Cardinality(U) \in Nat /\ Cardinality(V) \in Nat
    BY <2>2, <2>3, FS_CardinalityType
  <2> QED BY <2>2, <2>3, <2>4
<1>4. rank \in Injection(T, 1..N)
  <2>1. rank \in [T -> 1..N]
    BY <1>2
  <2>2. ASSUME NEW x \in T, NEW y \in T, rank[x] = rank[y] PROVE x = y
    <3>1. rank[x] \in Nat
      BY <2>1
    <3> HIDE DEF rank
    <3>2. ~(rank[x] < rank[y]) /\ ~(rank[y] < rank[x])
      BY <2>2, <3>1
    <3>3. <<x, y>> \notin R /\ <<y, x>> \notin R
      BY <1>3, <3>2
    <3> QED BY <3>3
  <2> HIDE DEF rank
  <2> QED BY <2>1, <2>2 DEF Injection, IsInjective
<1>5. rank \in Surjection(T, 1..N)
  <2>1. IsFiniteSet(1..N) /\ Cardinality(1..N) = N
    <3> HIDE DEF N
    <3>1. IsFiniteSet(1..N) /\ Cardinality(1..N) = IF 1 > N THEN 0 ELSE N - 1 + 1
      BY <1>1, FS_Interval
    <3> QED BY <1>1, <3>1
  <2> HIDE DEF rank
  <2> QED BY <1>4, <2>1, FS_Injection
<1> HIDE DEF rank, N
<1>6. rank \in [T -> 1..N] /\ \A n \in 1..N : \E x \in T : rank[x] = n
  BY <1>5 DEF Surjection
<1>7. \A x, y \in T : rank[x] = rank[y] => x = y
  BY <1>4 DEF Injection, IsInjective
<1> DEFINE s == [n \in 1..N |-> CHOOSE x \in T : rank[x] = n]
<1>8. \A n \in 1..N : s[n] \in T /\ rank[s[n]] = n
  BY <1>6
<1>9. s \in [1..N -> T]
  BY <1>8
<1> HIDE DEF s
<1>10. ASSUME NEW k \in 1..N, NEW l \in 1..N, k < l PROVE <<s[k], s[l]>> \in R
  <2>1. k \in Nat /\ l \in Nat
    BY <1>1
  <2>2. s[k] # s[l]
    BY <1>8, <1>10, <2>1
  <2>3. ~(<<s[l], s[k]>> \in R)
    <3> SUFFICES ASSUME <<s[l], s[k]>> \in R PROVE FALSE
      OBVIOUS
    <3>1. rank[s[l]] < rank[s[k]]
      BY <1>3, <1>8
    <3> QED BY <1>8, <1>10, <2>1, <3>1
  <2> QED BY <1>8, <2>2, <2>3
<1> QED BY <1>9, <1>10 DEF Sorts, N

LEMMA SortIsOnto ==
  ASSUME NEW T, IsFiniteSet(T), NEW R, NEW s, Sorts(s, T, R),
         \A x \in T : <<x, x>> \notin R
  PROVE  \A x \in T : \E k \in 1..Cardinality(T) : s[k] = x
<1> DEFINE N == Cardinality(T)
<1>1. N \in Nat
  BY FS_CardinalityType
<1>2. s \in [1..N -> T] /\ \A k, l \in 1..N : k < l => <<s[k], s[l]>> \in R
  BY DEF Sorts
<1>3. IsFiniteSet(1..N) /\ Cardinality(1..N) = N
  <2> HIDE DEF N
  <2>1. IsFiniteSet(1..N) /\ Cardinality(1..N) = IF 1 > N THEN 0 ELSE N - 1 + 1
    BY <1>1, FS_Interval
  <2> QED BY <1>1, <2>1
<1>4. Cardinality(1..N) = Cardinality(T)
  BY <1>3
<1> HIDE DEF N
<1>5. ASSUME NEW k \in 1..N, NEW l \in 1..N, s[k] = s[l] PROVE k = l
  <2>1. k \in Nat /\ l \in Nat
    BY <1>1
  <2>2. ~(k < l) /\ ~(l < k)
    BY <1>2, <1>5
  <2> QED BY <2>1, <2>2
<1>6. s \in Injection(1..N, T)
  BY <1>2, <1>5 DEF Injection, IsInjective
<1>7. s \in Surjection(1..N, T)
  BY <1>3, <1>4, <1>6, FS_Injection
<1> QED BY <1>7 DEF Surjection, N

-----------------------------------------------------------------------------
(* The next batch *)

Positions == 1..MaxRows
IsFile == file \in [1..MaxRows -> Rows] /\ Len(file) = MaxRows
Earlier == {p \in Positions \X Positions : Before(p[1], p[2])}

\* The key of the sort is a strict total order of the rows: by time, rows
\* without a time last, rows of the same key as they come in the file.
LEMMA BeforeOrders ==
  ASSUME IsFile
  PROVE  /\ \A i, j \in Positions : <<i, j>> \in Earlier <=> Before(i, j)
         /\ \A i \in Positions : <<i, i>> \notin Earlier
         /\ \A i, j, k \in Positions : <<i, j>> \in Earlier /\ <<j, k>> \in Earlier => <<i, k>> \in Earlier
         /\ \A i, j \in Positions : i = j \/ <<i, j>> \in Earlier \/ <<j, i>> \in Earlier
<1> DEFINE key(i) == OrderCol(file[i])
<1>1. ASSUME NEW i \in Positions PROVE i \in Nat /\ (key(i) = None \/ key(i) \in Nat)
  <2>1. file[i] \in Rows /\ i \in Nat
    BY ProviderAssumption DEF IsFile, Positions
  <2> QED BY <2>1, ProviderAssumption DEF OrderCol
<1>2. ASSUME NEW i \in Positions, NEW j \in Positions
      PROVE  /\ <<i, j>> \in Earlier <=> Before(i, j)
             /\ Before(i, j) <=> IF key(i) = key(j) THEN i < j
                                ELSE IF key(i) = None \/ key(j) = None THEN key(j) = None
                                ELSE key(i) < key(j)
  BY DEF Earlier, Before
<1> HIDE DEF key
<1>3. \A i \in Positions : <<i, i>> \notin Earlier
  BY <1>1, <1>2
<1>4. ASSUME NEW i \in Positions, NEW j \in Positions, NEW k \in Positions,
             <<i, j>> \in Earlier, <<j, k>> \in Earlier
      PROVE  <<i, k>> \in Earlier
  <2>1. /\ IF key(i) = key(j) THEN i < j
           ELSE IF key(i) = None \/ key(j) = None THEN key(j) = None ELSE key(i) < key(j)
        /\ IF key(j) = key(k) THEN j < k
           ELSE IF key(j) = None \/ key(k) = None THEN key(k) = None ELSE key(j) < key(k)
    BY <1>2, <1>4
  <2>2. IF key(i) = key(k) THEN i < k
        ELSE IF key(i) = None \/ key(k) = None THEN key(k) = None ELSE key(i) < key(k)
    BY <1>1, <2>1
  <2> QED BY <1>2, <2>2
<1>5. ASSUME NEW i \in Positions, NEW j \in Positions
      PROVE  i = j \/ <<i, j>> \in Earlier \/ <<j, i>> \in Earlier
  BY <1>1, <1>2
<1> QED BY <1>2, <1>3, <1>4, <1>5

LEMMA SortedBatch ==
  ASSUME IsFile, NEW T \in SUBSET Positions
  PROVE  /\ Sorted(T) \in Seq(Positions) /\ Range(Sorted(T)) = T
         /\ \A k, l \in 1..Len(Sorted(T)) : k < l => Before(Sorted(T)[k], Sorted(T)[l])
<1> DEFINE N == Cardinality(T)
<1>1. IsFiniteSet(T) /\ N \in Nat
  <2>1. IsFiniteSet(Positions)
    BY FS_Interval, ProviderAssumption DEF Positions
  <2>2. IsFiniteSet(T)
    BY <2>1, FS_Subset
  <2> QED BY <2>2, FS_CardinalityType
<1>2. PICK order : Sorts(order, T, Earlier)
  <2>1. /\ \A x \in T : <<x, x>> \notin Earlier
        /\ \A x, y, z \in T : <<x, y>> \in Earlier /\ <<y, z>> \in Earlier => <<x, z>> \in Earlier
        /\ \A x, y \in T : x = y \/ <<x, y>> \in Earlier \/ <<y, x>> \in Earlier
    BY BeforeOrders
  <2> QED BY <1>1, <2>1, SortExists
<1>3. order \in [1..N -> T] /\ \A k, l \in 1..N : k < l => Before(order[k], order[l])
  BY <1>2, BeforeOrders DEF Sorts
<1>4. /\ Sorted(T) \in [1..N -> T]
      /\ \A k, l \in 1..N : k < l => Before(Sorted(T)[k], Sorted(T)[l])
  BY <1>3 DEF Sorted
<1> DEFINE s == Sorted(T)
<1>5. Sorts(s, T, Earlier)
  BY <1>4, BeforeOrders DEF Sorts
<1> HIDE DEF s, N
<1>6. s \in Seq(Positions) /\ Len(s) = N
  <2>1. s \in [1..N -> Positions]
    BY <1>4 DEF s
  <2> QED BY <1>1, <2>1
<1>7. \A x \in T : \E k \in 1..N : s[k] = x
  BY <1>1, <1>5, BeforeOrders, SortIsOnto DEF N
<1>8. \A k \in 1..N : s[k] \in T
  BY <1>4 DEF s
<1>9. Range(s) = T
  <2>1. \A x : x \in Range(s) <=> \E i \in 1..N : s[i] = x
    BY <1>6, RangeElements
  <2> QED BY <1>7, <1>8, <2>1
<1> QED BY <1>4, <1>6, <1>9 DEF s

\* Where the reader stands after the batch.
Consumed == IF Cardinality(Eligible) >= BatchSize THEN Max(Chunk) ELSE Len(file)

\* Every row in span up to there is in the batch.
LEMMA ChunkProperties ==
  ASSUME IsFile, pos \in 0..MaxRows, Eligible # {}
  PROVE  /\ Chunk \in SUBSET Positions /\ Consumed \in pos..MaxRows
         /\ \A i \in Chunk : pos < i /\ i <= Consumed
         /\ \A i \in Positions : pos < i /\ i <= Consumed /\ in_span(file[i]) => i \in Chunk
<1> DEFINE E == Eligible
           rank(i) == Cardinality({j \in E : j <= i})
<1>1. MaxRows \in Nat /\ pos \in Nat /\ pos <= MaxRows /\ BatchSize \in Nat \ {0}
  BY ProviderAssumption
<1>2. \A i : i \in E <=> i \in Positions /\ pos < i /\ in_span(file[i])
  BY <1>1 DEF Eligible, IsFile, Positions
<1>3. \A i : i \in Chunk <=> i \in E /\ rank(i) <= BatchSize
  BY DEF Chunk
<1> HIDE DEF E
<1>4. E \in SUBSET Positions /\ E \in SUBSET Int /\ E # {} /\ IsFiniteSet(E)
  <2>1. IsFiniteSet(Positions)
    BY <1>1, FS_Interval DEF Positions
  <2>2. E \in SUBSET Positions /\ E \in SUBSET Int
    BY <1>1, <1>2 DEF Positions
  <2>3. E # {}
    BY DEF E
  <2> QED BY <2>1, <2>2, <2>3, FS_Subset
<1>5. \A i, j \in E : i <= j => rank(i) \in Nat /\ rank(i) <= rank(j) /\ rank(j) <= Cardinality(E)
  BY <1>4, Ranks
<1>6. \A i \in E : rank(i) \in Nat /\ rank(i) <= Cardinality(E) /\ i \in Int
  BY <1>4, <1>5
<1>7. Cardinality(E) \in Nat
  BY <1>4, FS_CardinalityType
<1>8. CASE Cardinality(E) >= BatchSize
  <2>1. Chunk \in SUBSET E /\ Chunk \in SUBSET Int /\ IsFiniteSet(Chunk)
    BY <1>3, <1>4, FS_Subset
  <2>2. Chunk # {}
    <3> DEFINE m == Min(E)
    <3>1. m \in E /\ \A x \in E : m <= x
      BY <1>4, MinMax
    <3> HIDE DEF m
    <3>2. ASSUME NEW j \in E PROVE j <= m <=> j = m
      <4>1. j \in Int /\ m \in Int /\ m <= j
        BY <1>4, <3>1
      <4> QED BY <4>1
    <3>3. {j \in E : j <= m} = {m}
      BY <3>1, <3>2
    <3>4. rank(m) = 1
      BY <3>3, FS_Singleton
    <3> QED BY <1>1, <1>3, <3>1, <3>4
  <2>3. Max(Chunk) \in Chunk /\ \A x \in Chunk : Max(Chunk) >= x
    BY <2>1, <2>2, MinMax
  <2>4. Consumed = Max(Chunk)
    BY <1>8 DEF Consumed, E
  <2> DEFINE m == Consumed
  <2>5. m \in E /\ m \in Chunk /\ m \in Positions /\ m \in Int /\ \A x \in Chunk : m >= x
    BY <1>3, <1>4, <2>3, <2>4
  <2> HIDE DEF m
  <2>6. ASSUME NEW i \in E, i <= m PROVE i \in Chunk
    <3>1. rank(i) <= rank(m) /\ rank(m) <= BatchSize /\ rank(i) \in Nat /\ rank(m) \in Nat
      BY <1>3, <1>5, <1>6, <2>5, <2>6
    <3> HIDE DEF rank
    <3>2. rank(i) <= BatchSize
      BY <1>1, <3>1
    <3> QED BY <1>3, <3>2
  <2>7. m \in pos..MaxRows
    BY <1>1, <1>2, <2>5 DEF Positions
  <2>8. \A i \in Chunk : pos < i /\ i <= m
    BY <1>2, <1>6, <2>1, <2>5
  <2> QED BY <1>2, <1>4, <2>1, <2>6, <2>7, <2>8 DEF m
<1>9. CASE ~(Cardinality(E) >= BatchSize)
  <2>1. \A i \in E : rank(i) <= BatchSize
    <3> SUFFICES ASSUME NEW i \in E PROVE rank(i) <= BatchSize
      OBVIOUS
    <3>1. rank(i) \in Nat /\ rank(i) <= Cardinality(E)
      BY <1>6
    <3> HIDE DEF rank
    <3> QED BY <1>1, <1>7, <1>9, <3>1
  <2>2. Chunk = E
    BY <1>3, <2>1
  <2>3. Consumed = MaxRows
    BY <1>9 DEF Consumed, E, IsFile
  <2>4. MaxRows \in pos..MaxRows /\ \A i \in Positions : i <= MaxRows
    BY <1>1 DEF Positions
  <2> QED BY <1>2, <1>4, <2>2, <2>3, <2>4
<1> QED BY <1>8, <1>9
-----------------------------------------------------------------------------
(* Type correctness *)

Boxes == [lo : Int, hi : Int, mobile : BOOLEAN]
Records == [row : Positions, mobile : BOOLEAN, run : Nat, batch : Nat, tries : Nat]

Typed ==
  /\ IsFile
  /\ phase \in {"running", "flushing", "done", "killed"} /\ runs \in Nat
  /\ pos \in 0..MaxRows /\ batch \in Seq(Positions) /\ number \in Nat
  /\ boxes \in [Sensors -> Boxes \union {None}]
  /\ queue \in Seq(Records) /\ inflight \in Seq(Records) /\ topic \in Seq(Records)
  /\ sent \in Nat /\ discarded \in Nat /\ errors \in Nat
  /\ failed \in SUBSET Positions /\ complete \in 0..MaxRows /\ gap \in BOOLEAN

LEMMA ClassifiedBox ==
  ASSUME NEW box \in Boxes \union {None}, NEW place \in Int
  PROVE  /\ Classified(box, place) \in Boxes
         /\ box # None /\ box.mobile => Classified(box, place) = box
<1>1. CASE box = None
  BY <1>1 DEF Classified, Fixed, Boxes
<1>2. CASE box # None
  <2>1. box \in Boxes /\ box.lo \in Int /\ box.hi \in Int
    BY <1>2 DEF Boxes
  <2>2. CASE box.mobile
    BY <1>2, <2>1, <2>2 DEF Classified
  <2>3. CASE ~box.mobile
    <3> DEFINE low == Min({box.lo, place})
               high == Max({box.hi, place})
    <3>1. low \in Int
      <4>1. IsFiniteSet({box.lo}) /\ {box.lo} \union {place} = {box.lo, place}
        BY FS_Singleton
      <4>2. IsFiniteSet({box.lo, place})
        BY <4>1, FS_AddElement
      <4>3. {box.lo, place} \in SUBSET Int /\ {box.lo, place} # {}
        BY <2>1
      <4> QED BY <4>2, <4>3, MinMax
    <3>2. high \in Int
      BY <2>1, MaxOfTwo
    <3>3. Classified(box, place) = [lo |-> low, hi |-> high, mobile |-> high - low > Threshold]
      BY <1>2, <2>3 DEF Classified
    <3>4. (high - low > Threshold) \in BOOLEAN
      OBVIOUS
    <3> HIDE DEF low, high
    <3> QED BY <2>3, <3>1, <3>2, <3>3, <3>4 DEF Boxes
  <2> QED BY <2>2, <2>3
<1> QED BY <1>1, <1>2

\* What Send does with the row at the head of the batch.
Sensor(i) == resolve_sensor_id(file[i])
SentBox(i) == Classified(boxes[Sensor(i)], file[i].place)
SentRecord(i) ==
  [row |-> i, mobile |-> SentBox(i).mobile, run |-> runs, batch |-> number, tries |-> 0]

LEMMA SendEffect ==
  ASSUME Typed, NEW raises \in BOOLEAN, Send(raises)
  PROVE  /\ batch # <<>> /\ Head(batch) \in Positions /\ batch' = Tail(batch)
         /\ Sensor(Head(batch)) \in Sensors
         /\ SentBox(Head(batch)) \in Boxes /\ SentRecord(Head(batch)) \in Records
         /\ boxes' = [boxes EXCEPT ![Sensor(Head(batch))] = SentBox(Head(batch))]
         /\ \/ /\ errors' = errors + 1 /\ failed' = failed \union {Head(batch)}
               /\ UNCHANGED <<queue, sent>>
            \/ /\ queue' = Append(queue, SentRecord(Head(batch))) /\ sent' = sent + 1
               /\ UNCHANGED <<errors, failed>>
         /\ UNCHANGED <<file, phase, runs, pos, number, inflight, topic, discarded, complete, gap>>
<1> DEFINE i == Head(batch)
<1>1. batch # <<>> /\ i \in Positions
  BY HeadTailProperties DEF Send, Typed
<1>2. Mappable(file[i]) /\ file[i] \in Rows
  BY <1>1 DEF Send, Typed, IsFile, Positions
<1>3. Sensor(i) \in Sensors /\ file[i].place \in Int
  BY <1>2, ProviderAssumption DEF Mappable, Sensor, resolve_sensor_id
<1>4. boxes[Sensor(i)] \in Boxes \union {None}
  BY <1>3 DEF Typed
<1>5. SentBox(i) \in Boxes
  BY <1>3, <1>4, ClassifiedBox DEF SentBox
<1>6. SentBox(i).mobile \in BOOLEAN /\ runs \in Nat /\ number \in Nat
  BY <1>5 DEF Boxes, Typed
<1>7. SentRecord(i) \in Records
  BY <1>1, <1>6 DEF SentRecord, Records
<1>8. /\ batch' = Tail(batch)
      /\ boxes' = [boxes EXCEPT ![Sensor(i)] = SentBox(i)]
      /\ \/ /\ errors' = errors + 1 /\ failed' = failed \union {i}
            /\ UNCHANGED <<queue, sent>>
         \/ /\ queue' = Append(queue, SentRecord(i)) /\ sent' = sent + 1
            /\ UNCHANGED <<errors, failed>>
      /\ UNCHANGED <<file, phase, runs, pos, number, inflight, topic, discarded, complete, gap>>
  BY DEF Send, Sensor, SentBox, SentRecord
<1> HIDE DEF i
<1> QED BY <1>1, <1>3, <1>5, <1>7, <1>8 DEF i

LEMMA ReadBatchEffect ==
  ASSUME Typed, ReadBatch
  PROVE  /\ batch = <<>> /\ batch' \in Seq(Positions) /\ pos' \in pos..MaxRows
         /\ \A k, l \in 1..Len(batch') : k < l => Before(batch'[k], batch'[l])
         /\ \A i \in Range(batch') : pos < i /\ i <= pos'
         /\ \A i \in Positions : pos < i /\ i <= pos' /\ in_span(file[i]) => i \in Range(batch')
         /\ number' = number + 1 /\ complete' = pos
         /\ UNCHANGED <<file, phase, runs, boxes, kafka, metrics, failed, gap>>
<1>1. /\ batch = <<>> /\ Eligible # {} /\ batch' = Sorted(Chunk) /\ pos' = Consumed
      /\ number' = number + 1 /\ complete' = pos
      /\ UNCHANGED <<file, phase, runs, boxes, kafka, metrics, failed, gap>>
  BY DEF ReadBatch, Consumed
<1>2. IsFile /\ pos \in 0..MaxRows
  BY DEF Typed
<1>3. /\ Chunk \in SUBSET Positions /\ Consumed \in pos..MaxRows
      /\ \A i \in Chunk : pos < i /\ i <= Consumed
      /\ \A i \in Positions : pos < i /\ i <= Consumed /\ in_span(file[i]) => i \in Chunk
  BY <1>1, <1>2, ChunkProperties
<1>4. /\ Sorted(Chunk) \in Seq(Positions) /\ Range(Sorted(Chunk)) = Chunk
      /\ \A k, l \in 1..Len(Sorted(Chunk)) : k < l => Before(Sorted(Chunk)[k], Sorted(Chunk)[l])
  BY <1>2, <1>3, SortedBatch
<1> QED BY <1>1, <1>3, <1>4

Retried(r) == [r EXCEPT !.tries = @ + 1]

LEMMA FailEffect ==
  ASSUME Typed, NEW appended \in BOOLEAN, Fail(appended)
  PROVE  /\ inflight # <<>> /\ Head(inflight) \in Records /\ inflight' = Tail(inflight)
         /\ Retried(Head(inflight)) \in Records
         /\ topic' = topic \/ topic' = Append(topic, Head(inflight))
         /\ \/ queue' = <<Retried(Head(inflight))>> \o queue /\ UNCHANGED <<errors, failed>>
            \/ /\ errors' = errors + 1 /\ failed' = failed \union {Head(inflight).row}
               /\ UNCHANGED queue
         /\ UNCHANGED <<file, phase, runs, reader, boxes, sent, discarded, complete, gap>>
<1>1. inflight # <<>> /\ Head(inflight) \in Records
  BY HeadTailProperties DEF Fail, Typed
<1>2. Retried(Head(inflight)) \in Records
  BY <1>1 DEF Records, Retried
<1>3. /\ inflight' = Tail(inflight)
      /\ topic' = topic \/ topic' = Append(topic, Head(inflight))
      /\ \/ queue' = <<Retried(Head(inflight))>> \o queue /\ UNCHANGED <<errors, failed>>
         \/ /\ errors' = errors + 1 /\ failed' = failed \union {Head(inflight).row}
            /\ UNCHANGED queue
      /\ UNCHANGED <<file, phase, runs, reader, boxes, sent, discarded, complete, gap>>
  BY DEF Fail, Retried
<1> QED BY <1>1, <1>2, <1>3
LEMMA InitTyped == Init => Typed
<1> SUFFICES ASSUME Init PROVE Typed
  OBVIOUS
<1>1. IsFile
  <2>1. MaxRows \in Nat /\ file \in [1..MaxRows -> Rows]
    BY ProviderAssumption DEF Init
  <2> QED BY <2>1 DEF IsFile
<1>2. 0 \in 0..MaxRows
  BY ProviderAssumption
<1>3. <<>> \in Seq(Positions) /\ <<>> \in Seq(Records)
  BY EmptySeq
<1> QED BY <1>1, <1>2, <1>3 DEF Init, Typed

LEMMA NextTyped == Typed /\ [Next]_vars => Typed'
<1> SUFFICES ASSUME Typed, [Next]_vars PROVE Typed'
  OBVIOUS
<1>0. /\ batch \in Seq(Positions) /\ queue \in Seq(Records) /\ inflight \in Seq(Records)
      /\ topic \in Seq(Records)
  BY DEF Typed
<1>1. <<>> \in Seq(Positions) /\ <<>> \in Seq(Records)
  BY EmptySeq
<1>2. ASSUME NEW skip_rows \in 0..Len(file), Run(skip_rows) PROVE Typed'
  <2>1. skip_rows \in 0..MaxRows
    BY <1>2 DEF Typed, IsFile
  <2>2. gap' \in BOOLEAN
    BY <1>2 DEF Run, Typed
  <2>3. boxes' \in [Sensors -> Boxes \union {None}]
    BY <1>2 DEF Run
  <2>4. runs' \in Nat /\ 0 \in Nat
    BY <1>2 DEF Run, Typed
  <2> QED BY <1>1, <1>2, <2>1, <2>2, <2>3, <2>4 DEF Run, Typed, IsFile, kafka
<1>3. CASE ReadBatch
  <2>1. pos' \in 0..MaxRows /\ number' \in Nat
    BY <1>3, ReadBatchEffect, ProviderAssumption DEF Typed
  <2> QED BY <1>3, <2>1, ReadBatchEffect DEF Typed, IsFile, kafka, metrics
<1>4. CASE Discard
  <2>1. Tail(batch) \in Seq(Positions)
    BY <1>4, HeadTailProperties DEF Discard, Typed
  <2> QED BY <1>4, <2>1 DEF Discard, Typed, IsFile, kafka, history
<1>5. ASSUME NEW raises \in BOOLEAN, Send(raises) PROVE Typed'
  <2> DEFINE i == Head(batch)
             r == SentRecord(i)
  <2>1. /\ i \in Positions /\ batch' \in Seq(Positions) /\ r \in Records
        /\ boxes' \in [Sensors -> Boxes \union {None}]
        /\ UNCHANGED <<file, phase, runs, pos, number, inflight, topic, discarded, complete, gap>>
    <3>1. /\ batch # <<>> /\ i \in Positions /\ batch' = Tail(batch)
          /\ Sensor(i) \in Sensors /\ SentBox(i) \in Boxes /\ r \in Records
          /\ boxes' = [boxes EXCEPT ![Sensor(i)] = SentBox(i)]
          /\ UNCHANGED <<file, phase, runs, pos, number, inflight, topic, discarded, complete, gap>>
      BY <1>5, SendEffect
    <3> HIDE DEF i, r
    <3>2. batch' \in Seq(Positions)
      BY <1>0, <3>1, HeadTailProperties
    <3>3. boxes' \in [Sensors -> Boxes \union {None}]
      BY <3>1 DEF Typed
    <3> QED BY <3>1, <3>2, <3>3
  <2>2. \/ /\ errors' = errors + 1 /\ failed' = failed \union {i} /\ UNCHANGED <<queue, sent>>
        \/ queue' = Append(queue, r) /\ sent' = sent + 1 /\ UNCHANGED <<errors, failed>>
    BY <1>5, SendEffect
  <2> HIDE DEF i, r
  <2>3. queue' \in Seq(Records)
    <3>1. Append(queue, r) \in Seq(Records)
      BY <1>0, <2>1, AppendProperties
    <3> QED BY <1>0, <2>2, <3>1
  <2>4. errors' \in Nat /\ failed' \in SUBSET Positions /\ sent' \in Nat
    BY <2>1, <2>2 DEF Typed
  <2> QED BY <2>1, <2>3, <2>4 DEF Typed, IsFile
<1>6. CASE Transmit
  <2>1. queue' \in Seq(Records) /\ inflight' \in Seq(Records)
    BY <1>6, HeadTailProperties, AppendProperties DEF Transmit, Typed
  <2> QED BY <1>6, <2>1 DEF Transmit, Typed, IsFile, reader, metrics, history
<1>7. CASE Acknowledge
  <2>1. topic' \in Seq(Records) /\ inflight' \in Seq(Records)
    BY <1>7, HeadTailProperties, AppendProperties DEF Acknowledge, Typed
  <2> QED BY <1>7, <2>1 DEF Acknowledge, Typed, IsFile, reader, metrics, history
<1>8. ASSUME NEW appended \in BOOLEAN, Fail(appended) PROVE Typed'
  <2> DEFINE r == Head(inflight)
             again == Retried(r)
  <2>1. /\ r \in Records /\ inflight' \in Seq(Records) /\ again \in Records
        /\ topic' = topic \/ topic' = Append(topic, r)
        /\ UNCHANGED <<file, phase, runs, reader, boxes, sent, discarded, complete, gap>>
    BY <1>8, FailEffect, HeadTailProperties DEF Typed
  <2>2. \/ queue' = <<again>> \o queue /\ UNCHANGED <<errors, failed>>
        \/ errors' = errors + 1 /\ failed' = failed \union {r.row} /\ UNCHANGED queue
    BY <1>8, FailEffect
  <2> HIDE DEF r, again
  <2>3. topic' \in Seq(Records)
    <3>1. Append(topic, r) \in Seq(Records)
      BY <1>0, <2>1, AppendProperties
    <3> QED BY <1>0, <2>1, <3>1
  <2>4. queue' \in Seq(Records)
    <3>1. <<again>> \in Seq(Records)
      BY <2>1
    <3>2. <<again>> \o queue \in Seq(Records)
      BY <1>0, <3>1, ConcatProperties
    <3> QED BY <1>0, <2>2, <3>2
  <2>5. errors' \in Nat /\ failed' \in SUBSET Positions
    BY <2>1, <2>2 DEF Typed, Records
  <2> QED BY <2>1, <2>3, <2>4, <2>5 DEF Typed, IsFile, reader
<1>9. CASE Leave
  <2>1. Len(file) \in 0..MaxRows /\ complete' \in {Len(file), pos, complete}
    BY <1>9, ProviderAssumption DEF Leave, Typed, IsFile
  <2>2. complete' \in 0..MaxRows
    BY <2>1 DEF Typed
  <2> QED BY <1>1, <1>9, <2>2 DEF Leave, Typed, IsFile, kafka, metrics
<1>10. CASE Flush
  BY <1>10 DEF Flush, Typed, IsFile, reader, kafka, metrics, history
<1>11. CASE Kill
  <2>1. PICK n \in 0..Len(inflight) : topic' = topic \o SubSeq(inflight, 1, n)
    BY <1>11 DEF Kill
  <2>2. topic' \in Seq(Records)
    BY <2>1, RangePrefix, ConcatProperties DEF Typed
  <2> QED BY <1>1, <1>11, <2>2 DEF Kill, Typed, IsFile, metrics, history
<1>12. CASE UNCHANGED vars
  BY <1>12 DEF vars, Typed, IsFile, reader, kafka, metrics, history
<1> QED BY <1>2, <1>3, <1>4, <1>5, <1>6, <1>7, <1>8, <1>9, <1>10, <1>11, <1>12 DEF Next

LEMMA TypedInvariant == Spec => []Typed
<1> QED BY InitTyped, NextTyped, PTL DEF Spec

-----------------------------------------------------------------------------
(* Order through the queue, the connection and the topic *)

\* G is the set of the pairs of records that may stand in that order.
InOrder(s, G) == \A k, l \in 1..Len(s) : k < l => <<s[k], s[l]>> \in G
Precede(A, B, G) == \A a \in A, b \in B : <<a, b>> \in G

LEMMA InOrderConcat ==
  ASSUME NEW S, NEW s \in Seq(S), NEW t \in Seq(S), NEW G,
         InOrder(s, G), InOrder(t, G), Precede(Range(s), Range(t), G)
  PROVE  /\ s \o t \in Seq(S) /\ InOrder(s \o t, G)
         /\ Range(s \o t) = Range(s) \union Range(t)
<1> DEFINE m == Len(s)
           n == Len(t)
           u == s \o t
<1>1. /\ m \in Nat /\ n \in Nat /\ u \in Seq(S) /\ Len(u) = m + n
      /\ \A i \in 1..m + n : u[i] = IF i <= m THEN s[i] ELSE t[i - m]
  BY LenProperties, ConcatProperties
<1> HIDE DEF m, n, u
<1>2. /\ \A i \in 1..m : i \in 1..m + n /\ u[i] = s[i]
      /\ \A i \in 1..n : i + m \in 1..m + n /\ u[i + m] = t[i]
  BY <1>1
<1>3. ASSUME NEW i \in 1..m + n
      PROVE  \/ i \in 1..m /\ u[i] = s[i]
             \/ i > m /\ i - m \in 1..n /\ u[i] = t[i - m]
  BY <1>1
<1>4. /\ \A x : x \in Range(s) <=> \E i \in 1..m : s[i] = x
      /\ \A x : x \in Range(t) <=> \E i \in 1..n : t[i] = x
      /\ \A x : x \in Range(u) <=> \E i \in 1..m + n : u[i] = x
  BY <1>1, RangeElements DEF m, n
<1>5. Range(u) = Range(s) \union Range(t)
  <2>1. ASSUME NEW x \in Range(u) PROVE x \in Range(s) \union Range(t)
    BY <1>3, <1>4
  <2>2. ASSUME NEW x \in Range(s) \union Range(t) PROVE x \in Range(u)
    BY <1>2, <1>4
  <2> QED BY <2>1, <2>2
<1>6. ASSUME NEW k \in 1..m + n, NEW l \in 1..m + n, k < l PROVE <<u[k], u[l]>> \in G
  <2>1. k \in Nat /\ l \in Nat
    BY <1>1
  <2>2. CASE k \in 1..m /\ l \in 1..m
    BY <1>3, <1>6, <2>2 DEF InOrder, m
  <2>3. CASE k \in 1..m /\ l > m
    <3>1. u[k] \in Range(s)
      BY <1>2, <1>4, <2>3
    <3>2. l - m \in 1..n /\ u[l] = t[l - m]
      BY <1>1, <1>3, <2>3
    <3>3. u[l] \in Range(t)
      BY <1>4, <3>2
    <3> QED BY <3>1, <3>3 DEF Precede
  <2>4. CASE k > m /\ l > m
    <3>1. /\ k - m \in 1..n /\ l - m \in 1..n /\ k - m < l - m
          /\ u[k] = t[k - m] /\ u[l] = t[l - m]
      BY <1>1, <1>3, <1>6, <2>4
    <3> QED BY <3>1 DEF InOrder, n
  <2> QED BY <1>1, <1>3, <1>6, <2>1, <2>2, <2>3, <2>4
<1> QED BY <1>1, <1>5, <1>6 DEF InOrder, u

LEMMA InOrderSingle ==
  ASSUME NEW S, NEW x \in S, NEW G
  PROVE  <<x>> \in Seq(S) /\ InOrder(<<x>>, G) /\ Range(<<x>>) = {x}
<1>1. <<x>> \in Seq(S) /\ Len(<<x>>) = 1 /\ <<x>>[1] = x
  OBVIOUS
<1>2. \A y : y \in Range(<<x>>) <=> \E i \in 1..1 : <<x>>[i] = y
  BY <1>1, RangeElements
<1>3. Range(<<x>>) = {x}
  BY <1>1, <1>2
<1> QED BY <1>1, <1>3 DEF InOrder

LEMMA InOrderAppend ==
  ASSUME NEW S, NEW s \in Seq(S), NEW x \in S, NEW G,
         InOrder(s, G), Precede(Range(s), {x}, G)
  PROVE  InOrder(Append(s, x), G)
<1>1. <<x>> \in Seq(S) /\ InOrder(<<x>>, G) /\ Range(<<x>>) = {x}
  BY InOrderSingle
<1>2. Append(s, x) = s \o <<x>>
  BY AppendIsConcat
<1>3. InOrder(s \o <<x>>, G)
  <2>1. Precede(Range(s), Range(<<x>>), G)
    BY <1>1
  <2> DEFINE t == <<x>>
  <2>2. t \in Seq(S) /\ InOrder(t, G) /\ Precede(Range(s), Range(t), G)
    BY <1>1, <2>1
  <2> HIDE DEF t
  <2>3. InOrder(s \o t, G)
    BY <2>2, InOrderConcat
  <2> QED BY <2>3 DEF t
<1> QED BY <1>2, <1>3

LEMMA InOrderTail ==
  ASSUME NEW S, NEW s \in Seq(S), s # <<>>, NEW G, InOrder(s, G)
  PROVE  InOrder(Tail(s), G) /\ Precede({Head(s)}, Range(Tail(s)), G)
<1> DEFINE t == Tail(s)
<1>1. /\ Head(s) = s[1] /\ t \in Seq(S) /\ Len(s) \in Nat /\ Len(s) > 0 /\ Len(t) = Len(s) - 1
      /\ \A i \in 1..Len(t) : t[i] = s[i + 1]
  BY HeadTailProperties, LenProperties, EmptySeq
<1> HIDE DEF t
<1>2. \A i \in 1..Len(t) : i + 1 \in 1..Len(s) /\ 1 \in 1..Len(s) /\ 1 < i + 1 /\ t[i] = s[i + 1]
  BY <1>1
<1>3. ASSUME NEW k \in 1..Len(t), NEW l \in 1..Len(t), k < l PROVE <<t[k], t[l]>> \in G
  <2>1. k + 1 < l + 1
    BY <1>1, <1>3
  <2> QED BY <1>2, <2>1 DEF InOrder
<1>4. \A y : y \in Range(t) <=> \E i \in 1..Len(t) : t[i] = y
  BY <1>1, RangeElements
<1>5. ASSUME NEW y \in Range(t) PROVE <<Head(s), y>> \in G
  BY <1>1, <1>2, <1>4 DEF InOrder
<1> QED BY <1>3, <1>5 DEF InOrder, Precede, t

LEMMA InOrderPrefix ==
  ASSUME NEW S, NEW s \in Seq(S), NEW n \in 0..Len(s), NEW G, InOrder(s, G)
  PROVE  InOrder(SubSeq(s, 1, n), G) /\ Range(SubSeq(s, 1, n)) \subseteq Range(s)
<1> DEFINE t == SubSeq(s, 1, n)
<1>1. t \in Seq(S) /\ Len(t) = n /\ Len(s) \in Nat /\ \A i \in 1..n : t[i] = s[i]
  BY RangePrefix, LenProperties
<1> HIDE DEF t
<1>2. \A i \in 1..n : i \in 1..Len(s)
  BY <1>1
<1>3. /\ \A y : y \in Range(t) <=> \E i \in 1..n : t[i] = y
      /\ \A y : y \in Range(s) <=> \E i \in 1..Len(s) : s[i] = y
  BY <1>1, RangeElements
<1> QED BY <1>1, <1>2, <1>3 DEF InOrder, t
LEMMA InOrderEmpty == ASSUME NEW G PROVE InOrder(<<>>, G) /\ Range(<<>>) = {}
<1>1. Len(<<>>) = 0
  BY EmptySeq
<1> QED BY <1>1, RangeEmpty DEF InOrder

LineUp(t, f, q, G) ==
  /\ InOrder(t, G) /\ InOrder(f, G) /\ InOrder(q, G)
  /\ Precede(Range(t), Range(f), G) /\ Precede(Range(t), Range(q), G)
  /\ Precede(Range(f), Range(q), G)

OnTheWay == Range(topic) \union Range(inflight) \union Range(queue)

\* The producer's thread and the broker keep any order in which a record that
\* is sent again may stand behind everything, and stands in front of what it
\* stood in front of before.
LEMMA LineStep ==
  ASSUME Typed, [Next]_vars, NEW G, LineUp(topic, inflight, queue, G),
         \A a, b \in Records : b.tries > 0 => <<a, b>> \in G,
         \A a, b \in Records : <<a, b>> \in G => <<Retried(a), b>> \in G,
         \A raises \in BOOLEAN :
           Send(raises) => Precede(OnTheWay, {SentRecord(Head(batch))}, G)
  PROVE  LineUp(topic', inflight', queue', G)
<1>1. /\ queue \in Seq(Records) /\ inflight \in Seq(Records) /\ topic \in Seq(Records)
      /\ Range(queue) \subseteq Records /\ Range(inflight) \subseteq Records
      /\ Range(topic) \subseteq Records
  <2>1. queue \in Seq(Records) /\ inflight \in Seq(Records) /\ topic \in Seq(Records)
    BY DEF Typed
  <2> QED BY <2>1, RangeElements
<1>2. /\ InOrder(topic, G) /\ InOrder(inflight, G) /\ InOrder(queue, G)
      /\ Precede(Range(topic), Range(inflight), G) /\ Precede(Range(topic), Range(queue), G)
      /\ Precede(Range(inflight), Range(queue), G)
  BY DEF LineUp
<1>3. CASE UNCHANGED kafka
  BY <1>3 DEF kafka, LineUp
<1>4. ASSUME NEW raises \in BOOLEAN, Send(raises) PROVE LineUp(topic', inflight', queue', G)
  <2> DEFINE r == SentRecord(Head(batch))
  <2>1. r \in Records /\ inflight' = inflight /\ topic' = topic
    BY <1>4, SendEffect
  <2>2. queue' = queue \/ queue' = Append(queue, r)
    BY <1>4, SendEffect
  <2>3. Precede(OnTheWay, {r}, G)
    BY <1>4
  <2> HIDE DEF r
  <2>4. InOrder(Append(queue, r), G)
    <3>1. Precede(Range(queue), {r}, G)
      BY <2>3 DEF Precede, OnTheWay
    <3> QED BY <1>1, <1>2, <2>1, <3>1, InOrderAppend
  <2>5. Range(Append(queue, r)) = Range(queue) \union {r}
    BY <1>1, <2>1, RangeAppend
  <2>6. CASE queue' = queue
    BY <2>1, <2>6 DEF LineUp
  <2>7. CASE queue' = Append(queue, r)
    <3>1. /\ Precede(Range(topic), Range(queue) \union {r}, G)
          /\ Precede(Range(inflight), Range(queue) \union {r}, G)
      BY <1>2, <2>3 DEF Precede, OnTheWay
    <3> QED BY <1>2, <2>1, <2>4, <2>5, <2>7, <3>1 DEF LineUp
  <2> QED BY <2>2, <2>6, <2>7
<1>5. CASE Transmit
  <2> DEFINE r == Head(queue)
             rest == Tail(queue)
             sending == Append(inflight, r)
  <2>1. queue # <<>> /\ topic' = topic /\ inflight' = sending /\ queue' = rest
    BY <1>5 DEF Transmit
  <2>2. r \in Records /\ Range(queue) = {r} \union Range(rest)
    BY <1>1, <2>1, RangeHeadTail
  <2>3. InOrder(rest, G) /\ Precede({r}, Range(rest), G)
    BY <1>1, <1>2, <2>1, InOrderTail
  <2>4. Range(sending) = Range(inflight) \union {r}
    BY <1>1, <2>2, RangeAppend
  <2> HIDE DEF r, rest
  <2>5. InOrder(sending, G)
    <3>1. Precede(Range(inflight), {r}, G)
      BY <1>2, <2>2 DEF Precede
    <3> QED BY <1>1, <1>2, <2>2, <3>1, InOrderAppend
  <2> HIDE DEF sending
  <2>6. /\ Precede(Range(topic), Range(sending), G) /\ Precede(Range(topic), Range(rest), G)
        /\ Precede(Range(sending), Range(rest), G)
    BY <1>2, <2>2, <2>3, <2>4 DEF Precede
  <2> QED BY <1>2, <2>1, <2>3, <2>5, <2>6 DEF LineUp
<1>6. CASE Acknowledge
  <2> DEFINE r == Head(inflight)
             rest == Tail(inflight)
             stored == Append(topic, r)
  <2>1. inflight # <<>> /\ topic' = stored /\ inflight' = rest /\ queue' = queue
    BY <1>6 DEF Acknowledge
  <2>2. r \in Records /\ Range(inflight) = {r} \union Range(rest)
    BY <1>1, <2>1, RangeHeadTail
  <2>3. InOrder(rest, G) /\ Precede({r}, Range(rest), G)
    BY <1>1, <1>2, <2>1, InOrderTail
  <2>4. Range(stored) = Range(topic) \union {r}
    BY <1>1, <2>2, RangeAppend
  <2> HIDE DEF r, rest
  <2>5. InOrder(stored, G)
    <3>1. Precede(Range(topic), {r}, G)
      BY <1>2, <2>2 DEF Precede
    <3> QED BY <1>1, <1>2, <2>2, <3>1, InOrderAppend
  <2> HIDE DEF stored
  <2>6. /\ Precede(Range(stored), Range(rest), G) /\ Precede(Range(stored), Range(queue), G)
        /\ Precede(Range(rest), Range(queue), G)
    BY <1>2, <2>2, <2>3, <2>4 DEF Precede
  <2> QED BY <1>2, <2>1, <2>3, <2>5, <2>6 DEF LineUp
<1>7. ASSUME NEW appended \in BOOLEAN, Fail(appended) PROVE LineUp(topic', inflight', queue', G)
  <2> DEFINE r == Head(inflight)
             rest == Tail(inflight)
             again == Retried(r)
  <2>1. /\ inflight # <<>> /\ again \in Records /\ inflight' = rest
        /\ topic' = topic \/ topic' = Append(topic, r)
    BY <1>7, FailEffect
  <2>2. queue' = queue \/ queue' = <<again>> \o queue
    BY <1>7, FailEffect
  <2>3. r \in Records /\ Range(inflight) = {r} \union Range(rest) /\ Range(rest) \subseteq Records
    BY <1>1, <2>1, RangeHeadTail
  <2>4. InOrder(rest, G) /\ Precede({r}, Range(rest), G)
    BY <1>1, <1>2, <2>1, InOrderTail
  <2>5. again.tries > 0
    BY <2>3 DEF Retried, Records
  <2>6. \A b \in Range(queue) : <<again, b>> \in G
    BY <1>1, <1>2, <2>3 DEF Precede
  <2> HIDE DEF r, rest, again
  <2>7. InOrder(topic', G) /\ Range(topic') \subseteq Range(topic) \union {r}
    <3>1. Precede(Range(topic), {r}, G)
      BY <1>2, <2>3 DEF Precede
    <3>2. InOrder(Append(topic, r), G) /\ Range(Append(topic, r)) = Range(topic) \union {r}
      BY <1>1, <1>2, <2>3, <3>1, InOrderAppend, RangeAppend
    <3> QED BY <1>2, <2>1, <3>2
  <2>8. InOrder(queue', G) /\ Range(queue') \subseteq {again} \union Range(queue)
    <3> DEFINE one == <<again>>
    <3>1. one \in Seq(Records) /\ InOrder(one, G) /\ Range(one) = {again}
      BY <2>1, InOrderSingle
    <3> HIDE DEF one
    <3>2. Precede(Range(one), Range(queue), G)
      BY <2>6, <3>1 DEF Precede
    <3>3. InOrder(one \o queue, G) /\ Range(one \o queue) = Range(one) \union Range(queue)
      BY <1>1, <1>2, <3>1, <3>2, InOrderConcat
    <3> QED BY <1>2, <2>2, <3>1, <3>3 DEF one
  <2>9. \A a \in Records : <<a, again>> \in G
    BY <2>1, <2>5
  <2>10. /\ Precede(Range(topic) \union {r}, Range(rest), G)
         /\ Precede(Range(topic) \union {r}, {again} \union Range(queue), G)
         /\ Precede(Range(rest), {again} \union Range(queue), G)
    BY <1>1, <1>2, <2>3, <2>4, <2>9 DEF Precede
  <2>11. /\ Precede(Range(topic'), Range(rest), G) /\ Precede(Range(topic'), Range(queue'), G)
         /\ Precede(Range(rest), Range(queue'), G)
    BY <2>7, <2>8, <2>10 DEF Precede
  <2> QED BY <2>1, <2>4, <2>7, <2>8, <2>11 DEF LineUp
<1>8. CASE Kill
  <2>1. PICK n \in 0..Len(inflight) : topic' = topic \o SubSeq(inflight, 1, n)
    BY <1>8 DEF Kill
  <2> DEFINE arrived == SubSeq(inflight, 1, n)
  <2>2. /\ arrived \in Seq(Records) /\ InOrder(arrived, G) /\ Range(arrived) \subseteq Range(inflight)
    BY <1>1, <1>2, RangePrefix, InOrderPrefix
  <2> HIDE DEF arrived
  <2>3. Precede(Range(topic), Range(arrived), G)
    BY <1>2, <2>2 DEF Precede
  <2>4. InOrder(topic \o arrived, G)
    BY <1>1, <1>2, <2>2, <2>3, InOrderConcat
  <2>5. queue' = <<>> /\ inflight' = <<>>
    BY <1>8 DEF Kill
  <2> QED BY <2>1, <2>4, <2>5, InOrderEmpty DEF LineUp, Precede, arrived
<1>9. (\E skip_rows \in 0..Len(file) : Run(skip_rows)) \/ ReadBatch \/ Discard \/ Leave \/ Flush
        \/ UNCHANGED vars => UNCHANGED kafka
  BY DEF Run, ReadBatch, Discard, Leave, Flush, vars, kafka
<1> QED BY <1>3, <1>4, <1>5, <1>6, <1>7, <1>8, <1>9 DEF Next
\* Which records are on the way after a step.
LEMMA RecordsMove ==
  ASSUME Typed, [Next]_vars
  PROVE  /\ OnTheWay \subseteq Records /\ IsFiniteSet(OnTheWay)
         /\ \A raises \in BOOLEAN :
              Send(raises) =>
                \/ OnTheWay' = OnTheWay /\ Head(batch) \in failed'
                   /\ errors' = errors + 1 /\ sent' = sent
                \/ OnTheWay' = OnTheWay \union {SentRecord(Head(batch))}
                   /\ errors' = errors /\ sent' = sent + 1
         /\ \A appended \in BOOLEAN :
              Fail(appended) =>
                /\ Head(inflight) \in OnTheWay
                /\ \/ /\ OnTheWay' \subseteq OnTheWay \union {Retried(Head(inflight))}
                      /\ (OnTheWay \ {Head(inflight)}) \union {Retried(Head(inflight))} \subseteq OnTheWay'
                      /\ errors' = errors
                   \/ /\ OnTheWay' \subseteq OnTheWay
                      /\ OnTheWay \ {Head(inflight)} \subseteq OnTheWay'
                      /\ Head(inflight).row \in failed' /\ errors' = errors + 1
         /\ Kill => OnTheWay' \subseteq OnTheWay
         /\ \/ \E raises \in BOOLEAN : Send(raises)
            \/ \E appended \in BOOLEAN : Fail(appended)
            \/ Kill
            \/ OnTheWay' = OnTheWay /\ failed' = failed
<1>1. /\ queue \in Seq(Records) /\ inflight \in Seq(Records) /\ topic \in Seq(Records)
      /\ Range(queue) \subseteq Records /\ Range(inflight) \subseteq Records
      /\ Range(topic) \subseteq Records
      /\ IsFiniteSet(Range(queue)) /\ IsFiniteSet(Range(inflight)) /\ IsFiniteSet(Range(topic))
  <2>1. queue \in Seq(Records) /\ inflight \in Seq(Records) /\ topic \in Seq(Records)
    BY DEF Typed
  <2> QED BY <2>1, RangeElements
<1>2. OnTheWay \subseteq Records /\ IsFiniteSet(OnTheWay)
  <2>1. IsFiniteSet(Range(topic) \union Range(inflight))
    BY <1>1, FS_Union
  <2>2. IsFiniteSet(Range(topic) \union Range(inflight) \union Range(queue))
    BY <1>1, <2>1, FS_Union
  <2> QED BY <1>1, <2>2 DEF OnTheWay
<1>3. ASSUME NEW raises \in BOOLEAN, Send(raises)
      PROVE  \/ OnTheWay' = OnTheWay /\ Head(batch) \in failed'
                /\ errors' = errors + 1 /\ sent' = sent
             \/ OnTheWay' = OnTheWay \union {SentRecord(Head(batch))}
                /\ errors' = errors /\ sent' = sent + 1
  <2> DEFINE i == Head(batch)
             r == SentRecord(i)
  <2>1. /\ r \in Records /\ inflight' = inflight /\ topic' = topic
        /\ \/ /\ errors' = errors + 1 /\ failed' = failed \union {i} /\ UNCHANGED <<queue, sent>>
           \/ queue' = Append(queue, r) /\ sent' = sent + 1 /\ UNCHANGED <<errors, failed>>
    BY <1>3, SendEffect
  <2> HIDE DEF i, r
  <2>2. Range(Append(queue, r)) = Range(queue) \union {r}
    BY <1>1, <2>1, RangeAppend
  <2>3. CASE errors' = errors + 1 /\ failed' = failed \union {i} /\ UNCHANGED <<queue, sent>>
    BY <2>1, <2>3 DEF OnTheWay, i
  <2>4. CASE queue' = Append(queue, r) /\ sent' = sent + 1 /\ UNCHANGED <<errors, failed>>
    <3>1. OnTheWay' = OnTheWay \union {r}
      BY <2>1, <2>2, <2>4 DEF OnTheWay
    <3> QED BY <2>4, <3>1 DEF r, i
  <2> QED BY <2>1, <2>3, <2>4
<1>4. ASSUME NEW appended \in BOOLEAN, Fail(appended)
      PROVE  /\ Head(inflight) \in OnTheWay
             /\ \/ /\ OnTheWay' \subseteq OnTheWay \union {Retried(Head(inflight))}
                   /\ (OnTheWay \ {Head(inflight)}) \union {Retried(Head(inflight))} \subseteq OnTheWay'
                   /\ errors' = errors
                \/ /\ OnTheWay' \subseteq OnTheWay
                   /\ OnTheWay \ {Head(inflight)} \subseteq OnTheWay'
                   /\ Head(inflight).row \in failed' /\ errors' = errors + 1
  <2> DEFINE r == Head(inflight)
             rest == Tail(inflight)
             again == Retried(r)
             one == <<again>>
  <2>1. /\ inflight # <<>> /\ again \in Records /\ inflight' = rest
        /\ topic' = topic \/ topic' = Append(topic, r)
        /\ \/ queue' = one \o queue /\ UNCHANGED <<errors, failed>>
           \/ /\ errors' = errors + 1 /\ failed' = failed \union {r.row}
              /\ UNCHANGED queue
    BY <1>4, FailEffect
  <2>2. r \in Records /\ Range(inflight) = {r} \union Range(rest)
    BY <1>1, <2>1, RangeHeadTail
  <2>3. /\ one \in Seq(Records) /\ Range(one) = {again}
        /\ InOrder(one, Records \X Records) /\ InOrder(queue, Records \X Records)
    <3>1. one \in Seq(Records) /\ Range(one) = {again} /\ InOrder(one, Records \X Records)
      BY <2>1, InOrderSingle
    <3>2. InOrder(queue, Records \X Records)
      BY <1>1, ElementOfSeq DEF InOrder
    <3> QED BY <3>1, <3>2
  <2> HIDE DEF r, rest, again, one
  <2>4. Range(one \o queue) = {again} \union Range(queue)
    <3>1. Precede(Range(one), Range(queue), Records \X Records)
      BY <1>1, <2>1, <2>3 DEF Precede
    <3> DEFINE G == Records \X Records
    <3>2. /\ one \in Seq(Records) /\ queue \in Seq(Records)
          /\ InOrder(one, G) /\ InOrder(queue, G) /\ Precede(Range(one), Range(queue), G)
      BY <1>1, <2>3, <3>1
    <3> HIDE DEF G
    <3>3. Range(one \o queue) = Range(one) \union Range(queue)
      BY <3>2, InOrderConcat
    <3> QED BY <2>3, <3>3
  <2>5. Range(topic) \subseteq Range(topic') /\ Range(topic') \subseteq Range(topic) \union {r}
    <3>1. Range(Append(topic, r)) = Range(topic) \union {r}
      BY <1>1, <2>2, RangeAppend
    <3> QED BY <2>1, <3>1
  <2>6. r \in OnTheWay
    BY <2>2 DEF OnTheWay
  <2>7. CASE queue' = one \o queue /\ UNCHANGED <<errors, failed>>
    <3>1. /\ OnTheWay' \subseteq OnTheWay \union {again}
          /\ (OnTheWay \ {r}) \union {again} \subseteq OnTheWay'
      BY <2>1, <2>2, <2>4, <2>5, <2>7 DEF OnTheWay
    <3> QED BY <2>6, <2>7, <3>1 DEF r, again
  <2>8. CASE errors' = errors + 1 /\ failed' = failed \union {r.row} /\ UNCHANGED queue
    <3>1. OnTheWay' \subseteq OnTheWay /\ OnTheWay \ {r} \subseteq OnTheWay'
      BY <2>1, <2>2, <2>5, <2>8 DEF OnTheWay
    <3> QED BY <2>6, <2>8, <3>1 DEF r
  <2> QED BY <2>1, <2>7, <2>8
<1>5. ASSUME Kill PROVE OnTheWay' \subseteq OnTheWay
  <2> DEFINE G == Records \X Records
  <2>1. PICK n \in 0..Len(inflight) : topic' = topic \o SubSeq(inflight, 1, n)
    BY <1>5 DEF Kill
  <2> DEFINE arrived == SubSeq(inflight, 1, n)
  <2>2. InOrder(inflight, G) /\ InOrder(topic, G)
    BY <1>1, ElementOfSeq DEF InOrder
  <2>3. /\ arrived \in Seq(Records) /\ InOrder(arrived, G) /\ Range(arrived) \subseteq Range(inflight)
    BY <1>1, <2>2, RangePrefix, InOrderPrefix
  <2>4. Precede(Range(topic), Range(arrived), G)
    BY <1>1, <2>3 DEF Precede
  <2> HIDE DEF arrived, G
  <2>5. Range(topic \o arrived) = Range(topic) \union Range(arrived)
    BY <1>1, <2>2, <2>3, <2>4, InOrderConcat
  <2>6. queue' = <<>> /\ inflight' = <<>>
    BY <1>5 DEF Kill
  <2> QED BY <2>1, <2>3, <2>5, <2>6, RangeEmpty DEF OnTheWay, arrived
<1>6. ASSUME Transmit PROVE OnTheWay' = OnTheWay /\ failed' = failed
  <2>1. /\ queue # <<>> /\ topic' = topic /\ inflight' = Append(inflight, Head(queue))
        /\ queue' = Tail(queue) /\ failed' = failed
    BY <1>6 DEF Transmit, history
  <2>2. Head(queue) \in Records /\ Range(queue) = {Head(queue)} \union Range(Tail(queue))
    BY <1>1, <2>1, RangeHeadTail
  <2>3. Range(Append(inflight, Head(queue))) = Range(inflight) \union {Head(queue)}
    BY <1>1, <2>2, RangeAppend
  <2> QED BY <2>1, <2>2, <2>3 DEF OnTheWay
<1>7. ASSUME Acknowledge PROVE OnTheWay' = OnTheWay /\ failed' = failed
  <2>1. /\ inflight # <<>> /\ queue' = queue /\ topic' = Append(topic, Head(inflight))
        /\ inflight' = Tail(inflight) /\ failed' = failed
    BY <1>7 DEF Acknowledge, history
  <2>2. Head(inflight) \in Records /\ Range(inflight) = {Head(inflight)} \union Range(Tail(inflight))
    BY <1>1, <2>1, RangeHeadTail
  <2>3. Range(Append(topic, Head(inflight))) = Range(topic) \union {Head(inflight)}
    BY <1>1, <2>2, RangeAppend
  <2> QED BY <2>1, <2>2, <2>3 DEF OnTheWay
<1>8. (\E skip_rows \in 0..Len(file) : Run(skip_rows)) \/ ReadBatch \/ Discard \/ Leave \/ Flush
        \/ UNCHANGED vars => OnTheWay' = OnTheWay /\ failed' = failed
  BY DEF Run, ReadBatch, Discard, Leave, Flush, vars, kafka, history, OnTheWay
<1>9. \/ \E raises \in BOOLEAN : Send(raises)
      \/ \E appended \in BOOLEAN : Fail(appended)
      \/ Kill
      \/ OnTheWay' = OnTheWay /\ failed' = failed
  BY <1>6, <1>7, <1>8 DEF Next
<1> QED BY <1>2, <1>3, <1>4, <1>5, <1>9
-----------------------------------------------------------------------------
(* What is known of the records of the run *)

\* A record of the run that goes on stems from a row before the reader and
\* before what is left of its batch, and its label is that of a box no larger
\* than the present one.
Placed(r) ==
  /\ r.run <= runs /\ Sensor(r.row) \in Sensors
  /\ r.run = runs =>
       /\ r.batch <= number /\ r.row <= pos
       /\ \A i \in Range(batch) : r.row # i /\ (r.batch = number => <<r.row, i>> \in Earlier)
       /\ r.mobile => boxes[Sensor(r.row)] # None /\ boxes[Sensor(r.row)].mobile

\* What is left of the batch is in order, and the reader is behind it.
Ahead == InOrder(batch, Earlier) /\ \A i \in Range(batch) : i <= pos

AllPlaced == Ahead /\ \A r \in OnTheWay : Placed(r)

LEMMA FileStays == [Next]_vars => UNCHANGED <<file, Earlier>>
<1> SUFFICES ASSUME [Next]_vars PROVE UNCHANGED <<file, Earlier>>
  OBVIOUS
<1>1. file' = file
  BY DEF Next, vars, Run, ReadBatch, Discard, Send, Transmit, Acknowledge, Fail, Leave, Flush, Kill
<1>2. \A i, j : Before(i, j)' <=> Before(i, j)
  BY <1>1 DEF Before, OrderCol
<1> QED BY <1>1, <1>2 DEF Earlier

LEMMA BatchShrinks ==
  ASSUME Typed, batch # <<>>
  PROVE  /\ Head(batch) \in Positions /\ Tail(batch) \in Seq(Positions)
         /\ Range(batch) = {Head(batch)} \union Range(Tail(batch))
  BY RangeHeadTail DEF Typed

LEMMA NextAhead == Typed /\ Ahead /\ [Next]_vars => Ahead'
<1> SUFFICES ASSUME Typed, Ahead, [Next]_vars PROVE Ahead'
  OBVIOUS
<1>1. Earlier' = Earlier /\ batch \in Seq(Positions)
  BY FileStays DEF Typed
<1>2. CASE batch' = <<>>
  BY <1>2, InOrderEmpty DEF Ahead
<1>3. CASE UNCHANGED <<batch, pos>>
  BY <1>1, <1>3 DEF Ahead
<1>4. CASE ReadBatch
  <2>1. /\ batch' \in Seq(Positions) /\ \A i \in Range(batch') : i <= pos'
        /\ \A k, l \in 1..Len(batch') : k < l => Before(batch'[k], batch'[l])
    BY <1>4, ReadBatchEffect
  <2> DEFINE b == batch'
  <2>2. \A k, l \in 1..Len(b) : k < l => Before(b[k], b[l])
    BY <2>1
  <2>3. b \in Seq(Positions)
    BY <2>1
  <2> HIDE DEF b
  <2>4. InOrder(b, Earlier)
    BY <2>2, <2>3, ElementOfSeq DEF InOrder, Earlier
  <2> QED BY <1>1, <2>1, <2>4 DEF Ahead, b
<1>5. ASSUME batch # <<>>, batch' = Tail(batch), pos' = pos PROVE Ahead'
  <2>1. InOrder(Tail(batch), Earlier)
    BY <1>1, <1>5, InOrderTail DEF Ahead
  <2>2. Range(Tail(batch)) \subseteq Range(batch)
    BY <1>5, BatchShrinks
  <2> QED BY <1>1, <1>5, <2>1, <2>2 DEF Ahead
<1>6. Discard \/ (\E raises \in BOOLEAN : Send(raises)) => batch # <<>> /\ batch' = Tail(batch) /\ pos' = pos
  BY DEF Discard, Send
<1>7. (\E skip_rows \in 0..Len(file) : Run(skip_rows)) \/ Leave \/ Kill => batch' = <<>>
  BY DEF Run, Leave, Kill
<1>8. Transmit \/ Acknowledge \/ (\E appended \in BOOLEAN : Fail(appended)) \/ Flush \/ UNCHANGED vars
        => UNCHANGED <<batch, pos>>
  BY DEF Transmit, Acknowledge, Fail, Flush, vars, reader
<1> QED BY <1>2, <1>3, <1>4, <1>5, <1>6, <1>7, <1>8 DEF Next

LEMMA PlacedStays ==
  ASSUME Typed, Ahead, [Next]_vars, NEW r \in Records, Placed(r)
  PROVE  Placed(r)'
<1>1. /\ r.run \in Nat /\ runs \in Nat /\ r.batch \in Nat /\ number \in Nat
      /\ r.row \in Nat /\ pos \in Nat /\ r.row \in Positions
  BY ProviderAssumption DEF Typed, Records, Positions
<1>2. Sensor(r.row)' = Sensor(r.row) /\ Sensor(r.row) \in Sensors /\ Earlier' = Earlier
  BY FileStays DEF Sensor, resolve_sensor_id, Placed
<1>3. ASSUME UNCHANGED <<runs, number, pos>>, Range(batch') \subseteq Range(batch),
             boxes' = boxes
      PROVE  Placed(r)'
  BY <1>2, <1>3 DEF Placed
<1>4. ASSUME NEW skip_rows \in 0..Len(file), Run(skip_rows) PROVE Placed(r)'
  <2>1. runs' = runs + 1 /\ r.run <= runs
    BY <1>4 DEF Run, Placed
  <2>2. r.run <= runs' /\ r.run # runs'
    BY <1>1, <2>1
  <2> QED BY <1>2, <2>2 DEF Placed
<1>5. CASE ReadBatch
  <2>1. /\ pos' \in pos..MaxRows /\ \A i \in Range(batch') : pos < i
        /\ number' = number + 1 /\ runs' = runs /\ boxes' = boxes /\ Range(batch') \subseteq Positions
    BY <1>5, ReadBatchEffect, RangeElements
  <2>2. ASSUME r.run = runs
        PROVE  /\ r.batch <= number' /\ r.batch # number' /\ r.row <= pos'
               /\ \A i \in Range(batch') : r.row # i
    <3>1. r.batch <= number /\ r.row <= pos /\ pos' \in Int /\ pos <= pos'
      BY <2>1, <2>2 DEF Placed
    <3>2. \A i \in Range(batch') : r.row # i
      BY <1>1, <2>1, <3>1 DEF Positions
    <3> QED BY <1>1, <2>1, <3>1, <3>2
  <2> QED BY <1>2, <2>1, <2>2 DEF Placed
<1>6. CASE Discard
  <2>1. Range(batch') \subseteq Range(batch)
    BY <1>6, BatchShrinks DEF Discard
  <2> QED BY <1>3, <1>6, <2>1 DEF Discard
<1>7. ASSUME NEW raises \in BOOLEAN, Send(raises) PROVE Placed(r)'
  <2> DEFINE i == Head(batch)
             s == Sensor(r.row)
  <2>1. /\ batch # <<>> /\ batch' = Tail(batch) /\ UNCHANGED <<runs, pos, number>>
        /\ boxes' = [boxes EXCEPT ![Sensor(i)] = SentBox(i)]
        /\ i \in Positions /\ Sensor(i) \in Sensors /\ SentBox(i) \in Boxes
    BY <1>7, SendEffect
  <2>2. Range(batch') \subseteq Range(batch)
    BY <2>1, BatchShrinks
  <2>3. ASSUME boxes[s] # None, boxes[s].mobile PROVE boxes'[s] # None /\ boxes'[s].mobile
    <3>1. CASE s # Sensor(i)
      BY <2>1, <2>3, <3>1
    <3>2. CASE s = Sensor(i)
      <4>1. boxes[s] \in Boxes /\ boxes'[s] = SentBox(i)
        BY <1>2, <2>1, <2>3, <3>2 DEF Typed
      <4>2. file[i].place \in Int
        <5>1. file[i] \in Rows /\ file[i].place # None
          BY <1>7, <2>1 DEF Send, Mappable, Typed, IsFile, Positions
        <5> QED BY <5>1, ProviderAssumption
      <4>3. SentBox(i) = boxes[s]
        BY <2>3, <3>2, <4>1, <4>2, ClassifiedBox DEF SentBox
      <4> QED BY <2>3, <4>1, <4>3
    <3> QED BY <3>1, <3>2
  <2> HIDE DEF i
  <2> QED BY <1>2, <2>1, <2>2, <2>3 DEF Placed
<1>8. Transmit \/ Acknowledge \/ (\E appended \in BOOLEAN : Fail(appended)) \/ Flush \/ UNCHANGED vars
        => UNCHANGED <<batch, pos, number, runs, boxes>>
  BY DEF Transmit, Acknowledge, Fail, Flush, vars, reader
<1>9. Leave \/ Kill => batch' = <<>> /\ UNCHANGED <<pos, number, runs, boxes>>
  BY DEF Leave, Kill
<1> QED BY <1>3, <1>4, <1>5, <1>6, <1>7, <1>8, <1>9, RangeEmpty DEF Next
LEMMA SentIsPlaced ==
  ASSUME Typed, Ahead, [Next]_vars, NEW raises \in BOOLEAN, Send(raises),
         NEW r, r = SentRecord(Head(batch))
  PROVE  Placed(r)'
<1> DEFINE i == Head(batch)
           s == Sensor(i)
<1>1. /\ batch # <<>> /\ batch' = Tail(batch) /\ UNCHANGED <<runs, pos, number>>
      /\ boxes' = [boxes EXCEPT ![s] = SentBox(i)]
      /\ i \in Positions /\ s \in Sensors /\ SentBox(i) \in Boxes
  BY SendEffect
<1>2. /\ r.row = i /\ r.run = runs /\ r.batch = number /\ r.mobile = SentBox(i).mobile
      /\ runs \in Nat /\ number \in Nat /\ i \in Nat /\ batch \in Seq(Positions)
  BY <1>1 DEF SentRecord, Typed, Positions
<1>3. Sensor(r.row)' = s /\ Earlier' = Earlier
  BY <1>2, FileStays DEF Sensor, resolve_sensor_id
<1>4. boxes'[s] # None /\ boxes'[s] = SentBox(i)
  <2>1. boxes'[s] = SentBox(i)
    BY <1>1 DEF Typed
  <2> QED BY <1>1, <2>1, ProviderAssumption DEF Boxes
<1>5. i <= pos
  BY <1>1, BatchShrinks DEF Ahead
<1>6. ASSUME NEW j \in Range(batch') PROVE i # j /\ <<i, j>> \in Earlier
  <2>1. <<i, j>> \in Earlier
    BY <1>1, <1>2, <1>6, InOrderTail DEF Ahead, Precede
  <2>2. IsFile
    BY DEF Typed
  <2> QED BY <1>1, <2>1, <2>2, BeforeOrders
<1> HIDE DEF i, s
<1> QED BY <1>1, <1>2, <1>3, <1>4, <1>5, <1>6 DEF Placed

LEMMA RetriedIsPlaced ==
  ASSUME NEW q \in Records, Placed(q)
  PROVE  Placed(Retried(q)) /\ Retried(q).row = q.row /\ Retried(q).run = q.run
         /\ Retried(q).tries > 0
<1>1. /\ Retried(q).row = q.row /\ Retried(q).run = q.run /\ Retried(q).batch = q.batch
      /\ Retried(q).mobile = q.mobile /\ Retried(q).tries = q.tries + 1 /\ q.tries \in Nat
  BY DEF Retried, Records
<1> QED BY <1>1 DEF Placed

LEMMA InitAllPlaced == Init => AllPlaced
  BY RangeEmpty, InOrderEmpty DEF Init, AllPlaced, Ahead, OnTheWay

LEMMA NextAllPlaced == Typed /\ AllPlaced /\ [Next]_vars => AllPlaced'
<1> SUFFICES ASSUME Typed, AllPlaced, [Next]_vars PROVE AllPlaced'
  OBVIOUS
<1>1. Ahead /\ Ahead' /\ OnTheWay \subseteq Records
  BY NextAhead, RecordsMove DEF AllPlaced
<1>2. \A r \in OnTheWay : Placed(r)'
  BY <1>1, PlacedStays DEF AllPlaced
<1>3. ASSUME NEW raises \in BOOLEAN, Send(raises), NEW r \in OnTheWay' PROVE Placed(r)'
  <2>1. r \in OnTheWay \/ r = SentRecord(Head(batch))
    BY <1>3, RecordsMove
  <2> QED BY <1>1, <1>2, <1>3, <2>1, SentIsPlaced
<1>4. ASSUME NEW appended \in BOOLEAN, Fail(appended), NEW r \in OnTheWay' PROVE Placed(r)'
  <2>1. r \in OnTheWay \/ r = Retried(Head(inflight))
    BY <1>4, RecordsMove
  <2>2. Head(inflight) \in OnTheWay
    BY <1>4, RecordsMove
  <2>3. Head(inflight) \in Records /\ Placed(Head(inflight)) /\ Retried(Head(inflight)) \in Records
    BY <1>1, <1>4, <2>2, FailEffect DEF AllPlaced
  <2>4. Placed(Retried(Head(inflight)))
    BY <2>3, RetriedIsPlaced
  <2>5. ASSUME r = Retried(Head(inflight)) PROVE r \in Records /\ Placed(r)
    BY <2>3, <2>4, <2>5
  <2> QED BY <1>1, <1>2, <2>1, <2>5, PlacedStays
<1>5. ASSUME OnTheWay' \subseteq OnTheWay PROVE \A r \in OnTheWay' : Placed(r)'
  BY <1>2, <1>5
<1>6. \A r \in OnTheWay' : Placed(r)'
  BY <1>3, <1>4, <1>5, RecordsMove
<1> QED BY <1>1, <1>6 DEF AllPlaced

LEMMA PlacedInvariant == Spec => [](Typed /\ AllPlaced)
<1> QED BY TypedInvariant, InitAllPlaced, NextAllPlaced, PTL DEF Spec

-----------------------------------------------------------------------------
(* Order and labels on the topic *)

\* Two records of a run in the order of the batches and of the upload times,
\* or the later one was sent again.
InUploadOrder(a, b) ==
  a.run = b.run /\ (b.batch < a.batch \/ (b.batch = a.batch /\ Before(b.row, a.row))) => b.tries > 0

\* Two records of a sensor whose labels may follow each other.
LabelsFollow(a, b) ==
  a.run = b.run /\ a.mobile /\ ~b.mobile /\ Sensor(a.row) = Sensor(b.row) => b.tries > 0

Orderly ==
  {p \in Records \X Records : InUploadOrder(p[1], p[2]) /\ LabelsFollow(p[1], p[2])}

Lined == LineUp(topic, inflight, queue, Orderly)

LEMMA OrderlyPairs ==
  ASSUME NEW a \in Records, NEW b \in Records
  PROVE  <<a, b>> \in Orderly <=> InUploadOrder(a, b) /\ LabelsFollow(a, b)
  BY DEF Orderly

LEMMA SentInOrder ==
  ASSUME Typed, AllPlaced, [Next]_vars, NEW raises \in BOOLEAN, Send(raises)
  PROVE  Precede(OnTheWay, {SentRecord(Head(batch))}, Orderly)
<1> DEFINE i == Head(batch)
           s == Sensor(i)
           r == SentRecord(i)
<1>1. i \in Positions /\ s \in Sensors /\ r \in Records /\ batch # <<>>
  BY SendEffect
<1>2. i \in Range(batch) /\ OnTheWay \subseteq Records
  BY <1>1, BatchShrinks, RecordsMove
<1>3. r.row = i /\ r.run = runs /\ r.batch = number /\ r.mobile = SentBox(i).mobile
  BY DEF SentRecord
<1> SUFFICES ASSUME NEW a \in OnTheWay PROVE <<a, r>> \in Orderly
  BY DEF Precede
<1>4. a \in Records /\ Placed(a)
  BY <1>2 DEF AllPlaced
<1>5. /\ number \in Nat /\ a.batch \in Nat /\ a.row \in Positions
  BY <1>4 DEF Typed, Records
<1>6. boxes[s] # None /\ boxes[s].mobile => SentBox(i) = boxes[s]
  <2>1. file[i] \in Rows /\ file[i].place # None
    BY <1>1 DEF Send, Mappable, Typed, IsFile, Positions
  <2>2. file[i].place \in Int
    BY <2>1, ProviderAssumption
  <2>3. boxes[s] \in Boxes \union {None}
    BY <1>1 DEF Typed
  <2> QED BY <2>2, <2>3, ClassifiedBox DEF SentBox
<1>7. IsFile
  BY DEF Typed
<1> HIDE DEF i, s, r
<1>8. ASSUME a.run = runs, r.batch = a.batch PROVE ~Before(i, a.row)
  <2>1. <<a.row, i>> \in Earlier
    BY <1>2, <1>3, <1>4, <1>8 DEF Placed
  <2>2. <<i, a.row>> \notin Earlier
    BY <1>1, <1>5, <1>7, <2>1, BeforeOrders
  <2> QED BY <1>1, <1>5, <1>7, <2>2, BeforeOrders
<1>9. a.run = runs => ~(r.batch < a.batch)
  BY <1>3, <1>4, <1>5 DEF Placed
<1>10. InUploadOrder(a, r)
  BY <1>3, <1>8, <1>9 DEF InUploadOrder
<1>11. Sensor(r.row) = s
  BY <1>3 DEF s
<1>12. ASSUME a.run = runs, a.mobile, Sensor(a.row) = s PROVE r.mobile
  BY <1>3, <1>4, <1>6, <1>12 DEF Placed
<1>13. LabelsFollow(a, r)
  BY <1>3, <1>11, <1>12 DEF LabelsFollow
<1> QED BY <1>1, <1>4, <1>10, <1>13, OrderlyPairs

LEMMA NextLined == Typed /\ AllPlaced /\ Lined /\ [Next]_vars => Lined'
<1> SUFFICES ASSUME Typed, AllPlaced, Lined, [Next]_vars PROVE Lined'
  OBVIOUS
<1>1. Orderly' = Orderly
  <2>1. file' = file
    BY FileStays
  <2>2. ASSUME NEW a, NEW b
        PROVE  /\ InUploadOrder(a, b)' <=> InUploadOrder(a, b)
               /\ LabelsFollow(a, b)' <=> LabelsFollow(a, b)
    BY <2>1 DEF InUploadOrder, LabelsFollow, Before, OrderCol, Sensor, resolve_sensor_id
  <2> QED BY <2>2 DEF Orderly
<1>2. \A a, b \in Records : b.tries > 0 => <<a, b>> \in Orderly
  BY OrderlyPairs DEF InUploadOrder, LabelsFollow
<1>3. ASSUME NEW a \in Records, NEW b \in Records, <<a, b>> \in Orderly
      PROVE  <<Retried(a), b>> \in Orderly
  <2> DEFINE again == Retried(a)
  <2>1. /\ again \in Records /\ again.row = a.row /\ again.run = a.run
        /\ again.batch = a.batch /\ again.mobile = a.mobile
    BY DEF Retried, Records
  <2>2. InUploadOrder(a, b) /\ LabelsFollow(a, b)
    BY <1>3, OrderlyPairs
  <2> HIDE DEF again
  <2>3. InUploadOrder(again, b) /\ LabelsFollow(again, b)
    BY <2>1, <2>2 DEF InUploadOrder, LabelsFollow
  <2>4. <<again, b>> \in Orderly
    BY <2>1, <2>3, OrderlyPairs
  <2> QED BY <2>4 DEF again
<1>4. \A raises \in BOOLEAN :
        Send(raises) => Precede(OnTheWay, {SentRecord(Head(batch))}, Orderly)
  BY SentInOrder
<1> DEFINE G == Orderly
<1>5. /\ LineUp(topic, inflight, queue, G) /\ \A a, b \in Records : b.tries > 0 => <<a, b>> \in G
      /\ \A a, b \in Records : <<a, b>> \in G => <<Retried(a), b>> \in G
      /\ \A raises \in BOOLEAN : Send(raises) => Precede(OnTheWay, {SentRecord(Head(batch))}, G)
  BY <1>2, <1>3, <1>4 DEF Lined
<1> HIDE DEF G
<1>6. LineUp(topic', inflight', queue', G)
  BY <1>5, LineStep
<1> QED BY <1>1, <1>6 DEF Lined, G

LEMMA LinedInvariant == Spec => [](Typed /\ Lined)
<1>1. Init => Lined
  BY RangeEmpty, InOrderEmpty DEF Init, Lined, LineUp, Precede
<1> QED BY <1>1, PlacedInvariant, NextLined, PTL DEF Spec

LEMMA TopicInOrder ==
  ASSUME Typed, Lined, NEW k \in DOMAIN topic, NEW l \in DOMAIN topic, k < l
  PROVE  InUploadOrder(topic[k], topic[l]) /\ LabelsFollow(topic[k], topic[l])
<1>1. topic \in Seq(Records) /\ InOrder(topic, Orderly)
  BY DEF Typed, Lined, LineUp
<1>2. k \in 1..Len(topic) /\ l \in 1..Len(topic)
  BY <1>1, LenProperties
<1>3. topic[k] \in Records /\ topic[l] \in Records
  BY <1>1, <1>2, ElementOfSeq
<1> QED BY <1>1, <1>2, <1>3, OrderlyPairs DEF InOrder

\* Within a run radiation.raw has the batches of csv_reader.py in order and each
\* batch by upload time: only a record that kafka-python sent again stands
\* behind its successors.
THEOREM UploadOrder == Spec => []OrderBrokenOnlyByRetry
<1>1. Typed /\ Lined => OrderBrokenOnlyByRetry
  BY TopicInOrder DEF OrderBrokenOnlyByRetry, InUploadOrder
<1> QED BY <1>1, LinedInvariant, PTL

\* A sensor that sensor_classifier.py labelled mobile is not labelled fixed
\* again further on in the topic in the same run, except by a record that
\* kafka-python sent again.
THEOREM MobileStaysMobile == Spec => []LabelsSharpen
<1>1. Typed /\ Lined => LabelsSharpen
  BY TopicInOrder DEF LabelsSharpen, LabelsFollow, Sensor
<1> QED BY <1>1, LinedInvariant, PTL
-----------------------------------------------------------------------------
(* What a run that resumes leaves behind *)

\* A row in span for which row_to_event gives an event.
Needed(i) == in_span(file[i]) /\ Mappable(file[i])

\* The row is on its way to the topic or there, or an error was counted for it.
Handled(i) == (\E r \in OnTheWay : r.row = i) \/ i \in failed

\* Only a run that goes on has a batch, and one that has ended has nothing under way.
Quiet ==
  /\ phase # "running" => batch = <<>>
  /\ phase \in {"done", "killed"} => queue = <<>> /\ inflight = <<>>

\* Without a gap every row before `complete' is handled, and every row before
\* the reader is handled or still in the batch.
Resumed ==
  ~gap /\ phase # "killed" =>
    /\ \A i \in Positions : i <= complete /\ Needed(i) => Handled(i)
    /\ phase = "running" =>
         \A i \in Positions : i <= pos /\ Needed(i) => Handled(i) \/ i \in Range(batch)

LEMMA InitQuiet == Init => Quiet
  BY DEF Init, Quiet

LEMMA NextQuiet == Quiet /\ [Next]_vars => Quiet'
<1> SUFFICES ASSUME Quiet, [Next]_vars PROVE Quiet'
  OBVIOUS
<1>1. CASE \E skip_rows \in 0..Len(file) : Run(skip_rows)
  BY <1>1 DEF Run, Quiet
<1>2. CASE ReadBatch \/ Discard \/ \E raises \in BOOLEAN : Send(raises)
  BY <1>2 DEF ReadBatch, Discard, Send, Quiet, kafka
<1>3. CASE Transmit \/ Acknowledge \/ \E appended \in BOOLEAN : Fail(appended)
  BY <1>3 DEF Transmit, Acknowledge, Fail, Quiet, reader
<1>4. CASE Leave \/ Flush \/ Kill
  BY <1>4 DEF Leave, Flush, Kill, Quiet, kafka, reader
<1>5. CASE UNCHANGED vars
  BY <1>5 DEF vars, reader, kafka, Quiet
<1> QED BY <1>1, <1>2, <1>3, <1>4, <1>5 DEF Next

LEMMA HandledStays ==
  ASSUME Typed, [Next]_vars, ~Kill, NEW i, Handled(i)
  PROVE  Handled(i)'
<1>1. ASSUME NEW raises \in BOOLEAN, Send(raises) PROVE Handled(i)'
  <2>1. OnTheWay \subseteq OnTheWay'
    BY <1>1, RecordsMove
  <2>2. failed \subseteq failed'
    BY <1>1, SendEffect
  <2> QED BY <2>1, <2>2 DEF Handled
<1>2. ASSUME NEW appended \in BOOLEAN, Fail(appended) PROVE Handled(i)'
  <2> DEFINE q == Head(inflight)
  <2>1. q \in Records /\ failed \subseteq failed'
    BY <1>2, FailEffect
  <2>2. \/ (OnTheWay \ {q}) \union {Retried(q)} \subseteq OnTheWay'
        \/ OnTheWay \ {q} \subseteq OnTheWay' /\ q.row \in failed'
    BY <1>2, RecordsMove
  <2>3. Retried(q).row = q.row
    BY <2>1 DEF Retried, Records
  <2> HIDE DEF q
  <2> QED BY <2>1, <2>2, <2>3 DEF Handled
<1>3. CASE OnTheWay' = OnTheWay /\ failed' = failed
  BY <1>3 DEF Handled
<1> QED BY <1>1, <1>2, <1>3, RecordsMove

LEMMA NextResumed == Typed /\ Quiet /\ Resumed /\ [Next]_vars => Resumed'
<1> SUFFICES ASSUME Typed, Quiet, Resumed, [Next]_vars PROVE Resumed'
  OBVIOUS
<1> SUFFICES ASSUME ~gap', phase' # "killed"
             PROVE  /\ \A i \in Positions : i <= complete' /\ Needed(i) => Handled(i)'
                    /\ phase' = "running" =>
                         \A i \in Positions : i <= pos' /\ Needed(i) => Handled(i)' \/ i \in Range(batch')
  <2>1. ASSUME NEW i PROVE Needed(i)' <=> Needed(i)
    <3>1. file' = file
      BY FileStays
    <3> QED BY <3>1 DEF Needed, in_span, start_ts, end_ts, Mappable, resolve_sensor_id
  <2> QED BY <2>1 DEF Resumed
<1>1. ~Kill /\ \A i : Handled(i) => Handled(i)'
  BY HandledStays DEF Kill
<1>2. complete \in Int /\ pos \in Int /\ \A i \in Positions : i \in Int
  BY DEF Typed, Positions
<1>3. ASSUME NEW skip_rows \in 0..Len(file), Run(skip_rows)
      PROVE  /\ ~gap /\ phase # "killed" /\ complete' = pos' /\ complete' \in Int /\ complete' <= complete
  <2>1. ~gap /\ phase # "killed" /\ ~(skip_rows > complete) /\ complete' = skip_rows /\ pos' = skip_rows
    BY <1>3 DEF Run
  <2> QED BY <1>2, <1>3, <2>1
<1>4. CASE \E skip_rows \in 0..Len(file) : Run(skip_rows)
  <2>1. \A i \in Positions : i <= complete' => i <= complete
    BY <1>2, <1>3, <1>4
  <2> QED BY <1>1, <1>3, <1>4, <2>1 DEF Resumed
<1>5. CASE ReadBatch
  <2>1. /\ batch = <<>> /\ complete' = pos /\ phase = "running" /\ ~gap
        /\ \A i \in Positions : pos < i /\ i <= pos' /\ in_span(file[i]) => i \in Range(batch')
    BY <1>5, ReadBatchEffect DEF ReadBatch
  <2>2. \A i \in Positions : i <= pos /\ Needed(i) => Handled(i)
    BY <2>1, RangeEmpty DEF Resumed
  <2>3. ASSUME NEW i \in Positions, i <= pos', Needed(i), ~(i <= pos) PROVE i \in Range(batch')
    <3>1. pos < i
      BY <1>2, <2>3
    <3> QED BY <2>1, <2>3, <3>1 DEF Needed
  <2> QED BY <1>1, <2>1, <2>2, <2>3
<1>6. ASSUME phase = "running", batch # <<>>, batch' = Tail(batch), UNCHANGED <<phase, pos, complete, gap>>,
             \A i : i = Head(batch) => Handled(i)' \/ ~Needed(i)
      PROVE  /\ \A i \in Positions : i <= complete' /\ Needed(i) => Handled(i)'
             /\ \A i \in Positions : i <= pos' /\ Needed(i) => Handled(i)' \/ i \in Range(batch')
  <2>1. Range(batch) = {Head(batch)} \union Range(batch')
    BY <1>6, BatchShrinks
  <2>2. ASSUME NEW i \in Positions, i <= pos, Needed(i) PROVE Handled(i)' \/ i \in Range(batch')
    <3>1. Handled(i) \/ i \in Range(batch)
      BY <1>6, <2>2 DEF Resumed
    <3>2. CASE i = Head(batch)
      BY <1>6, <2>2, <3>2
    <3> QED BY <1>1, <2>1, <3>1, <3>2
  <2>3. \A i \in Positions : i <= complete /\ Needed(i) => Handled(i)'
    BY <1>1, <1>6 DEF Resumed
  <2> QED BY <1>6, <2>2, <2>3
<1>7. CASE Discard
  <2>1. /\ phase = "running" /\ batch # <<>> /\ batch' = Tail(batch)
        /\ UNCHANGED <<phase, pos, complete, gap>> /\ ~Needed(Head(batch))
    BY <1>7 DEF Discard, history, Needed
  <2> QED BY <1>6, <2>1
<1>8. ASSUME NEW raises \in BOOLEAN, Send(raises)
      PROVE  /\ phase = "running" /\ batch # <<>> /\ batch' = Tail(batch)
             /\ UNCHANGED <<phase, pos, complete, gap>>
             /\ \A i : i = Head(batch) => Handled(i)'
  <2>1. /\ phase = "running" /\ batch # <<>> /\ batch' = Tail(batch)
        /\ UNCHANGED <<phase, pos, complete, gap>>
    BY <1>8 DEF Send
  <2> DEFINE i == Head(batch)
  <2>2. i \in failed' \/ SentRecord(i) \in OnTheWay'
    BY <1>8, RecordsMove
  <2>3. SentRecord(i).row = i
    BY DEF SentRecord
  <2>4. i \in failed' \/ \E r \in OnTheWay' : r.row = i
    BY <2>2, <2>3
  <2> QED BY <2>1, <2>4 DEF Handled
<1>9. CASE Transmit \/ Acknowledge \/ (\E appended \in BOOLEAN : Fail(appended)) \/ UNCHANGED vars
  <2>1. UNCHANGED <<phase, pos, batch, complete, gap>>
    BY <1>9 DEF Transmit, Acknowledge, Fail, vars, reader, history
  <2> QED BY <1>1, <2>1 DEF Resumed
<1>10. CASE Flush
  <2>1. phase' = "done" /\ phase # "killed" /\ UNCHANGED <<complete, gap>>
    BY <1>10 DEF Flush, history
  <2> QED BY <1>1, <2>1 DEF Resumed
<1>11. CASE Leave
  <2>1. phase = "running" /\ phase' = "flushing" /\ ~gap
    BY <1>11 DEF Leave
  <2>2. \/ batch = <<>> /\ Eligible = {} /\ complete' = Len(file)
        \/ batch = <<>> /\ complete' = pos
        \/ complete' = complete
    BY <1>11 DEF Leave
  <2>3. batch = <<>> => \A i \in Positions : i <= pos /\ Needed(i) => Handled(i)
    BY <2>1, RangeEmpty DEF Resumed
  <2>4. ASSUME batch = <<>>, Eligible = {}
        PROVE  \A i \in Positions : Needed(i) => Handled(i)
    <3>1. ASSUME NEW i \in Positions, Needed(i), ~(i <= pos) PROVE FALSE
      <4>1. i \in (pos + 1)..Len(file)
        BY <1>2, <3>1 DEF Typed, IsFile, Positions
      <4> QED BY <2>4, <3>1, <4>1 DEF Eligible, Needed
    <3> QED BY <2>3, <2>4, <3>1
  <2> QED BY <1>1, <2>1, <2>2, <2>3, <2>4 DEF Resumed
<1> QED BY <1>1, <1>4, <1>5, <1>6, <1>7, <1>8, <1>9, <1>10, <1>11 DEF Next

LEMMA ResumedInvariant == Spec => [](Typed /\ Quiet /\ Resumed)
<1>1. Init => Resumed
  BY ProviderAssumption DEF Init, Resumed, Positions
<1> QED BY <1>1, InitQuiet, NextQuiet, TypedInvariant, NextResumed, PTL DEF Spec

\* Once a run is over only the topic has records.
LEMMA EndedOnTopic ==
  ASSUME Quiet, phase = "done"
  PROVE  OnTheWay = Range(topic)
  BY RangeEmpty DEF Quiet, OnTheWay

\* Runs of main that are not killed, each resumed with --skip-rows where every
\* batch before had been handled, leave no row in span behind: it is on the
\* topic, it gave no event, or an error was counted.
THEOREM NoRowLost == Spec => []ResumeLosesNothing
<1>1. Typed /\ Quiet /\ Resumed => ResumeLosesNothing
  <2> SUFFICES ASSUME Typed, Quiet, Resumed, phase = "done", ~gap, NEW i \in 1..complete, Needed(i)
               PROVE  i \in Delivered \union failed
    BY DEF ResumeLosesNothing, Needed
  <2>1. i \in Positions /\ i <= complete
    BY ProviderAssumption DEF Typed, Positions
  <2>2. Handled(i)
    BY <2>1 DEF Resumed
  <2>3. OnTheWay = Range(topic)
    BY EndedOnTopic
  <2> QED BY <2>2, <2>3 DEF Handled, Delivered, Range
<1> QED BY <1>1, ResumedInvariant, PTL
-----------------------------------------------------------------------------
(* The counters *)

RowsSent == {r.row : r \in {r \in OnTheWay : r.run = runs}}

\* What was sent is under way or there, except for what an error was counted for.
Counted ==
  phase # "killed" => sent - errors <= Cardinality(RowsSent) /\ Cardinality(RowsSent) <= sent

LEMMA RowsSentFinite == Typed => IsFiniteSet(RowsSent) /\ Cardinality(RowsSent) \in Nat
<1> SUFFICES ASSUME Typed PROVE IsFiniteSet(RowsSent)
  BY FS_CardinalityType
<1>1. IsFiniteSet(Positions)
  BY ProviderAssumption, FS_Interval DEF Positions
<1>2. RowsSent \in SUBSET Positions
  <2>1. Range(topic) \subseteq Records /\ Range(inflight) \subseteq Records /\ Range(queue) \subseteq Records
    BY RangeElements DEF Typed
  <2> QED BY <2>1 DEF RowsSent, OnTheWay, Records
<1> QED BY <1>1, <1>2, FS_Subset

LEMMA RowsSentFiniteNext ==
  Typed' => IsFiniteSet(RowsSent') /\ Cardinality(RowsSent') \in Nat
<1>1. (IsFiniteSet(RowsSent) /\ Cardinality(RowsSent) \in Nat)'
        <=> IsFiniteSet(RowsSent') /\ Cardinality(RowsSent') \in Nat
  OBVIOUS
<1> QED BY <1>1, RowsSentFinite, PTL

LEMMA NextCounted == Typed /\ Typed' /\ AllPlaced /\ Counted /\ [Next]_vars => Counted'
<1> SUFFICES ASSUME Typed, Typed', AllPlaced, Counted, [Next]_vars PROVE Counted'
  OBVIOUS
<1> SUFFICES ASSUME phase' # "killed"
             PROVE  sent' - errors' <= Cardinality(RowsSent') /\ Cardinality(RowsSent') <= sent'
  BY DEF Counted
<1> DEFINE N == Cardinality(RowsSent)
           M == Cardinality(RowsSent')
<1>1. /\ IsFiniteSet(RowsSent) /\ N \in Nat /\ IsFiniteSet(RowsSent') /\ M \in Nat
      /\ sent \in Nat /\ errors \in Nat
  <2>1. IsFiniteSet(RowsSent) /\ N \in Nat
    BY RowsSentFinite
  <2>2. IsFiniteSet(RowsSent') /\ M \in Nat
    BY RowsSentFiniteNext
  <2> QED BY <2>1, <2>2 DEF Typed
<1>2. ASSUME phase # "killed" PROVE sent - errors <= N /\ N <= sent
  BY <1>2 DEF Counted
<1>3. ASSUME NEW skip_rows \in 0..Len(file), Run(skip_rows)
      PROVE  sent' - errors' <= M /\ M <= sent'
  <2>1. sent' = 0 /\ errors' = 0 /\ runs' = runs + 1 /\ OnTheWay' = OnTheWay
    BY <1>3 DEF Run, kafka, OnTheWay
  <2>2. \A r \in OnTheWay : r.run # runs'
    <3> SUFFICES ASSUME NEW r \in OnTheWay PROVE r.run # runs'
      OBVIOUS
    <3>1. r \in Records /\ r.run <= runs
      BY RecordsMove DEF AllPlaced, Placed
    <3>2. r.run \in Nat /\ runs \in Nat
      BY <3>1 DEF Records, Typed
    <3> QED BY <2>1, <3>1, <3>2
  <2>3. RowsSent' = {}
    BY <2>1, <2>2 DEF RowsSent
  <2>4. M = 0
    BY <2>3, FS_EmptySet
  <2> QED BY <2>1, <2>4
<1>4. ASSUME NEW raises \in BOOLEAN, Send(raises)
      PROVE  sent' - errors' <= M /\ M <= sent'
  <2> DEFINE i == Head(batch)
             new == SentRecord(i)
  <2>1. runs' = runs /\ phase # "killed" /\ i \in Range(batch)
    <3>1. batch # <<>> /\ runs' = runs /\ phase # "killed"
      BY <1>4 DEF Send
    <3> QED BY <3>1, BatchShrinks
  <2>2. new.row = i /\ new.run = runs
    BY DEF SentRecord
  <2>3. i \notin RowsSent
    <3>1. \A r \in OnTheWay : r.run = runs => r.row # i
      BY <2>1 DEF AllPlaced, Placed
    <3> QED BY <3>1 DEF RowsSent
  <2>4. \/ OnTheWay' = OnTheWay /\ errors' = errors + 1 /\ sent' = sent
        \/ OnTheWay' = OnTheWay \union {new} /\ errors' = errors /\ sent' = sent + 1
    BY <1>4, RecordsMove
  <2> HIDE DEF i, new
  <2>5. CASE OnTheWay' = OnTheWay /\ errors' = errors + 1 /\ sent' = sent
    <3>1. RowsSent' = RowsSent
      BY <2>1, <2>5 DEF RowsSent
    <3>2. M = N
      BY <3>1
    <3> HIDE DEF M, N
    <3> QED BY <1>1, <1>2, <2>1, <2>5, <3>2
  <2>6. CASE OnTheWay' = OnTheWay \union {new} /\ errors' = errors /\ sent' = sent + 1
    <3>1. RowsSent' = RowsSent \union {i}
      BY <2>1, <2>2, <2>6 DEF RowsSent
    <3>2. M = N + 1
      BY <1>1, <2>3, <3>1, FS_AddElement
    <3> HIDE DEF M, N
    <3> QED BY <1>1, <1>2, <2>1, <2>6, <3>2
  <2> QED BY <2>4, <2>5, <2>6
<1>5. ASSUME NEW appended \in BOOLEAN, Fail(appended), phase # "killed"
      PROVE  sent' - errors' <= M /\ M <= sent'
  <2> DEFINE q == Head(inflight)
             again == Retried(q)
  <2>1. q \in Records /\ runs' = runs /\ sent' = sent
    BY <1>5, FailEffect
  <2>2. again.row = q.row /\ again.run = q.run
    BY <2>1 DEF Retried, Records
  <2>3. /\ q \in OnTheWay
        /\ \/ /\ OnTheWay' \subseteq OnTheWay \union {again}
              /\ (OnTheWay \ {q}) \union {again} \subseteq OnTheWay'
              /\ errors' = errors
           \/ /\ OnTheWay' \subseteq OnTheWay
              /\ OnTheWay \ {q} \subseteq OnTheWay'
              /\ errors' = errors + 1
    BY <1>5, RecordsMove
  <2> HIDE DEF q, again
  <2>4. CASE /\ OnTheWay' \subseteq OnTheWay \union {again}
             /\ (OnTheWay \ {q}) \union {again} \subseteq OnTheWay'
             /\ errors' = errors
    <3>1. ASSUME NEW r \in OnTheWay', r.run = runs' PROVE r.row \in RowsSent
      BY <2>1, <2>2, <2>3, <2>4, <3>1 DEF RowsSent
    <3>2. ASSUME NEW r \in OnTheWay, r.run = runs PROVE r.row \in RowsSent'
      BY <2>1, <2>2, <2>4, <3>2 DEF RowsSent
    <3>3. RowsSent' = RowsSent
      BY <3>1, <3>2 DEF RowsSent
    <3>4. M = N
      BY <3>3
    <3> HIDE DEF M, N
    <3> QED BY <1>1, <1>2, <1>5, <2>1, <2>4, <3>4
  <2>5. CASE /\ OnTheWay' \subseteq OnTheWay /\ OnTheWay \ {q} \subseteq OnTheWay'
             /\ errors' = errors + 1
    <3>1. RowsSent' \in SUBSET RowsSent /\ RowsSent \ {q.row} \in SUBSET RowsSent'
      BY <2>1, <2>5 DEF RowsSent
    <3>2. M <= N
      BY <1>1, <3>1, FS_Subset
    <3>3. Cardinality(RowsSent \ {q.row}) \in {N, N - 1}
      BY <1>1, FS_RemoveElement
    <3>4. Cardinality(RowsSent \ {q.row}) <= M
      BY <1>1, <3>1, FS_Subset
    <3> DEFINE K == Cardinality(RowsSent \ {q.row})
    <3>5. K \in {N, N - 1} /\ K <= M
      BY <3>3, <3>4
    <3> HIDE DEF K, M, N
    <3> QED BY <1>1, <1>2, <1>5, <2>1, <2>5, <3>2, <3>5
  <2> QED BY <2>3, <2>4, <2>5
<1>6. ASSUME OnTheWay' = OnTheWay, UNCHANGED <<runs, sent, errors>>, phase # "killed"
      PROVE  sent' - errors' <= M /\ M <= sent'
  <2>1. RowsSent' = RowsSent
    BY <1>6 DEF RowsSent
  <2>2. M = N
    BY <2>1
  <2> HIDE DEF M, N
  <2> QED BY <1>1, <1>2, <1>6, <2>2
<1>7. ReadBatch \/ Discard \/ Transmit \/ Acknowledge \/ Leave \/ Flush \/ UNCHANGED vars
        => UNCHANGED <<runs, sent, errors>> /\ phase # "killed"
  BY DEF ReadBatch, Discard, Transmit, Acknowledge, Leave, Flush, vars, metrics
<1>8. /\ Kill => phase' = "killed"
      /\ \A appended \in BOOLEAN : Fail(appended) => phase # "killed"
  BY DEF Kill, Fail
<1>9. ReadBatch \/ Discard \/ Transmit \/ Acknowledge \/ Leave \/ Flush \/ UNCHANGED vars
        => OnTheWay' = OnTheWay \/ (\E raises \in BOOLEAN : Send(raises))
             \/ \E appended \in BOOLEAN : Fail(appended)
  BY <1>8, RecordsMove
<1> QED BY <1>3, <1>4, <1>5, <1>6, <1>7, <1>8, <1>9 DEF Next

LEMMA CountedInvariant == Spec => [](Typed /\ Counted)
<1>1. Init => Counted
  <2> SUFFICES ASSUME Init PROVE Counted
    OBVIOUS
  <2>1. RowsSent = {} /\ sent = 0 /\ errors = 0
    BY RangeEmpty DEF Init, RowsSent, OnTheWay
  <2>2. Cardinality(RowsSent) = 0
    BY <2>1, FS_EmptySet
  <2> QED BY <2>1, <2>2 DEF Counted
<1> QED BY <1>1, TypedInvariant, PlacedInvariant, NextCounted, PTL DEF Spec

\* When the producer has been flushed, metrics.py's sent less errors is at most
\* what the run has delivered, and sent is at least that.
THEOREM CountersAreBounds == Spec => []CountersBoundDelivery
<1>1. Quiet /\ Counted => CountersBoundDelivery
  <2> SUFFICES ASSUME Quiet, Counted, phase = "done" PROVE CountersBoundDelivery
    BY DEF CountersBoundDelivery
  <2> DEFINE delivered == {topic[k].row : k \in {k \in DOMAIN topic : topic[k].run = runs}}
  <2>1. OnTheWay = Range(topic)
    BY EndedOnTopic
  <2>2. RowsSent = delivered
    BY <2>1 DEF RowsSent, Range
  <2>3. sent - errors <= Cardinality(RowsSent) /\ Cardinality(RowsSent) <= sent
    BY DEF Counted
  <2> HIDE DEF delivered
  <2>4. sent - errors <= Cardinality(delivered) /\ Cardinality(delivered) <= sent
    BY <2>2, <2>3
  <2> QED BY <2>4 DEF delivered, CountersBoundDelivery
<1>2. Spec => []Quiet
  BY InitQuiet, NextQuiet, PTL DEF Spec
<1> QED BY <1>1, <1>2, CountedInvariant, PTL
=============================================================================
