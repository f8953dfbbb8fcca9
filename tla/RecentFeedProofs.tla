-------------------------- MODULE RecentFeedProofs --------------------------
(***************************************************************************)
(* Proofs about GET /recent, for every size of the ring buffer, every set  *)
(* of filters and limits, and every number of events and restarts.         *)
(*                                                                         *)
(* The first part establishes what a page of the buffer is.  Its           *)
(* candidates are computed by recursion, which the proof follows with the  *)
(* least-number principle: an assertion about every n that fails somewhere *)
(* fails first at some n, which is not 0 and whose predecessor satisfies   *)
(* it.  The second part is the invariant of a walk.                        *)
(***************************************************************************)
EXTENDS RecentFeed, SequenceTheorems, FiniteSetTheorems, TLAPS

-----------------------------------------------------------------------------
(* The least-number principle *)

Below(T, n) == {k \in T : k < n}

\* Every set of natural numbers that is not empty has a least member: the sets
\* of the members below one of its members are finite, and strict inclusion
\* among finite sets is well founded.
LEMMA LeastNumber ==
  ASSUME NEW T \in SUBSET Nat, T # {}
  PROVE  \E n \in T : \A k \in T : n <= k
<1> DEFINE Belows == {Below(T, n) : n \in T}
<1>1. ASSUME NEW n \in T PROVE Below(T, n) \in FiniteSubsetsOf(Nat)
  <2>1. Below(T, n) \in SUBSET Nat
    BY DEF Below
  <2>2. \A k \in Below(T, n) : k <= n
    BY DEF Below
  <2>3. IsFiniteSet(Below(T, n))
    BY <2>1, <2>2, FS_BoundedSetOfNaturals
  <2> QED BY <2>1, <2>3 DEF FiniteSubsetsOf
<1>2. PICK B \in Belows : \A C \in Belows : <<C, B>> \notin StrictSubsetOrdering(Nat)
  <2>1. Belows \subseteq FiniteSubsetsOf(Nat) /\ Belows # {}
    BY <1>1
  <2> HIDE DEF Belows
  <2> QED BY <2>1, FS_StrictSubsetOrderingWellFounded, WFMin
<1>3. PICK n \in T : B = Below(T, n)
  BY <1>2
<1>4. ASSUME NEW k \in T, k < n PROVE FALSE
  <2>1. \A j \in Below(T, k) : j \in T /\ j < n
    BY <1>4 DEF Below
  <2>2. Below(T, k) \subseteq Below(T, n)
    BY <2>1 DEF Below
  <2>3. k \in Below(T, n) /\ k \notin Below(T, k)
    BY <1>4 DEF Below
  <2>4. Below(T, k) \in SUBSET Nat /\ Below(T, n) \in SUBSET Nat
    BY DEF Below
  <2>5. <<Below(T, k), Below(T, n)>> \in StrictSubsetOrdering(Nat)
    BY <2>2, <2>3, <2>4 DEF StrictSubsetOrdering
  <2> QED BY <1>2, <1>3, <2>5
<1> QED BY <1>4

-----------------------------------------------------------------------------
(* The candidates of a page *)

\* What Candidates computes at n when the entries numbered by K are the ones it
\* keeps.
KeptUpTo(g, r, K, n) ==
  IF n = 0 THEN <<>> ELSE IF n \in K THEN Append(g[n - 1], r[n]) ELSE g[n - 1]

Computes(g, r, K, N) == g = [n \in 0..N |-> KeptUpTo(g, r, K, n)]

LEMMA RecursionDefined ==
  ASSUME NEW N \in Nat, NEW r, NEW K
  PROVE  \E g : Computes(g, r, K, N)
<1> DEFINE Defined(m) == \E g : g = [n \in 0..m |-> KeptUpTo(g, r, K, n)]
           T == {m \in Nat : ~Defined(m)}
<1>1. SUFFICES ASSUME T # {} PROVE FALSE
  BY DEF Computes
<1>2. PICK m \in T : \A k \in T : m <= k
  <2> HIDE DEF Defined
  <2> QED BY <1>1, LeastNumber
<1>3. CASE m = 0
  <2> DEFINE g == [n \in 0..0 |-> <<>>]
  <2>1. g = [n \in 0..0 |-> KeptUpTo(g, r, K, n)]
    BY DEF KeptUpTo
  <2> QED BY <1>2, <1>3, <2>1
<1>4. CASE m # 0
  <2>1. m - 1 \in Nat /\ m - 1 \notin T
    <3> HIDE DEF Defined
    <3> QED BY <1>2, <1>4
  <2>2. PICK g : g = [n \in 0..(m - 1) |-> KeptUpTo(g, r, K, n)]
    BY <2>1
  <2> DEFINE h == [n \in 0..m |-> IF n = m THEN KeptUpTo(g, r, K, m) ELSE g[n]]
  <2>3. ASSUME NEW n \in 0..m PROVE h[n] = KeptUpTo(h, r, K, n)
    <3>1. CASE n = m
      <4>1. h[n - 1] = g[n - 1]
        BY <1>2, <1>4, <3>1
      <4>2. h[n] = KeptUpTo(g, r, K, n)
        BY <3>1
      <4> HIDE DEF h
      <4> QED BY <4>1, <4>2 DEF KeptUpTo
    <3>2. CASE n # m
      <4>1. n \in 0..(m - 1) /\ h[n] = g[n] /\ (n # 0 => h[n - 1] = g[n - 1])
        BY <1>2, <3>2
      <4>2. g[n] = KeptUpTo(g, r, K, n)
        BY <2>2, <4>1
      <4> HIDE DEF h
      <4> QED BY <4>1, <4>2 DEF KeptUpTo
    <3> QED BY <3>1, <3>2
  <2>4. h = [n \in 0..m |-> KeptUpTo(h, r, K, n)]
    BY <2>3
  <2> QED BY <1>2, <2>4
<1> QED BY <1>3, <1>4

\* C consists of the entries of r numbered by K, up to n, in order.
Selection(C, r, K, n) ==
  \E pos \in [1..Len(C) -> 1..n] :
    /\ \A i \in 1..Len(C) : pos[i] \in K /\ C[i] = r[pos[i]]
    /\ \A i, j \in 1..Len(C) : i < j => pos[i] < pos[j]
    /\ \A k \in 1..n : k \in K => \E i \in 1..Len(C) : pos[i] = k

LEMMA SelectionExtended ==
  ASSUME NEW S, NEW r \in Seq(S), NEW K, NEW n \in 1..Len(r), NEW C \in Seq(S),
         Selection(C, r, K, n - 1)
  PROVE  IF n \in K THEN Append(C, r[n]) \in Seq(S) /\ Selection(Append(C, r[n]), r, K, n)
                    ELSE Selection(C, r, K, n)
<1>1. /\ Len(r) \in Nat /\ Len(C) \in Nat /\ r[n] \in S
      /\ Append(C, r[n]) \in Seq(S) /\ Len(Append(C, r[n])) = Len(C) + 1
      /\ \A i \in 1..Len(C) : Append(C, r[n])[i] = C[i]
      /\ Append(C, r[n])[Len(C) + 1] = r[n]
  BY LenProperties, ElementOfSeq, AppendProperties
<1>2. PICK pos \in [1..Len(C) -> 1..(n - 1)] :
        /\ \A i \in 1..Len(C) : pos[i] \in K /\ C[i] = r[pos[i]]
        /\ \A i, j \in 1..Len(C) : i < j => pos[i] < pos[j]
        /\ \A k \in 1..(n - 1) : k \in K => \E i \in 1..Len(C) : pos[i] = k
  BY DEF Selection
<1>3. CASE n \in K
  <2> DEFINE D == Append(C, r[n])
             q == [i \in 1..Len(D) |-> IF i = Len(C) + 1 THEN n ELSE pos[i]]
  <2>1. /\ Len(D) = Len(C) + 1 /\ \A i \in 1..Len(C) : D[i] = C[i]
        /\ D[Len(C) + 1] = r[n]
    BY <1>1
  <2> HIDE DEF D
  <2>2. /\ \A i \in 1..Len(C) : i \in 1..Len(D) /\ q[i] = pos[i] /\ q[i] \in 1..(n - 1)
        /\ Len(C) + 1 \in 1..Len(D) /\ q[Len(C) + 1] = n
    BY <1>1, <1>2, <2>1
  <2>3. q \in [1..Len(D) -> 1..n]
    BY <1>1, <2>1
  <2> HIDE DEF q
  <2>4. \A i \in 1..Len(D) : i \in 1..Len(C) \/ i = Len(C) + 1
    BY <1>1, <2>1
  <2>5. \A i \in 1..Len(D) : q[i] \in K /\ D[i] = r[q[i]]
    BY <1>2, <1>3, <2>1, <2>2, <2>4
  <2>6. ASSUME NEW i \in 1..Len(D), NEW j \in 1..Len(D), i < j PROVE q[i] < q[j]
    <3>1. i \in 1..Len(C)
      BY <1>1, <2>4, <2>6
    <3> QED BY <1>2, <2>2, <2>4, <2>6, <3>1
  <2>7. ASSUME NEW k \in 1..n, k \in K PROVE \E i \in 1..Len(D) : q[i] = k
    <3>1. CASE k = n
      BY <2>2, <3>1
    <3>2. CASE k # n
      <4>1. k \in 1..(n - 1)
        BY <3>2
      <4>2. PICK i \in 1..Len(C) : pos[i] = k
        BY <1>2, <2>7, <4>1
      <4> QED BY <2>2, <4>2
    <3> QED BY <3>1, <3>2
  <2>8. Selection(D, r, K, n)
    BY <2>3, <2>5, <2>6, <2>7 DEF Selection
  <2> QED BY <1>1, <1>3, <2>8 DEF D
<1>4. CASE n \notin K
  <2>1. pos \in [1..Len(C) -> 1..n]
    BY <1>1, <1>2
  <2>2. \A k \in 1..n : k \in K => k \in 1..(n - 1)
    BY <1>4
  <2>3. Selection(C, r, K, n)
    BY <1>2, <2>1, <2>2 DEF Selection
  <2> QED BY <1>4, <2>3
<1> QED BY <1>3, <1>4

LEMMA RecursionSelects ==
  ASSUME NEW S, NEW r \in Seq(S), NEW K, NEW f,
         Computes(f, r, K, Len(r))
  PROVE  \A n \in 0..Len(r) : f[n] \in Seq(S) /\ Selection(f[n], r, K, n)
<1> DEFINE Good(n) == f[n] \in Seq(S) /\ Selection(f[n], r, K, n)
           T == {n \in 0..Len(r) : ~Good(n)}
<1>1. SUFFICES ASSUME T # {} PROVE FALSE
  OBVIOUS
<1>2. Len(r) \in Nat /\ \A n \in 0..Len(r) : f[n] = KeptUpTo(f, r, K, n)
  BY LenProperties DEF Computes
<1>3. PICK n \in T : \A k \in T : n <= k
  <2> HIDE DEF Good
  <2>1. T \in SUBSET Nat
    BY <1>2
  <2> QED BY <1>1, <2>1, LeastNumber
<1>4. CASE n = 0
  <2>1. f[0] = <<>>
    BY <1>2, <1>4 DEF KeptUpTo
  <2>2. <<>> \in Seq(S) /\ Len(<<>>) = 0
    BY EmptySeq
  <2> DEFINE pos == [i \in 1..Len(<<>>) |-> 0]
  <2>3. 1..Len(<<>>) = {} /\ 1..0 = {} /\ pos \in [1..Len(<<>>) -> 1..0]
    BY <2>2
  <2> HIDE DEF pos
  <2>4. Selection(<<>>, r, K, 0)
    BY <2>3 DEF Selection
  <2> QED BY <1>3, <1>4, <2>1, <2>2, <2>4
<1>5. CASE n # 0
  <2>1. n \in 1..Len(r) /\ n - 1 \in 0..Len(r) /\ Good(n - 1)
    <3> HIDE DEF Good
    <3> QED BY <1>2, <1>3, <1>5
  <2>2. f[n] = IF n \in K THEN Append(f[n - 1], r[n]) ELSE f[n - 1]
    BY <1>2, <1>5, <2>1 DEF KeptUpTo
  <2> DEFINE C == f[n - 1]
  <2>3. C \in Seq(S) /\ Selection(C, r, K, n - 1)
    BY <2>1
  <2> HIDE DEF C
  <2>4. IF n \in K THEN Append(C, r[n]) \in Seq(S) /\ Selection(Append(C, r[n]), r, K, n)
                   ELSE Selection(C, r, K, n)
    BY <2>1, <2>3, SelectionExtended
  <2>5. Good(n)
    BY <2>2, <2>3, <2>4 DEF C
  <2> QED BY <1>3, <2>5
<1> QED BY <1>4, <1>5

\* The numbers of the entries of r that a page with this cursor may have.
Kept(r, c, w) == {k \in 1..Len(r) : Older(r[k], c) /\ r[k].event \in w}

LEMMA CandidatesSelect ==
  ASSUME NEW S, NEW r \in Seq(S), NEW c, NEW w
  PROVE  /\ Candidates(r, c, w) \in Seq(S)
         /\ Selection(Candidates(r, c, w), r, Kept(r, c, w), Len(r))
<1> DEFINE K == Kept(r, c, w)
           f == CHOOSE g : Computes(g, r, K, Len(r))
<1>1. Len(r) \in Nat
  BY LenProperties
<1>2. \A n \in 0..Len(r) : n # 0 => (n \in K <=> Older(r[n], c) /\ r[n].event \in w)
  BY <1>1 DEF Kept
<1>3. Candidates(r, c, w) = f[Len(r)]
  <2> DEFINE F(g) == [n \in 0..Len(r) |->
               IF n = 0 THEN <<>>
               ELSE IF Older(r[n], c) /\ r[n].event \in w THEN Append(g[n - 1], r[n])
               ELSE g[n - 1]]
  <2>1. \A g : Computes(g, r, K, Len(r)) <=> g = F(g)
    <3> HIDE DEF K
    <3> QED BY <1>2 DEF Computes, KeptUpTo
  <2>2. (CHOOSE g : g = F(g)) = f
    <3> HIDE DEF F, K
    <3> QED BY <2>1
  <2> QED BY <2>2 DEF Candidates
<1>4. Computes(f, r, K, Len(r))
  <2> HIDE DEF K
  <2> QED BY <1>1, RecursionDefined
<1> HIDE DEF f, K
<1>5. f[Len(r)] \in Seq(S) /\ Selection(f[Len(r)], r, K, Len(r))
  BY <1>1, <1>4, RecursionSelects
<1> QED BY <1>3, <1>5 DEF K
-----------------------------------------------------------------------------
(* A page of the ring buffer *)

Items == [id : 1..MaxEvents, place : Places]
BufferEntries == [seq : Nat \ {0}, event : Items]

\* Sequence numbers and events both have no gap: an entry's place in the buffer
\* determines the two.
RingOK ==
  /\ ring \in Seq(BufferEntries) /\ Len(ring) <= RingSize
  /\ consumed \in 0..MaxEvents /\ nextSeq \in Nat \ {0}
  /\ \A i \in 1..Len(ring) :
       /\ ring[i].seq = nextSeq - 1 - Len(ring) + i
       /\ ring[i].event.id = consumed - Len(ring) + i

\* What the number of an event exceeds its sequence number by.
Offset == consumed + 1 - nextSeq

LEMMA RingNumbers ==
  ASSUME RingOK, NEW i \in 1..Len(ring)
  PROVE  /\ ring[i] \in BufferEntries /\ ring[i].event \in Items
         /\ ring[i].seq \in Nat \ {0} /\ ring[i].event.id \in Nat
         /\ ring[i].event.id = ring[i].seq + Offset
<1>1. ring[i] \in BufferEntries
  BY ElementOfSeq DEF RingOK
<1>2. Len(ring) \in Nat /\ consumed \in Nat /\ nextSeq \in Nat
  BY LenProperties, FeedAssumption DEF RingOK
<1>3. ring[i].event \in Items /\ ring[i].seq \in Nat \ {0} /\ ring[i].event.id \in Nat
  BY <1>1, FeedAssumption DEF BufferEntries, Items
<1>4. ring[i].seq = nextSeq - 1 - Len(ring) + i /\ ring[i].event.id = consumed - Len(ring) + i
  BY DEF RingOK
<1>5. ring[i].event.id = ring[i].seq + Offset
  BY <1>2, <1>4 DEF Offset
<1> QED BY <1>1, <1>3, <1>5

LEMMA RingAscends ==
  ASSUME RingOK, NEW i \in 1..Len(ring), NEW j \in 1..Len(ring)
  PROVE  i < j <=> ring[i].seq < ring[j].seq
<1>1. Len(ring) \in Nat /\ nextSeq \in Nat
  BY LenProperties DEF RingOK
<1>2. /\ ring[i].seq = nextSeq - 1 - Len(ring) + i
      /\ ring[j].seq = nextSeq - 1 - Len(ring) + j
  BY DEF RingOK
<1> QED BY <1>1, <1>2

LEMMA LastOfProperties ==
  ASSUME NEW S, NEW s \in Seq(S), NEW n \in Nat
  PROVE  /\ LastOf(s, n) \in Seq(S)
         /\ Len(LastOf(s, n)) = IF Len(s) > n THEN n ELSE Len(s)
         /\ \A i \in 1..Len(LastOf(s, n)) : LastOf(s, n)[i] = s[Len(s) - Len(LastOf(s, n)) + i]
<1> DEFINE first == IF Len(s) > n THEN Len(s) - n + 1 ELSE 1
<1>1. Len(s) \in Nat /\ first \in 1..Len(s) + 1 /\ \A i \in 1..Len(s) : s[i] \in S
  BY LenProperties, ElementOfSeq
<1>2. Len(s) - first + 1 = IF Len(s) > n THEN n ELSE Len(s)
  BY <1>1
<1>3. LastOf(s, n) = SubSeq(s, first, Len(s))
  BY DEF LastOf
<1> HIDE DEF first
<1>4. \A i \in first..Len(s) : s[i] \in S
  BY <1>1
<1>5. /\ SubSeq(s, first, Len(s)) \in Seq(S)
      /\ Len(SubSeq(s, first, Len(s))) = IF first <= Len(s) THEN Len(s) - first + 1 ELSE 0
      /\ \A i \in 1..Len(s) - first + 1 : SubSeq(s, first, Len(s))[i] = s[first + i - 1]
  BY <1>1, <1>4, SubSeqProperties
<1>6. Len(LastOf(s, n)) = Len(s) - first + 1
  BY <1>1, <1>3, <1>5
<1>7. \A i \in 1..Len(s) - first + 1 : Len(s) - (Len(s) - first + 1) + i = first + i - 1
  BY <1>1
<1> QED BY <1>2, <1>3, <1>5, <1>6, <1>7

\* The response's entries are candidates in order, the newest of them; the next
\* cursor is the oldest of these, and without one there are no older candidates.
PageOf(P, K) ==
  /\ P.entries \in Seq(BufferEntries) /\ P.more \in BOOLEAN
  /\ \A i \in 1..Len(P.entries) : \E k \in K : P.entries[i] = ring[k]
  /\ \A i, j \in 1..Len(P.entries) : i < j => P.entries[i].seq < P.entries[j].seq
  /\ P.more => /\ 1 \in 1..Len(P.entries) /\ P.next = P.entries[1].seq
               /\ \A k \in K : ring[k].seq >= P.next =>
                    \E i \in 1..Len(P.entries) : P.entries[i] = ring[k]
  /\ ~P.more => /\ P.next = 0
                /\ \A k \in K : \E i \in 1..Len(P.entries) : P.entries[i] = ring[k]

LEMMA PageProperties ==
  ASSUME RingOK, NEW limit \in Nat \ {0}, NEW w
  PROVE  PageOf(Page(ring, cursor, limit, w), Kept(ring, cursor, w))
<1> DEFINE K == Kept(ring, cursor, w)
           C == Candidates(ring, cursor, w)
           W == LastOf(C, limit)
           P == Page(ring, cursor, limit, w)
<1>1. C \in Seq(BufferEntries) /\ Selection(C, ring, K, Len(ring))
  BY CandidatesSelect DEF RingOK
<1>2. K \subseteq 1..Len(ring)
  BY DEF Kept
<1>3. P = IF C = <<>> THEN [entries |-> <<>>, next |-> 0, more |-> FALSE]
          ELSE [entries |-> W, next |-> NextCursor(C, W), more |-> Len(C) > Len(W)]
  BY DEF Page
<1> HIDE DEF K, C
<1>4. /\ W \in Seq(BufferEntries) /\ Len(W) = IF Len(C) > limit THEN limit ELSE Len(C)
      /\ \A i \in 1..Len(W) : W[i] = C[Len(C) - Len(W) + i]
  BY <1>1, LastOfProperties
<1>5. Len(C) \in Nat
  BY <1>1, LenProperties
<1> HIDE DEF W, P
<1>6. PICK pos \in [1..Len(C) -> 1..Len(ring)] :
        /\ \A i \in 1..Len(C) : pos[i] \in K /\ C[i] = ring[pos[i]]
        /\ \A i, j \in 1..Len(C) : i < j => pos[i] < pos[j]
        /\ \A k \in 1..Len(ring) : k \in K => \E i \in 1..Len(C) : pos[i] = k
  BY <1>1 DEF Selection
<1>7. CASE C = <<>>
  <2>1. P.entries = <<>> /\ P.next = 0 /\ P.more = FALSE /\ Len(P.entries) = 0 /\ Len(C) = 0
    BY <1>3, <1>7, EmptySeq
  <2>2. K = {}
    BY <1>2, <1>6, <2>1
  <2>3. P.entries \in Seq(BufferEntries)
    BY <2>1, EmptySeq
  <2>4. 1..Len(P.entries) = {} /\ P.more \in BOOLEAN /\ ~P.more
    <3>1. 1..Len(P.entries) = {}
      BY <2>1
    <3>2. P.more = FALSE
      BY <2>1
    <3>3. P.more \in BOOLEAN /\ ~P.more
      BY <3>2, Zenon
    <3> QED BY <3>1, <3>3
  <2>5. PageOf(P, K)
    BY <2>1, <2>2, <2>3, <2>4 DEF PageOf
  <2> QED BY <2>5 DEF P, K
<1>8. CASE C # <<>>
  <2> DEFINE d == Len(C) - Len(W)
  <2>1. P.entries = W /\ P.next = NextCursor(C, W) /\ P.more = (Len(C) > Len(W))
    BY <1>3, <1>8
  <2>2. /\ Len(W) \in Nat /\ Len(W) <= Len(C) /\ Len(W) > 0 /\ d \in Nat /\ Len(C) = d + Len(W)
        /\ P.more <=> d # 0
    <3>1. Len(C) > 0
      BY <1>1, <1>5, <1>8, EmptySeq
    <3>2. Len(W) \in Nat /\ Len(W) <= Len(C) /\ Len(W) > 0
      BY <1>4, <1>5, <3>1
    <3>3. P.more <=> Len(C) > Len(W)
      BY <2>1
    <3> QED BY <1>5, <3>2, <3>3
  <2>3. \A i \in 1..Len(W) : W[i] = C[d + i]
    BY <1>4
  <2> HIDE DEF d
  <2>4. \A i \in 1..Len(W) : d + i \in 1..Len(C)
    BY <2>2
  <2>5. \A i \in 1..Len(W) : pos[d + i] \in K /\ W[i] = ring[pos[d + i]] /\ pos[d + i] \in 1..Len(ring)
    BY <1>2, <1>6, <2>3, <2>4
  <2>6. ASSUME NEW i \in 1..Len(W), NEW j \in 1..Len(W), i < j
        PROVE  W[i].seq < W[j].seq
    <3>1. d + i \in 1..Len(C) /\ d + j \in 1..Len(C) /\ d + i < d + j
      BY <2>2, <2>6
    <3>2. pos[d + i] < pos[d + j]
      BY <1>6, <3>1
    <3>3. ring[pos[d + i]].seq < ring[pos[d + j]].seq
      BY <2>5, <3>2, RingAscends
    <3> QED BY <2>5, <3>3
  <2>7. ASSUME NEW k \in K, ~P.more \/ ring[k].seq >= W[1].seq
        PROVE  \E i \in 1..Len(W) : W[i] = ring[k]
    <3>1. PICK q \in 1..Len(C) : pos[q] = k
      BY <1>2, <1>6
    <3>2. CASE q > d
      <4>1. q - d \in 1..Len(W) /\ d + (q - d) = q
        BY <1>5, <2>2, <3>2
      <4> QED BY <2>5, <3>1, <4>1
    <3>3. CASE q <= d
      <4>1. P.more /\ q < d + 1 /\ d + 1 \in 1..Len(C) /\ 1 \in 1..Len(W)
        BY <1>5, <2>2, <3>3
      <4>2. k < pos[d + 1] /\ W[1] = ring[pos[d + 1]] /\ pos[d + 1] \in 1..Len(ring) /\ k \in 1..Len(ring)
        BY <1>2, <1>6, <2>5, <3>1, <4>1
      <4>3. ring[k].seq < W[1].seq
        BY <4>2, RingAscends
      <4>4. ring[k].seq \in Nat /\ W[1].seq \in Nat
        BY <4>2, RingNumbers
      <4> QED BY <2>7, <4>1, <4>3, <4>4
    <3> QED BY <1>5, <2>2, <3>2, <3>3
  <2>8. /\ P.more => 1 \in 1..Len(W) /\ P.next = W[1].seq
        /\ ~P.more => P.next = 0
        /\ P.more \in BOOLEAN
    BY <2>1, <2>2 DEF NextCursor
  <2>9. \A i \in 1..Len(W) : \E k \in K : W[i] = ring[k]
    BY <2>5
  <2>10. PageOf(P, K)
    BY <1>4, <2>1, <2>6, <2>7, <2>8, <2>9 DEF PageOf
  <2> QED BY <2>10 DEF P, K
<1> QED BY <1>7, <1>8
-----------------------------------------------------------------------------
(* Appending to the buffer *)

\* Every entry of the buffer was there before or is the new one.
LEMMA AppendedRing ==
  ASSUME RingOK, NEW event \in Items, event.id = consumed + 1,
         ring' = Appended(ring, nextSeq, event), consumed' = consumed + 1, nextSeq' = nextSeq + 1
  PROVE  /\ RingOK' /\ Offset' = Offset
         /\ \A i \in 1..Len(ring') :
              ring'[i].event = event \/ \E j \in 1..Len(ring) : ring'[i] = ring[j]
<1> DEFINE e == [seq |-> nextSeq, event |-> event]
           all == Append(ring, e)
           last == LastOf(all, RingSize)
<1>1. /\ consumed \in Nat /\ consumed + 1 \in 0..MaxEvents /\ nextSeq \in Nat \ {0}
      /\ RingSize \in Nat /\ ring \in Seq(BufferEntries) /\ Len(ring) \in Nat
  BY FeedAssumption, RingAssumption, LenProperties DEF RingOK, Items
<1>2. Offset' = Offset
  BY <1>1 DEF Offset
<1>3. CASE RingSize = 0
  <2>1. ring' = ring
    BY <1>3 DEF Appended
  <2>2. 1..Len(ring) = {} /\ Len(ring) <= RingSize
    <3>1. Len(ring) <= RingSize
      BY DEF RingOK
    <3> QED BY <1>1, <1>3, <3>1
  <2>3. RingOK'
    <3>1. /\ ring' \in Seq(BufferEntries) /\ Len(ring') <= RingSize /\ 1..Len(ring') = {}
      BY <1>1, <2>1, <2>2
    <3>2. consumed' \in 0..MaxEvents /\ nextSeq' \in Nat \ {0}
      BY <1>1
    <3> QED BY <3>1, <3>2 DEF RingOK
  <2> QED BY <1>2, <2>1, <2>2, <2>3
<1>4. CASE RingSize # 0
  <2>1. ring' = last
    BY <1>4 DEF Appended
  <2>2. e \in BufferEntries /\ e.seq = nextSeq /\ e.event = event
    BY <1>1 DEF BufferEntries
  <2> HIDE DEF e
  <2>3. /\ all \in Seq(BufferEntries) /\ Len(all) = Len(ring) + 1
        /\ \A i \in 1..Len(ring) : all[i] = ring[i]
        /\ all[Len(ring) + 1] = e
    BY <1>1, <2>2, AppendProperties
  <2> HIDE DEF all
  <2>4. /\ last \in Seq(BufferEntries) /\ Len(last) = IF Len(all) > RingSize THEN RingSize ELSE Len(all)
        /\ \A i \in 1..Len(last) : last[i] = all[Len(all) - Len(last) + i]
    BY <1>1, <2>3, LastOfProperties
  <2> DEFINE d == Len(all) - Len(last)
  <2>5. \A i \in 1..Len(last) : last[i] = all[d + i]
    BY <2>4
  <2> HIDE DEF last
  <2>6. /\ Len(last) \in Nat /\ Len(last) <= RingSize /\ d \in Nat
        /\ Len(ring) + 1 = d + Len(last)
    BY <1>1, <2>3, <2>4
  <2> HIDE DEF d
  <2>7. ASSUME NEW i \in 1..Len(ring) + 1
        PROVE  /\ all[i].seq = nextSeq - 1 - Len(ring) + i
               /\ all[i].event.id = consumed - Len(ring) + i
               /\ all[i] = e \/ \E j \in 1..Len(ring) : all[i] = ring[j]
    <3>1. CASE i = Len(ring) + 1
      BY <1>1, <2>2, <2>3, <3>1
    <3>2. CASE i \in 1..Len(ring)
      BY <2>3, <3>2 DEF RingOK
    <3> QED BY <1>1, <3>1, <3>2
  <2>8. ASSUME NEW i \in 1..Len(last)
        PROVE  /\ last[i].seq = nextSeq' - 1 - Len(last) + i
               /\ last[i].event.id = consumed' - Len(last) + i
               /\ last[i].event = event \/ \E j \in 1..Len(ring) : last[i] = ring[j]
    <3>1. d + i \in 1..Len(ring) + 1 /\ last[i] = all[d + i]
      BY <1>1, <2>5, <2>6
    <3>2. /\ nextSeq - 1 - Len(ring) + (d + i) = nextSeq' - 1 - Len(last) + i
          /\ consumed - Len(ring) + (d + i) = consumed' - Len(last) + i
      BY <1>1, <2>6
    <3> QED BY <2>2, <2>7, <3>1, <3>2
  <2>9. /\ ring' \in Seq(BufferEntries) /\ Len(ring') <= RingSize
        /\ consumed' \in 0..MaxEvents /\ nextSeq' \in Nat \ {0}
    BY <1>1, <2>1, <2>4, <2>6
  <2>10. \A i \in 1..Len(ring') :
           /\ ring'[i].seq = nextSeq' - 1 - Len(ring') + i
           /\ ring'[i].event.id = consumed' - Len(ring') + i
           /\ ring'[i].event = event \/ \E j \in 1..Len(ring) : ring'[i] = ring[j]
    BY <2>1, <2>8
  <2>11. RingOK'
    BY <2>9, <2>10 DEF RingOK
  <2> QED BY <1>2, <2>10, <2>11
<1> QED BY <1>3, <1>4

-----------------------------------------------------------------------------
(* A walk *)

WalkOK ==
  /\ restarts \in 0..MaxRestarts
  /\ walk \in {"idle", "paging", "finished"} /\ view \in Views /\ broken \in BOOLEAN
  /\ cursor \in Nat /\ (walk = "paging" <=> cursor # 0)
  /\ initial \subseteq Items /\ \A e \in initial : e.id <= consumed
  /\ pages \in Seq(Seq(BufferEntries))
  /\ walk = "idle" => pages = <<>> /\ ~broken

\* While the walk goes on nothing it has returned is older than its cursor, whose
\* event Offset determines.  A restart changes that number.
Descending ==
  ~broken =>
    /\ PagesDescend
    /\ walk = "paging" =>
         \A m \in 1..Len(pages) : \A i \in 1..Len(pages[m]) :
           pages[m][i].event.id >= cursor + Offset

\* What the walk has passed and is still buffered has been returned.
Covered ==
  \A k \in 1..Len(ring) :
    /\ ring[k].event \in initial /\ ring[k].event.place \in view
    /\ walk = "finished" \/ (walk = "paging" /\ ring[k].seq >= cursor)
    => ring[k].event \in Returned

FeedInv == RingOK /\ WalkOK /\ Descending /\ Covered

LEMMA InitFeed == Init => FeedInv
<1> SUFFICES ASSUME Init PROVE FeedInv
  OBVIOUS
<1>1. ring \in Seq(BufferEntries) /\ Len(ring) = 0 /\ pages \in Seq(Seq(BufferEntries)) /\ Len(pages) = 0
  BY EmptySeq DEF Init
<1>2. RingOK
  BY <1>1, FeedAssumption, RingAssumption DEF Init, RingOK
<1>3. WalkOK
  <2>1. restarts \in 0..MaxRestarts /\ cursor \in Nat /\ initial = {} /\ pages = <<>>
    BY FeedAssumption DEF Init
  <2>2. walk = "idle" /\ cursor = 0 /\ view \in Views /\ broken = FALSE
    BY DEF Init
  <2> QED BY <1>1, <2>1, <2>2 DEF WalkOK
<1>4. Descending
  BY <1>1 DEF Init, Descending, PagesDescend
<1>5. Covered
  BY <1>1 DEF Covered
<1> QED BY <1>2, <1>3, <1>4, <1>5 DEF FeedInv

LEMMA ConsumeFeed ==
  ASSUME FeedInv, NEW place \in Places, Consume(place)
  PROVE  FeedInv'
<1> DEFINE event == [id |-> consumed + 1, place |-> place]
<1>1. consumed \in 0..MaxEvents /\ consumed < MaxEvents /\ MaxEvents \in Nat
  BY FeedAssumption DEF FeedInv, RingOK, Consume
<1>2. event \in Items /\ event.id = consumed + 1
  BY <1>1 DEF Items
<1>3. /\ ring' = Appended(ring, nextSeq, event) /\ consumed' = consumed + 1 /\ nextSeq' = nextSeq + 1
      /\ UNCHANGED <<restarts, walk, view, cursor, pages, initial, broken>>
  BY DEF Consume
<1> HIDE DEF event
<1>4. /\ RingOK' /\ Offset' = Offset
      /\ \A i \in 1..Len(ring') : ring'[i].event = event \/ \E j \in 1..Len(ring) : ring'[i] = ring[j]
  BY <1>2, <1>3, AppendedRing DEF FeedInv
<1>5. \A e \in initial : e.id \in Nat /\ e.id <= consumed /\ e # event
  BY <1>1, <1>2 DEF FeedInv, WalkOK, Items
<1>6. WalkOK'
  BY <1>1, <1>3, <1>5 DEF FeedInv, WalkOK
<1>7. Descending'
  BY <1>3, <1>4 DEF FeedInv, Descending, PagesDescend
<1>8. Covered'
  <2>1. Returned' = Returned
    BY <1>3 DEF Returned, Events
  <2> QED BY <1>3, <1>4, <1>5, <2>1 DEF FeedInv, Covered
<1> QED BY <1>4, <1>6, <1>7, <1>8 DEF FeedInv

LEMMA RestartFeed ==
  ASSUME FeedInv, Restart
  PROVE  FeedInv'
<1>1. ring' \in Seq(BufferEntries) /\ Len(ring') = 0 /\ 1..Len(ring') = {}
  BY EmptySeq DEF Restart
<1>2. RingOK'
  BY <1>1, RingAssumption DEF Restart, FeedInv, RingOK
<1>3. WalkOK'
  BY FeedAssumption DEF Restart, FeedInv, WalkOK
<1>4. Descending'
  BY DEF Restart, FeedInv, Descending, PagesDescend
<1>5. Covered'
  BY <1>1 DEF Covered
<1> QED BY <1>2, <1>3, <1>4, <1>5 DEF FeedInv

LEMMA ClampedLimit ==
  ASSUME NEW limit \in Limits
  PROVE  Clamped(limit) \in Nat \ {0}
  BY FeedAssumption DEF Clamped

LEMMA GetFeed ==
  ASSUME FeedInv, NEW limit \in Limits, FirstPage(limit) \/ NextPage(limit)
  PROVE  FeedInv'
<1> DEFINE P == Page(ring, cursor, Clamped(limit), Wanted)
           K == Kept(ring, cursor, Wanted)
           W == P.entries
<1>1. /\ pages' = Append(pages, W) /\ cursor' = P.next
      /\ walk' = IF P.more THEN "paging" ELSE "finished"
      /\ UNCHANGED <<ring, nextSeq, consumed, restarts, view, broken>>
  BY DEF FirstPage, NextPage, Get
<1>2. \/ walk = "idle" /\ cursor = 0 /\ pages = <<>> /\ ~broken /\ initial' = Events(ring)
      \/ walk = "paging" /\ cursor # 0 /\ initial' = initial
  BY DEF FirstPage, NextPage, FeedInv, WalkOK
<1>3. PageOf(P, K)
  BY ClampedLimit, PageProperties DEF FeedInv
<1> HIDE DEF P
<1>4. /\ K \subseteq 1..Len(ring)
      /\ \A k \in K : cursor = 0 \/ ring[k].seq < cursor
      /\ \A k \in 1..Len(ring) : ring[k].event.place \in view /\ (cursor = 0 \/ ring[k].seq < cursor) => k \in K
  <2>1. \A k \in 1..Len(ring) : ring[k].event.place \in view <=> ring[k].event \in Wanted
    <3> SUFFICES ASSUME NEW k \in 1..Len(ring)
                 PROVE  ring[k].event.place \in view <=> ring[k].event \in Wanted
      OBVIOUS
    <3>1. ring[k].event \in Items
      BY RingNumbers DEF FeedInv
    <3> QED BY <3>1 DEF Items, Wanted
  <2> QED BY <2>1 DEF Kept, Older
<1> HIDE DEF K
<1>5. ASSUME NEW i \in 1..Len(W)
      PROVE  /\ W[i].seq \in Nat \ {0} /\ W[i].event.id = W[i].seq + Offset /\ W[i].event.id \in Nat
             /\ cursor = 0 \/ W[i].seq < cursor
  <2>1. PICK k \in K : W[i] = ring[k]
    BY <1>3 DEF PageOf
  <2> QED BY <1>4, <2>1, RingNumbers DEF FeedInv
<1>6. /\ pages \in Seq(Seq(BufferEntries)) /\ W \in Seq(BufferEntries) /\ Len(pages) \in Nat
      /\ Len(pages') = Len(pages) + 1 /\ pages' \in Seq(Seq(BufferEntries))
      /\ \A m \in 1..Len(pages) : pages'[m] = pages[m]
      /\ pages'[Len(pages) + 1] = W
  BY <1>1, <1>3, LenProperties, AppendProperties DEF FeedInv, WalkOK, PageOf
<1>7. Offset' = Offset /\ Offset \in Int
  BY <1>1, FeedAssumption DEF Offset, FeedInv, RingOK
<1>8. /\ P.more => cursor' \in Nat \ {0} /\ \A i \in 1..Len(W) : W[i].seq >= cursor'
      /\ P.more /\ walk = "paging" => cursor' < cursor
      /\ ~P.more => cursor' = 0
  <2>1. ASSUME P.more
        PROVE  cursor' \in Nat \ {0} /\ (walk = "paging" => cursor' < cursor)
    BY <1>1, <1>2, <1>3, <1>5, <2>1 DEF PageOf
  <2>2. ASSUME P.more, NEW i \in 1..Len(W) PROVE W[i].seq >= cursor'
    <3>1. 1 \in 1..Len(W) /\ cursor' = W[1].seq
      BY <1>1, <1>3, <2>2 DEF PageOf
    <3>2. CASE i = 1
      BY <1>5, <3>1, <3>2
    <3>3. CASE i # 1
      <4>1. W[1].seq < W[i].seq
        BY <1>3, <3>1, <3>3 DEF PageOf
      <4> QED BY <1>5, <3>1, <4>1
    <3> QED BY <3>2, <3>3
  <2> QED BY <1>1, <1>3, <2>1, <2>2 DEF PageOf
<1>9. RingOK'
  BY <1>1 DEF FeedInv, RingOK
<1>10. WalkOK'
  <2>1. initial' \subseteq Items /\ \A e \in initial' : e.id <= consumed
    <3>1. ASSUME NEW k \in 1..Len(ring)
          PROVE  ring[k].event \in Items /\ ring[k].event.id <= consumed
      <4>1. ring[k].event \in Items /\ ring[k].event.id = consumed - Len(ring) + k
        BY RingNumbers DEF FeedInv, RingOK
      <4>2. Len(ring) \in Nat /\ consumed \in Nat
        BY LenProperties, FeedAssumption DEF FeedInv, RingOK
      <4> QED BY <4>1, <4>2
    <3> QED BY <1>2, <3>1 DEF Events, FeedInv, WalkOK
  <2>2. P.more \in BOOLEAN
    BY <1>3 DEF PageOf
  <2> QED BY <1>1, <1>6, <1>8, <2>1, <2>2 DEF FeedInv, WalkOK
<1>11. Descending'
  <2> SUFFICES ASSUME ~broken
               PROVE  /\ PagesDescend'
                      /\ walk' = "paging" =>
                           \A m \in 1..Len(pages') : \A i \in 1..Len(pages'[m]) :
                             pages'[m][i].event.id >= cursor' + Offset
    BY <1>1, <1>7 DEF Descending
  <2>1. \A m \in 1..Len(pages') : m \in 1..Len(pages) \/ m = Len(pages) + 1
    BY <1>6
  <2>2. ASSUME NEW m \in 1..Len(pages), NEW i \in 1..Len(pages[m])
        PROVE  /\ walk = "paging" /\ pages[m][i].event.id >= cursor + Offset
               /\ pages[m][i].event.id \in Nat
    <3>1. pages # <<>>
      BY <1>6, EmptySeq
    <3>2. pages[m] \in Seq(BufferEntries)
      BY <1>6, ElementOfSeq
    <3>3. pages[m][i] \in BufferEntries
      BY <3>2, ElementOfSeq
    <3>4. pages[m][i].event.id \in Nat
      BY <3>3, FeedAssumption DEF BufferEntries, Items
    <3> QED BY <1>2, <3>1, <3>4 DEF FeedInv, Descending
  <2>3. PagesDescend'
    <3> SUFFICES ASSUME NEW m \in 1..Len(pages'), NEW n \in 1..Len(pages'),
                        NEW i \in 1..Len(pages'[m]), NEW j \in 1..Len(pages'[n]),
                        m < n \/ (m = n /\ i > j)
                 PROVE  pages'[m][i].event.id > pages'[n][j].event.id
      BY DEF PagesDescend
    <3>1. CASE m \in 1..Len(pages) /\ n \in 1..Len(pages)
      BY <1>6, <3>1 DEF FeedInv, Descending, PagesDescend
    <3>2. CASE m \in 1..Len(pages) /\ n = Len(pages) + 1
      <4>1. /\ walk = "paging" /\ pages'[m][i].event.id >= cursor + Offset
            /\ pages'[m][i].event.id \in Nat
        BY <1>6, <2>2, <3>2
      <4>2. /\ pages'[n][j].event.id = W[j].seq + Offset /\ W[j].seq < cursor
            /\ W[j].seq \in Nat /\ cursor \in Nat
        BY <1>2, <1>5, <1>6, <3>2, <4>1 DEF FeedInv, WalkOK
      <4> DEFINE old == pages'[m][i].event.id
                 new == pages'[n][j].event.id
                 seq == W[j].seq
      <4>3. /\ old \in Nat /\ seq \in Nat /\ cursor \in Nat /\ Offset \in Int
            /\ old >= cursor + Offset /\ new = seq + Offset /\ seq < cursor
        BY <1>7, <4>1, <4>2
      <4> HIDE DEF old, new, seq
      <4>4. old > new
        BY <4>3
      <4> QED BY <4>4 DEF old, new
    <3>3. CASE m = Len(pages) + 1 /\ n = Len(pages) + 1
      <4>1. i \in 1..Len(W) /\ j \in 1..Len(W) /\ j < i /\ pages'[m][i] = W[i] /\ pages'[n][j] = W[j]
        BY <1>6, <3>3
      <4>2. W[j].seq < W[i].seq
        BY <1>3, <4>1 DEF PageOf
      <4> DEFINE newer == W[i].seq
                 older == W[j].seq
      <4>3. /\ newer \in Nat /\ older \in Nat /\ Offset \in Int /\ older < newer
            /\ pages'[m][i].event.id = newer + Offset /\ pages'[n][j].event.id = older + Offset
        BY <1>5, <1>7, <4>1, <4>2
      <4> HIDE DEF newer, older
      <4>4. newer + Offset > older + Offset
        BY <4>3
      <4> QED BY <4>3, <4>4
    <3> QED BY <1>6, <2>1, <3>1, <3>2, <3>3
  <2>4. ASSUME walk' = "paging", NEW m \in 1..Len(pages'), NEW i \in 1..Len(pages'[m])
        PROVE  pages'[m][i].event.id >= cursor' + Offset
    <3>1. P.more /\ cursor' \in Nat /\ cursor \in Nat
      BY <1>1, <1>8, <2>4 DEF FeedInv, WalkOK
    <3>2. CASE m \in 1..Len(pages)
      <4>1. /\ walk = "paging" /\ pages'[m][i].event.id >= cursor + Offset
            /\ pages'[m][i].event.id \in Nat
        BY <1>6, <2>2, <3>2
      <4>2. cursor' < cursor
        BY <1>8, <3>1, <4>1
      <4> DEFINE old == pages'[m][i].event.id
                 next == cursor'
      <4>3. /\ old \in Nat /\ next \in Nat /\ cursor \in Nat /\ Offset \in Int /\ Offset' = Offset
            /\ old >= cursor + Offset /\ next < cursor
        BY <1>7, <3>1, <4>1, <4>2
      <4> HIDE DEF old, next
      <4>4. old >= next + Offset
        BY <4>3
      <4> QED BY <4>3, <4>4 DEF old, next
    <3>3. CASE m = Len(pages) + 1
      <4>1. i \in 1..Len(W) /\ pages'[m][i] = W[i]
        BY <1>6, <3>3
      <4>2. W[i].seq \in Nat /\ W[i].event.id = W[i].seq + Offset /\ W[i].seq >= cursor'
        BY <1>5, <1>8, <3>1, <4>1
      <4> DEFINE seq == W[i].seq
                 next == cursor'
      <4>3. /\ seq \in Nat /\ next \in Nat /\ Offset \in Int /\ seq >= next /\ Offset' = Offset
            /\ pages'[m][i].event.id = seq + Offset
        BY <1>7, <3>1, <4>1, <4>2
      <4> HIDE DEF seq, next
      <4>4. pages'[m][i].event.id >= next + Offset
        BY <4>3
      <4> QED BY <4>3, <4>4 DEF next
    <3> QED BY <2>1, <3>2, <3>3
  <2> QED BY <2>3, <2>4
<1>12. Covered'
  <2>1. Returned \subseteq Returned' /\ Events(W) \subseteq Returned'
    <3>1. \A m \in 1..Len(pages) : m \in 1..Len(pages') /\ Events(pages'[m]) = Events(pages[m])
      BY <1>6
    <3>2. Len(pages) + 1 \in 1..Len(pages') /\ Events(pages'[Len(pages) + 1]) = Events(W)
      BY <1>6
    <3> QED BY <3>1, <3>2 DEF Returned
  <2> SUFFICES ASSUME NEW k \in 1..Len(ring), ring[k].event \in initial', ring[k].event.place \in view,
                      ~P.more \/ ring[k].seq >= cursor'
               PROVE  ring[k].event \in Returned'
    BY <1>1 DEF Covered
  <2>2. CASE k \in K
    <3>1. \E i \in 1..Len(W) : W[i] = ring[k]
      BY <1>1, <1>3, <2>2 DEF PageOf
    <3> QED BY <2>1, <3>1 DEF Events
  <2>3. CASE k \notin K
    <3>1. cursor # 0 /\ ~(ring[k].seq < cursor) /\ walk = "paging" /\ initial' = initial
      BY <1>2, <1>4, <2>3
    <3>2. ring[k].seq \in Nat /\ cursor \in Nat
      BY RingNumbers DEF FeedInv, WalkOK
    <3>3. ring[k].seq >= cursor
      BY <3>1, <3>2
    <3> QED BY <2>1, <3>1, <3>3 DEF FeedInv, Covered
  <2> QED BY <2>2, <2>3
<1> QED BY <1>9, <1>10, <1>11, <1>12 DEF FeedInv

LEMMA NextFeed == FeedInv /\ [Next]_vars => FeedInv'
<1> SUFFICES ASSUME FeedInv, [Next]_vars PROVE FeedInv'
  OBVIOUS
<1>1. ASSUME NEW place \in Places, Consume(place) PROVE FeedInv'
  BY <1>1, ConsumeFeed
<1>2. ASSUME NEW limit \in Limits, FirstPage(limit) \/ NextPage(limit) PROVE FeedInv'
  BY <1>2, GetFeed
<1>3. CASE Restart
  BY <1>3, RestartFeed
<1>4. CASE UNCHANGED vars
  <2>1. RingOK' /\ WalkOK'
    BY <1>4 DEF vars, FeedInv, RingOK, WalkOK
  <2>2. Descending'
    BY <1>4 DEF vars, FeedInv, Descending, PagesDescend, Offset
  <2>3. Covered'
    BY <1>4 DEF vars, FeedInv, Covered, Returned, Events
  <2> QED BY <2>1, <2>2, <2>3 DEF FeedInv
<1> QED BY <1>1, <1>2, <1>3, <1>4 DEF Next

LEMMA FeedInvariant == Spec => []FeedInv
  BY InitFeed, NextFeed, PTL DEF Spec

\* The deque keeps its bound and numbers its entries without a gap
\* (ring_buffer.py: append), and a walk has a cursor exactly while it goes on.
THEOREM TypeCorrect == Spec => []TypeOK
<1>1. FeedInv => TypeOK
  <2> SUFFICES ASSUME FeedInv PROVE TypeOK
    OBVIOUS
  <2>1. \A i \in 1..Len(ring) : ring[i].event \in Items
    BY RingNumbers DEF FeedInv
  <2> QED BY <2>1 DEF FeedInv, RingOK, WalkOK, TypeOK, Items
<1> QED BY <1>1, FeedInvariant, PTL

\* page's cursor (ring_buffer.py: page): while the backend keeps running a walk
\* only ever returns older events, whatever arrives and is evicted meanwhile.
THEOREM WalkGoesBack == Spec => []UnbrokenPagesDescend
<1>1. FeedInv => UnbrokenPagesDescend
  BY DEF FeedInv, Descending, UnbrokenPagesDescend
<1> QED BY <1>1, FeedInvariant, PTL

\* A finished walk has returned what was buffered when it began, matches its
\* filter and has not been evicted, across restarts too.
THEOREM WalkMissesNothing == Spec => []WalkComplete
<1>1. FeedInv => WalkComplete
  BY DEF FeedInv, Covered, WalkComplete, Events
<1> QED BY <1>1, FeedInvariant, PTL
=============================================================================
