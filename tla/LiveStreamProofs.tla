-------------------------- MODULE LiveStreamProofs --------------------------
(***************************************************************************)
(* Proofs about the live fan-out, for every set of clients, topics' keys   *)
(* and views, every size of the lanes and of the ring buffer, and every    *)
(* number of messages and connections.                                     *)
(*                                                                         *)
(* The first part says what sequences do to their elements, the second     *)
(* what offering one message does to one subscriber, the third which       *)
(* invariant of a session makes the properties inductive.                  *)
(***************************************************************************)
EXTENDS LiveStream, SequenceTheorems, FiniteSetTheorems, TLAPS

-----------------------------------------------------------------------------
(* Sequences and their elements *)

LEMMA ElementsSubset ==
  ASSUME NEW S, NEW s \in Seq(S)
  PROVE  Elements(s) \subseteq S
  BY ElementOfSeq DEF Elements

LEMMA ElementsEmpty == Elements(<<>>) = {}
  BY EmptySeq DEF Elements

LEMMA ElementsConcat ==
  ASSUME NEW S, NEW s \in Seq(S), NEW t \in Seq(S)
  PROVE  Elements(s \o t) = Elements(s) \union Elements(t)
<1>1. Len(s) \in Nat /\ Len(t) \in Nat
  BY LenProperties
<1>2. Len(s \o t) = Len(s) + Len(t)
  BY ConcatProperties
<1>3. \A i \in 1..Len(s) + Len(t) : (s \o t)[i] = IF i <= Len(s) THEN s[i] ELSE t[i - Len(s)]
  BY ConcatProperties
<1>4. ASSUME NEW x \in Elements(s \o t) PROVE x \in Elements(s) \union Elements(t)
  <2>1. PICK i \in 1..Len(s) + Len(t) : x = (s \o t)[i]
    BY <1>2 DEF Elements
  <2>2. CASE i <= Len(s)
    BY <1>1, <1>3, <2>1, <2>2 DEF Elements
  <2>3. CASE i > Len(s)
    BY <1>1, <1>3, <2>1, <2>3 DEF Elements
  <2> QED BY <1>1, <2>2, <2>3
<1>5. ASSUME NEW x \in Elements(s) PROVE x \in Elements(s \o t)
  BY <1>1, <1>2, <1>3 DEF Elements
<1>6. ASSUME NEW x \in Elements(t) PROVE x \in Elements(s \o t)
  <2>1. PICK i \in 1..Len(t) : x = t[i]
    BY DEF Elements
  <2>2. i + Len(s) \in 1..Len(s) + Len(t) /\ (s \o t)[i + Len(s)] = t[i]
    BY <1>1, <1>3
  <2> QED BY <1>2, <2>1, <2>2 DEF Elements
<1> QED BY <1>4, <1>5, <1>6

LEMMA ElementsAppend ==
  ASSUME NEW S, NEW s \in Seq(S), NEW e \in S
  PROVE  Elements(Append(s, e)) = Elements(s) \union {e}
<1>1. Len(s) \in Nat /\ Len(Append(s, e)) = Len(s) + 1
  BY LenProperties, AppendProperties
<1>2. /\ \A i \in 1..Len(s) : Append(s, e)[i] = s[i]
      /\ Append(s, e)[Len(s) + 1] = e
  BY AppendProperties
<1>3. ASSUME NEW x \in Elements(Append(s, e)) PROVE x \in Elements(s) \union {e}
  <2>1. PICK i \in 1..Len(s) + 1 : x = Append(s, e)[i]
    BY <1>1 DEF Elements
  <2> QED BY <1>1, <1>2, <2>1 DEF Elements
<1>4. ASSUME NEW x \in Elements(s) \union {e} PROVE x \in Elements(Append(s, e))
  BY <1>1, <1>2 DEF Elements
<1> QED BY <1>3, <1>4

LEMMA ElementsTail ==
  ASSUME NEW S, NEW s \in Seq(S), s # <<>>
  PROVE  /\ Elements(s) = {Head(s)} \union Elements(Tail(s))
         /\ Head(s) = s[1]
<1>1. Len(s) \in Nat \ {0} /\ Len(Tail(s)) = Len(s) - 1
  BY EmptySeq, HeadTailProperties
<1>2. \A i \in 1..Len(Tail(s)) : Tail(s)[i] = s[i + 1]
  BY HeadTailProperties
<1>3. Head(s) = s[1]
  OBVIOUS
<1>4. ASSUME NEW x \in Elements(s) PROVE x \in {Head(s)} \union Elements(Tail(s))
  <2>1. PICK i \in 1..Len(s) : x = s[i]
    BY DEF Elements
  <2>2. CASE i = 1
    BY <1>3, <2>1, <2>2
  <2>3. CASE i # 1
    <3>1. i - 1 \in 1..Len(Tail(s))
      BY <1>1, <2>3
    <3>2. Tail(s)[i - 1] = x
      BY <1>2, <2>1, <3>1
    <3> QED BY <3>1, <3>2 DEF Elements
  <2> QED BY <2>2, <2>3
<1>5. ASSUME NEW x \in {Head(s)} \union Elements(Tail(s)) PROVE x \in Elements(s)
  BY <1>1, <1>2, <1>3 DEF Elements
<1> QED BY <1>3, <1>4, <1>5

\* Deleting one position of a lane moves what is behind it forward.
LEMMA WithoutProperties ==
  ASSUME NEW S, NEW s \in Seq(S), NEW i \in 1..Len(s)
  PROVE  /\ Without(s, i) \in Seq(S)
         /\ Len(Without(s, i)) = Len(s) - 1
         /\ \A j \in 1..Len(s) - 1 : Without(s, i)[j] = IF j < i THEN s[j] ELSE s[j + 1]
<1> DEFINE a == SubSeq(s, 1, i - 1)
           b == SubSeq(s, i + 1, Len(s))
<1>1. Len(s) \in Nat /\ i \in Nat /\ i >= 1 /\ i <= Len(s)
  BY LenProperties
<1>2. \A j \in 1..Len(s) : s[j] \in S
  BY ElementOfSeq
<1>3. /\ a \in Seq(S) /\ Len(a) = i - 1
      /\ \A j \in 1..i - 1 : a[j] = s[j]
  <2>1. \A j \in 1..i - 1 : s[j] \in S
    BY <1>1, <1>2
  <2>2. /\ a \in Seq(S)
        /\ Len(a) = IF 1 <= i - 1 THEN (i - 1) - 1 + 1 ELSE 0
        /\ \A j \in 1..(i - 1) - 1 + 1 : a[j] = s[1 + j - 1]
    BY <1>1, <2>1, SubSeqProperties
  <2> QED BY <1>1, <2>2
<1>4. /\ b \in Seq(S) /\ Len(b) = Len(s) - i
      /\ \A j \in 1..Len(s) - i : b[j] = s[i + j]
  <2>1. \A j \in i + 1..Len(s) : s[j] \in S
    BY <1>1, <1>2
  <2>2. /\ b \in Seq(S)
        /\ Len(b) = IF i + 1 <= Len(s) THEN Len(s) - (i + 1) + 1 ELSE 0
        /\ \A j \in 1..Len(s) - (i + 1) + 1 : b[j] = s[(i + 1) + j - 1]
    BY <1>1, <2>1, SubSeqProperties
  <2> QED BY <1>1, <2>2
<1> HIDE DEF a, b
<1>5. /\ a \o b \in Seq(S)
      /\ Len(a \o b) = Len(a) + Len(b)
      /\ \A j \in 1..Len(a) + Len(b) : (a \o b)[j] = IF j <= Len(a) THEN a[j] ELSE b[j - Len(a)]
  BY <1>3, <1>4, ConcatProperties
<1>6. Without(s, i) = a \o b
  BY DEF Without, a, b
<1>7. ASSUME NEW j \in 1..Len(s) - 1, j < i
      PROVE  (a \o b)[j] = s[j]
  BY <1>1, <1>3, <1>4, <1>5, <1>7
<1>8. ASSUME NEW j \in 1..Len(s) - 1, ~(j < i)
      PROVE  (a \o b)[j] = s[j + 1]
  <2>1. (a \o b)[j] = b[j - (i - 1)]
    BY <1>1, <1>3, <1>4, <1>5, <1>8
  <2>2. j - (i - 1) \in 1..Len(s) - i /\ i + (j - (i - 1)) = j + 1
    BY <1>1, <1>8
  <2> QED BY <1>1, <1>4, <1>8, <2>1, <2>2
<1>9. \A j \in 1..Len(s) - 1 : (a \o b)[j] = IF j < i THEN s[j] ELSE s[j + 1]
  BY <1>7, <1>8
<1>10. Len(a \o b) = Len(s) - 1
  BY <1>1, <1>3, <1>4, <1>5
<1> QED BY <1>5, <1>6, <1>9, <1>10

LEMMA ElementsWithout ==
  ASSUME NEW S, NEW s \in Seq(S), NEW i \in 1..Len(s)
  PROVE  Elements(s) = {s[i]} \union Elements(Without(s, i))
<1> DEFINE w == Without(s, i)
<1>1. /\ Len(s) \in Nat /\ Len(w) = Len(s) - 1
      /\ \A j \in 1..Len(s) - 1 : w[j] = IF j < i THEN s[j] ELSE s[j + 1]
  BY WithoutProperties, LenProperties
<1> HIDE DEF w
<1>2. ASSUME NEW x \in Elements(s) PROVE x \in {s[i]} \union Elements(w)
  <2>1. PICK j \in 1..Len(s) : x = s[j]
    BY DEF Elements
  <2>2. CASE j < i
    <3>1. j \in 1..Len(w) /\ w[j] = s[j]
      BY <1>1, <2>2
    <3> QED BY <2>1, <3>1 DEF Elements
  <2>3. CASE j > i
    <3>1. j - 1 \in 1..Len(w) /\ w[j - 1] = s[j]
      BY <1>1, <2>3
    <3> QED BY <2>1, <3>1 DEF Elements
  <2> QED BY <1>1, <2>1, <2>2, <2>3
<1>3. ASSUME NEW x \in Elements(w) PROVE x \in Elements(s)
  <2>1. PICK j \in 1..Len(s) - 1 : x = w[j]
    BY <1>1 DEF Elements
  <2>2. j \in 1..Len(s) /\ j + 1 \in 1..Len(s)
    BY <1>1
  <2> QED BY <1>1, <2>1, <2>2 DEF Elements
<1>4. s[i] \in Elements(s)
  BY DEF Elements
<1> QED BY <1>2, <1>3, <1>4 DEF w

LEMMA MessageIds == \A m \in Messages : m.id \in Nat /\ m.id \in 1..MaxMsgs
  BY LiveStreamAssumption DEF Messages

\* Message ids increase along the sequence.
Ascending(s) == \A i, j \in 1..Len(s) : i < j => s[i].id < s[j].id

LEMMA AscendingEmpty == Ascending(<<>>)
  BY EmptySeq DEF Ascending

LEMMA AscendingAppend ==
  ASSUME NEW s \in Seq(Messages), NEW m \in Messages, Ascending(s),
         \A x \in Elements(s) : x.id < m.id
  PROVE  Ascending(Append(s, m))
<1>1. /\ Len(s) \in Nat /\ Len(Append(s, m)) = Len(s) + 1
      /\ \A i \in 1..Len(s) : Append(s, m)[i] = s[i]
      /\ Append(s, m)[Len(s) + 1] = m
  BY LenProperties, AppendProperties
<1>2. \A i \in 1..Len(s) : s[i].id < m.id
  BY DEF Elements
<1>3. ASSUME NEW i \in 1..Len(s) + 1, NEW j \in 1..Len(s) + 1, i < j
      PROVE  Append(s, m)[i].id < Append(s, m)[j].id
  <2>1. i \in 1..Len(s)
    BY <1>1, <1>3
  <2>2. CASE j \in 1..Len(s)
    BY <1>1, <1>3, <2>1, <2>2 DEF Ascending
  <2>3. CASE j = Len(s) + 1
    BY <1>1, <1>2, <2>1, <2>3
  <2> QED BY <1>1, <2>2, <2>3
<1> QED BY <1>1, <1>3 DEF Ascending

LEMMA AscendingTail ==
  ASSUME NEW s \in Seq(Messages), s # <<>>, Ascending(s)
  PROVE  /\ Ascending(Tail(s))
         /\ \A x \in Elements(Tail(s)) : Head(s).id < x.id
<1>1. /\ Len(s) \in Nat \ {0} /\ Len(Tail(s)) = Len(s) - 1
      /\ \A i \in 1..Len(Tail(s)) : Tail(s)[i] = s[i + 1]
      /\ Head(s) = s[1]
  BY EmptySeq, HeadTailProperties, ElementsTail
<1>2. \A i \in 1..Len(s) - 1 : i + 1 \in 1..Len(s) /\ 1 \in 1..Len(s) /\ 1 < i + 1
  BY <1>1
<1>3. Ascending(Tail(s))
  BY <1>1, <1>2 DEF Ascending
<1>4. \A i \in 1..Len(s) - 1 : s[1].id < s[i + 1].id
  BY <1>1, <1>2 DEF Ascending
<1>5. \A x \in Elements(Tail(s)) : Head(s).id < x.id
  BY <1>1, <1>4 DEF Elements
<1> QED BY <1>3, <1>5

LEMMA AscendingWithout ==
  ASSUME NEW s \in Seq(Messages), Ascending(s), NEW i \in 1..Len(s)
  PROVE  /\ Ascending(Without(s, i))
         /\ s[i] \notin Elements(Without(s, i))
<1> DEFINE w == Without(s, i)
<1>1. /\ Len(s) \in Nat /\ Len(w) = Len(s) - 1
      /\ \A j \in 1..Len(s) - 1 : w[j] = IF j < i THEN s[j] ELSE s[j + 1]
  BY WithoutProperties, LenProperties
<1> HIDE DEF w
<1>2. \A j \in 1..Len(s) : s[j].id \in Nat
  BY ElementOfSeq, MessageIds
<1>3. \A j \in 1..Len(s) - 1 : j \in 1..Len(s) /\ j + 1 \in 1..Len(s)
  BY <1>1
<1>4. Ascending(w)
  <2> SUFFICES ASSUME NEW j \in 1..Len(s) - 1, NEW k \in 1..Len(s) - 1, j < k
               PROVE  w[j].id < w[k].id
    BY <1>1 DEF Ascending
  <2>1. CASE k < i
    <3>1. w[j] = s[j] /\ w[k] = s[k]
      BY <1>1, <2>1
    <3> QED BY <1>3, <3>1 DEF Ascending
  <2>2. CASE ~(j < i)
    <3>1. w[j] = s[j + 1] /\ w[k] = s[k + 1]
      BY <1>1, <2>2
    <3>2. j + 1 \in 1..Len(s) /\ k + 1 \in 1..Len(s) /\ j + 1 < k + 1
      BY <1>1, <1>3
    <3> QED BY <3>1, <3>2 DEF Ascending
  <2>3. CASE j < i /\ ~(k < i)
    <3>1. w[j] = s[j] /\ w[k] = s[k + 1]
      BY <1>1, <2>3
    <3> QED BY <1>1, <1>3, <3>1 DEF Ascending
  <2> QED BY <2>1, <2>2, <2>3
<1>5. ASSUME NEW j \in 1..Len(s) - 1 PROVE w[j].id # s[i].id
  <2>1. CASE j < i
    <3>1. w[j] = s[j]
      BY <1>1, <2>1
    <3> QED BY <1>2, <1>3, <2>1, <3>1 DEF Ascending
  <2>2. CASE ~(j < i)
    <3>1. w[j] = s[j + 1] /\ i < j + 1
      BY <1>1, <2>2
    <3> QED BY <1>2, <1>3, <3>1 DEF Ascending
  <2> QED BY <2>1, <2>2
<1>6. s[i] \notin Elements(w)
  BY <1>1, <1>5 DEF Elements
<1> QED BY <1>4, <1>6 DEF w

\* A sequence that numbers a set without repetition counts it.
LEMMA CountedBy ==
  ASSUME NEW T, NEW n \in Nat, NEW f \in [1..n -> T],
         \A x \in T : \E i \in 1..n : f[i] = x,
         \A i, j \in 1..n : f[i] = f[j] => i = j
  PROVE  IsFiniteSet(T) /\ Cardinality(T) = n
<1>1. IsFiniteSet(1..n) /\ Cardinality(1..n) = n
  BY FS_Interval
<1>2. f \in Surjection(1..n, T) /\ f \in Injection(1..n, T)
  BY DEF Surjection, Injection, IsInjective
<1> QED BY <1>1, <1>2, FS_Surjection

LEMMA AscendingCardinality ==
  ASSUME NEW s \in Seq(Messages), Ascending(s)
  PROVE  IsFiniteSet(Elements(s)) /\ Cardinality(Elements(s)) = Len(s)
<1> DEFINE f == [i \in 1..Len(s) |-> s[i]]
<1>1. Len(s) \in Nat
  BY LenProperties
<1>2. f \in [1..Len(s) -> Elements(s)] /\ \A x \in Elements(s) : \E i \in 1..Len(s) : f[i] = x
  BY DEF Elements
<1>3. ASSUME NEW i \in 1..Len(s), NEW j \in 1..Len(s), f[i] = f[j] PROVE i = j
  <2>1. s[i].id = s[j].id /\ s[i].id \in Nat
    BY <1>3, ElementOfSeq, MessageIds
  <2> QED BY <1>1, <2>1 DEF Ascending
<1> QED
  <2> HIDE DEF f
  <2> QED BY <1>1, <1>2, <1>3, CountedBy

-----------------------------------------------------------------------------
(* One message offered to one subscriber *)

Subscribers ==
  [coalesced : Seq(Messages), fifo : Seq(Messages), ready : BOOLEAN, view : SUBSET Places,
   coalescedCount : Nat, droppedCount : Nat, filteredCount : Nat]

Held(s) == Elements(s.fifo) \union Elements(s.coalesced)

\* Both lanes are in the order of their last update, and each holds what
\* belongs there, within its cap and once.
LanesOK(s) ==
  /\ s \in Subscribers
  /\ LanesBounded(s)
  /\ Ascending(s.fifo) /\ Ascending(s.coalesced)
  /\ \A x \in Elements(s.fifo) : ~Coalesces(x)
  /\ \A x \in Elements(s.coalesced) : Coalesces(x)

Filtered(s, m, t) == m.place \notin s.view /\ t = [s EXCEPT !.filteredCount = @ + 1]

Admits(s, m, t) == m.place \in s.view /\ t.view = s.view /\ t.filteredCount = s.filteredCount

Kept(s, m, t) ==
  /\ Admits(s, m, t)
  /\ Held(t) = Held(s) \union {m}
  /\ t.coalescedCount = s.coalescedCount /\ t.droppedCount = s.droppedCount

\* The message takes the place of an older one of its key.
Replaced(s, m, t) ==
  /\ Admits(s, m, t)
  /\ \E h \in Held(s) : /\ Coalesces(m) /\ SameLane(h, m)
                        /\ Held(t) = (Held(s) \union {m}) \ {h}
  /\ t.coalescedCount = s.coalescedCount + 1 /\ t.droppedCount = s.droppedCount

\* The least recently updated message of a full lane is dropped, which is the
\* message itself when the lane may hold none.
Shed(s, m, t) ==
  /\ Admits(s, m, t)
  /\ \E h \in Held(s) \union {m} :
       /\ Coalesces(h) <=> Coalesces(m)
       /\ Held(t) = (Held(s) \union {m}) \ {h}
       /\ Coalesces(m) => /\ Len(t.coalesced) >= CoalescedMax
                          /\ \A x \in Elements(t.coalesced) : h.id < x.id /\ ~SameLane(h, x)
       /\ ~Coalesces(m) => Len(t.fifo) = MaxPending /\ \A x \in Elements(t.fifo) : h.id < x.id
  /\ t.coalescedCount = s.coalescedCount /\ t.droppedCount = s.droppedCount + 1

\* offer of an unkeyed message (broadcaster.py: offer, the FIFO lane).
LEMMA OfferFifoEffect ==
  ASSUME NEW s, LanesOK(s), NEW m \in Messages, ~Coalesces(m), m.place \in s.view,
         \A x \in Held(s) : x.id < m.id
  PROVE  LET t == OfferFifo(s, m)
         IN  LanesOK(t) /\ (Kept(s, m, t) \/ Shed(s, m, t))
<1> DEFINE t == OfferFifo(s, m)
           all == Append(s.fifo, m)
<1>1. /\ s.fifo \in Seq(Messages) /\ s.coalesced \in Seq(Messages)
      /\ s.droppedCount \in Nat /\ s.coalescedCount \in Nat /\ s.filteredCount \in Nat
      /\ s.view \in SUBSET Places /\ s.ready \in BOOLEAN
      /\ Len(s.fifo) \in Nat /\ Len(s.fifo) <= MaxPending /\ MaxPending \in Nat
  BY LenProperties, SubscriberAssumption DEF LanesOK, Subscribers, LanesBounded
<1>2. /\ all \in Seq(Messages) /\ all # <<>> /\ Len(all) = Len(s.fifo) + 1
      /\ Elements(all) = Elements(s.fifo) \union {m}
  BY <1>1, AppendProperties, ElementsAppend
<1>3. Ascending(all)
  BY <1>1, AscendingAppend DEF LanesOK, Held
<1>4. \A x \in Elements(all) : ~Coalesces(x)
  BY <1>2 DEF LanesOK
<1> HIDE DEF all
<1>5. /\ Tail(all) \in Seq(Messages) /\ Len(Tail(all)) = Len(s.fifo)
      /\ Elements(all) = {Head(all)} \union Elements(Tail(all))
      /\ Ascending(Tail(all)) /\ \A x \in Elements(Tail(all)) : Head(all).id < x.id
  <2>1. Tail(all) \in Seq(Messages) /\ Len(Tail(all)) = Len(s.fifo)
    BY <1>1, <1>2, HeadTailProperties
  <2>2. Elements(all) = {Head(all)} \union Elements(Tail(all))
    BY <1>2, ElementsTail
  <2>3. Ascending(Tail(all)) /\ \A x \in Elements(Tail(all)) : Head(all).id < x.id
    BY <1>2, <1>3, AscendingTail
  <2> QED BY <2>1, <2>2, <2>3
<1>6. CASE Len(s.fifo) >= MaxPending
  <2>1. t = [s EXCEPT !.fifo = Tail(all), !.droppedCount = @ + 1, !.ready = TRUE]
    BY <1>6 DEF OfferFifo, all
  <2> HIDE DEF t
  <2>2. /\ t \in Subscribers /\ t.fifo = Tail(all) /\ t.coalesced = s.coalesced /\ t.view = s.view
        /\ t.coalescedCount = s.coalescedCount /\ t.droppedCount = s.droppedCount + 1
        /\ t.filteredCount = s.filteredCount
    <3>1. s.droppedCount + 1 \in Nat
      BY <1>1
    <3>2. s \in Subscribers
      BY DEF LanesOK
    <3> QED BY <1>5, <2>1, <3>1, <3>2 DEF Subscribers
  <2>3. LanesOK(t)
    BY <1>1, <1>4, <1>5, <2>2 DEF LanesOK, LanesBounded
  <2>4. Head(all) \in Held(s) \union {m} /\ ~Coalesces(Head(all))
    BY <1>2, <1>4, <1>5 DEF Held
  <2>5. Head(all) \notin Elements(Tail(all)) /\ Head(all) \notin Elements(s.coalesced)
    <3>1. Head(all) \in Messages
      BY <1>2, HeadTailProperties
    <3>2. Head(all).id \in Nat
      BY <3>1, MessageIds
    <3> QED BY <1>5, <2>4, <3>2 DEF LanesOK
  <2>6. Held(t) = (Held(s) \union {m}) \ {Head(all)}
    BY <1>2, <1>5, <2>2, <2>5 DEF Held
  <2>7. Len(t.fifo) = MaxPending /\ \A x \in Elements(t.fifo) : Head(all).id < x.id
    BY <1>1, <1>5, <1>6, <2>2
  <2>8. Shed(s, m, t)
    BY <2>2, <2>4, <2>6, <2>7 DEF Shed, Admits
  <2> QED BY <2>3, <2>8 DEF t
<1>7. CASE ~(Len(s.fifo) >= MaxPending)
  <2>1. t = [s EXCEPT !.fifo = all, !.ready = TRUE]
    BY <1>7 DEF OfferFifo, all, LanesOK, Subscribers
  <2> HIDE DEF t
  <2>2. /\ t \in Subscribers /\ t.fifo = all /\ t.coalesced = s.coalesced /\ t.view = s.view
        /\ t.coalescedCount = s.coalescedCount /\ t.droppedCount = s.droppedCount
        /\ t.filteredCount = s.filteredCount
    BY <1>1, <1>2, <2>1 DEF LanesOK, Subscribers
  <2>3. LanesOK(t)
    BY <1>1, <1>2, <1>3, <1>4, <1>7, <2>2 DEF LanesOK, LanesBounded
  <2>4. Kept(s, m, t)
    BY <1>2, <2>2 DEF Kept, Admits, Held
  <2> QED BY <2>3, <2>4 DEF t
<1> QED BY <1>6, <1>7

\* A lane without a key, and with the key appended, holds each key once.
KeysDiffer(lane) == \A i, j \in 1..Len(lane) : i # j => ~SameLane(lane[i], lane[j])

LEMMA KeysDifferAppend ==
  ASSUME NEW s \in Seq(Messages), NEW m \in Messages, KeysDiffer(s), Coalesces(m),
         \A x \in Elements(s) : Coalesces(x) /\ ~SameLane(x, m)
  PROVE  KeysDiffer(Append(s, m))
<1>1. /\ Len(s) \in Nat /\ Len(Append(s, m)) = Len(s) + 1
      /\ \A i \in 1..Len(s) : Append(s, m)[i] = s[i]
      /\ Append(s, m)[Len(s) + 1] = m
  BY LenProperties, AppendProperties
<1>2. \A i \in 1..Len(s) : ~SameLane(s[i], m) /\ ~SameLane(m, s[i])
  BY DEF Elements, SameLane
<1>3. ASSUME NEW i \in 1..Len(s) + 1, NEW j \in 1..Len(s) + 1, i # j
      PROVE  ~SameLane(Append(s, m)[i], Append(s, m)[j])
  <2>1. CASE i \in 1..Len(s) /\ j \in 1..Len(s)
    BY <1>1, <1>3, <2>1 DEF KeysDiffer
  <2>2. CASE i = Len(s) + 1
    <3>1. j \in 1..Len(s)
      BY <1>1, <1>3, <2>2
    <3> QED BY <1>1, <1>2, <2>2, <3>1
  <2>3. CASE j = Len(s) + 1
    <3>1. i \in 1..Len(s)
      BY <1>1, <1>3, <2>3
    <3> QED BY <1>1, <1>2, <2>3, <3>1
  <2> QED BY <1>1, <2>1, <2>2, <2>3
<1> QED BY <1>1, <1>3 DEF KeysDiffer

LEMMA KeysDifferWithout ==
  ASSUME NEW s \in Seq(Messages), KeysDiffer(s), NEW i \in 1..Len(s)
  PROVE  /\ KeysDiffer(Without(s, i))
         /\ \A x \in Elements(Without(s, i)) : ~SameLane(x, s[i]) /\ ~SameLane(s[i], x)
<1> DEFINE w == Without(s, i)
           at(j) == IF j < i THEN j ELSE j + 1
<1>1. /\ Len(s) \in Nat /\ Len(w) = Len(s) - 1
      /\ \A j \in 1..Len(s) - 1 : w[j] = IF j < i THEN s[j] ELSE s[j + 1]
  BY WithoutProperties, LenProperties
<1> HIDE DEF w
<1>2. \A j \in 1..Len(s) - 1 : at(j) \in 1..Len(s) /\ at(j) # i /\ w[j] = s[at(j)]
  BY <1>1
<1>3. \A j, k \in 1..Len(s) - 1 : j # k => at(j) # at(k)
  BY <1>1
<1> HIDE DEF at
<1>4. KeysDiffer(w)
  BY <1>1, <1>2, <1>3 DEF KeysDiffer
<1>5. \A j \in 1..Len(s) - 1 : ~SameLane(w[j], s[i]) /\ ~SameLane(s[i], w[j])
  BY <1>2 DEF KeysDiffer
<1>6. \A x \in Elements(w) : ~SameLane(x, s[i]) /\ ~SameLane(s[i], x)
  BY <1>1, <1>5 DEF Elements
<1> QED BY <1>4, <1>6 DEF w

LEMMA TailIsWithout ==
  ASSUME NEW s \in Seq(Messages), s # <<>>
  PROVE  /\ Without(s, 1) = Tail(s) /\ 1 \in 1..Len(s) /\ Head(s) = s[1]
<1>1. Len(s) \in Nat \ {0}
  BY EmptySeq
<1>2. SubSeq(s, 1, 1 - 1) = <<>>
  BY SubSeqEmpty
<1>3. Tail(s) = SubSeq(s, 2, Len(s)) /\ Tail(s) \in Seq(Messages)
  BY TailIsSubSeq, HeadTailProperties
<1>4. <<>> \o SubSeq(s, 2, Len(s)) = SubSeq(s, 2, Len(s))
  BY <1>3, ConcatEmptySeq
<1> QED BY <1>1, <1>2, <1>3, <1>4, ElementsTail DEF Without

LEMMA PositionFound ==
  ASSUME NEW lane \in Seq(Messages), NEW m
  PROVE  \/ /\ PositionOf(lane, m) \in 1..Len(lane)
            /\ PositionOf(lane, m) # 0
            /\ SameLane(lane[PositionOf(lane, m)], m)
         \/ /\ PositionOf(lane, m) = 0
            /\ \A x \in Elements(lane) : ~SameLane(x, m)
<1>1. Len(lane) \in Nat
  BY LenProperties
<1>2. CASE \E i \in 1..Len(lane) : SameLane(lane[i], m)
  <2>1. PositionOf(lane, m) = CHOOSE i \in 1..Len(lane) : SameLane(lane[i], m)
    BY <1>2 DEF PositionOf
  <2>2. PositionOf(lane, m) \in 1..Len(lane) /\ SameLane(lane[PositionOf(lane, m)], m)
    BY <1>2, <2>1
  <2> QED BY <1>1, <2>2
<1>3. CASE ~ \E i \in 1..Len(lane) : SameLane(lane[i], m)
  BY <1>3 DEF PositionOf, Elements
<1> QED BY <1>2, <1>3

\* A lane of LanesOK, with a message at its end that its key is not in.
LEMMA LaneExtended ==
  ASSUME NEW lane \in Seq(Messages), NEW m \in Messages, Coalesces(m),
         KeysDiffer(lane), Ascending(lane),
         \A x \in Elements(lane) : Coalesces(x) /\ ~SameLane(x, m) /\ x.id < m.id
  PROVE  /\ Append(lane, m) \in Seq(Messages) /\ Len(Append(lane, m)) = Len(lane) + 1
         /\ Elements(Append(lane, m)) = Elements(lane) \union {m}
         /\ KeysDiffer(Append(lane, m)) /\ Ascending(Append(lane, m))
         /\ \A x \in Elements(Append(lane, m)) : Coalesces(x)
<1>1. /\ Append(lane, m) \in Seq(Messages) /\ Len(Append(lane, m)) = Len(lane) + 1
      /\ Elements(Append(lane, m)) = Elements(lane) \union {m}
  BY AppendProperties, ElementsAppend
<1>2. KeysDiffer(Append(lane, m)) /\ Ascending(Append(lane, m))
  BY KeysDifferAppend, AscendingAppend
<1> QED BY <1>1, <1>2

\* offer of a keyed message (broadcaster.py: offer, the coalescing lane).
LEMMA OfferCoalescedEffect ==
  ASSUME NEW s, LanesOK(s), NEW m \in Messages, Coalesces(m), m.place \in s.view,
         \A x \in Held(s) : x.id < m.id
  PROVE  LET t == OfferCoalesced(s, m)
         IN  LanesOK(t) /\ (Kept(s, m, t) \/ Replaced(s, m, t) \/ Shed(s, m, t))
<1> DEFINE t == OfferCoalesced(s, m)
           lane == s.coalesced
           old == PositionOf(s.coalesced, m)
           full == Len(s.coalesced) >= CoalescedMax /\ s.coalesced # <<>>
<1>1. /\ s \in Subscribers /\ s.fifo \in Seq(Messages) /\ lane \in Seq(Messages)
      /\ s.droppedCount + 1 \in Nat /\ s.coalescedCount + 1 \in Nat
      /\ Len(lane) \in Nat /\ CoalescedMax \in Nat
      /\ Len(s.fifo) <= MaxPending
      /\ Len(lane) <= IF CoalescedMax = 0 THEN 1 ELSE CoalescedMax
  BY LenProperties, SubscriberAssumption DEF LanesOK, Subscribers, LanesBounded
<1>2. KeysDiffer(lane) /\ Ascending(lane)
  BY DEF LanesOK, LanesBounded, KeysDiffer
<1>3. /\ \A x \in Elements(lane) : Coalesces(x) /\ x.id < m.id
      /\ \A x \in Elements(s.fifo) : ~Coalesces(x)
      /\ Ascending(s.fifo)
      /\ Held(s) = Elements(s.fifo) \union Elements(lane)
  BY DEF LanesOK, Held
<1>4. \A x \in Elements(lane) : x.id \in Nat
  BY <1>1, ElementsSubset, MessageIds
<1>5. m.id \in Nat
  BY MessageIds
<1>6. ASSUME NEW u \in Subscribers, u.fifo = s.fifo,
             Len(u.coalesced) <= IF CoalescedMax = 0 THEN 1 ELSE CoalescedMax,
             KeysDiffer(u.coalesced), Ascending(u.coalesced),
             \A x \in Elements(u.coalesced) : Coalesces(x)
      PROVE  LanesOK(u)
  BY <1>1, <1>3, <1>6 DEF LanesOK, LanesBounded, KeysDiffer
<1>7. CASE old # 0
  <2> DEFINE h == lane[old]
             rest == Without(lane, old)
  <2>1. old \in 1..Len(lane) /\ SameLane(h, m)
    BY <1>1, <1>7, PositionFound
  <2>2. t = [s EXCEPT !.coalesced = Append(rest, m), !.coalescedCount = @ + 1, !.ready = TRUE]
    BY <1>1, <1>7 DEF OfferCoalesced, Subscribers
  <2> HIDE DEF t, lane, old
  <2>3. /\ rest \in Seq(Messages) /\ Len(rest) = Len(lane) - 1
        /\ Elements(lane) = {h} \union Elements(rest)
        /\ h \notin Elements(rest)
        /\ KeysDiffer(rest) /\ Ascending(rest)
        /\ \A x \in Elements(rest) : ~SameLane(x, h)
    BY <1>1, <1>2, <2>1, WithoutProperties, ElementsWithout, AscendingWithout, KeysDifferWithout
  <2> HIDE DEF rest, h
  <2>4. \A x \in Elements(rest) : Coalesces(x) /\ ~SameLane(x, m) /\ x.id < m.id
    BY <1>3, <2>1, <2>3 DEF SameLane
  <2>5. /\ Append(rest, m) \in Seq(Messages) /\ Len(Append(rest, m)) = Len(rest) + 1
        /\ Elements(Append(rest, m)) = Elements(rest) \union {m}
        /\ KeysDiffer(Append(rest, m)) /\ Ascending(Append(rest, m))
        /\ \A x \in Elements(Append(rest, m)) : Coalesces(x)
    BY <2>3, <2>4, LaneExtended
  <2>6. /\ t \in Subscribers /\ t.fifo = s.fifo /\ t.coalesced = Append(rest, m) /\ t.view = s.view
        /\ t.coalescedCount = s.coalescedCount + 1 /\ t.droppedCount = s.droppedCount
        /\ t.filteredCount = s.filteredCount
    BY <1>1, <2>2, <2>5 DEF Subscribers
  <2>7. LanesOK(t)
    <3>1. Len(t.coalesced) = Len(lane)
      BY <1>1, <2>3, <2>5, <2>6
    <3> QED BY <1>1, <1>6, <2>5, <2>6, <3>1
  <2>8. h \in Held(s) /\ h # m /\ h \notin Elements(s.fifo)
    BY <1>3, <1>4, <2>3
  <2>9. Held(t) = (Held(s) \union {m}) \ {h}
    BY <1>3, <2>3, <2>5, <2>6, <2>8 DEF Held
  <2>10. Replaced(s, m, t)
    BY <2>1, <2>6, <2>8, <2>9 DEF Replaced, Admits
  <2> QED BY <2>7, <2>10 DEF t
<1>8. CASE old = 0 /\ full
  <2> DEFINE h == Head(lane)
             rest == Tail(lane)
  <2>1. \A x \in Elements(lane) : ~SameLane(x, m)
    BY <1>1, <1>8, PositionFound
  <2>2. t = [s EXCEPT !.coalesced = Append(rest, m), !.droppedCount = @ + 1, !.ready = TRUE]
    BY <1>1, <1>8 DEF OfferCoalesced, Subscribers
  <2>3. lane # <<>> /\ Len(lane) >= CoalescedMax
    BY <1>8
  <2> HIDE DEF t, lane, old
  <2>4. Without(lane, 1) = rest /\ 1 \in 1..Len(lane) /\ h = lane[1]
    BY <1>1, <2>3, TailIsWithout
  <2>5. /\ rest \in Seq(Messages) /\ Len(rest) = Len(lane) - 1
        /\ Elements(lane) = {h} \union Elements(rest)
        /\ h \notin Elements(rest)
        /\ KeysDiffer(rest) /\ Ascending(rest)
        /\ \A x \in Elements(rest) : ~SameLane(h, x)
        /\ \A x \in Elements(rest) : h.id < x.id
    <3>1. rest \in Seq(Messages) /\ Len(rest) = Len(lane) - 1
      BY <1>1, <2>3, HeadTailProperties
    <3>2. Elements(lane) = {h} \union Elements(rest)
      BY <1>1, <2>3, ElementsTail
    <3>3. h \notin Elements(rest) /\ Ascending(rest)
      BY <1>1, <1>2, <2>4, AscendingWithout
    <3>4. KeysDiffer(rest) /\ \A x \in Elements(rest) : ~SameLane(h, x)
      BY <1>1, <1>2, <2>4, KeysDifferWithout
    <3>5. \A x \in Elements(rest) : h.id < x.id
      BY <1>1, <1>2, <2>3, AscendingTail
    <3> QED BY <3>1, <3>2, <3>3, <3>4, <3>5
  <2> HIDE DEF rest, h
  <2>6. \A x \in Elements(rest) : Coalesces(x) /\ ~SameLane(x, m) /\ x.id < m.id
    BY <1>3, <2>1, <2>5
  <2>7. /\ Append(rest, m) \in Seq(Messages) /\ Len(Append(rest, m)) = Len(rest) + 1
        /\ Elements(Append(rest, m)) = Elements(rest) \union {m}
        /\ KeysDiffer(Append(rest, m)) /\ Ascending(Append(rest, m))
        /\ \A x \in Elements(Append(rest, m)) : Coalesces(x)
    BY <2>5, <2>6, LaneExtended
  <2>8. /\ t \in Subscribers /\ t.fifo = s.fifo /\ t.coalesced = Append(rest, m) /\ t.view = s.view
        /\ t.coalescedCount = s.coalescedCount /\ t.droppedCount = s.droppedCount + 1
        /\ t.filteredCount = s.filteredCount
    BY <1>1, <2>2, <2>7 DEF Subscribers
  <2>9. LanesOK(t)
    <3>1. Len(t.coalesced) = Len(lane)
      BY <1>1, <2>5, <2>7, <2>8
    <3> QED BY <1>1, <1>6, <2>7, <2>8, <3>1
  <2>10. h \in Held(s) /\ Coalesces(h) /\ h # m /\ h \notin Elements(s.fifo)
    BY <1>3, <1>4, <2>5
  <2>11. Held(t) = (Held(s) \union {m}) \ {h}
    BY <1>3, <2>5, <2>7, <2>8, <2>10 DEF Held
  <2>12. /\ Len(t.coalesced) >= CoalescedMax
         /\ \A x \in Elements(t.coalesced) : h.id < x.id /\ ~SameLane(h, x)
    BY <1>1, <1>3, <2>1, <2>3, <2>5, <2>7, <2>8
  <2>13. Shed(s, m, t)
    BY <2>8, <2>10, <2>11, <2>12 DEF Shed, Admits
  <2> QED BY <2>9, <2>13 DEF t
<1>9. CASE old = 0 /\ ~full
  <2>1. \A x \in Elements(lane) : ~SameLane(x, m)
    BY <1>1, <1>9, PositionFound
  <2>2. t = [s EXCEPT !.coalesced = Append(lane, m), !.ready = TRUE]
    BY <1>1, <1>9 DEF OfferCoalesced, Subscribers
  <2>3. Len(lane) + 1 <= IF CoalescedMax = 0 THEN 1 ELSE CoalescedMax
    <3>1. CASE lane = <<>>
      BY <1>1, <3>1, EmptySeq
    <3>2. CASE Len(lane) < CoalescedMax
      BY <1>1, <3>2
    <3> QED BY <1>1, <1>9, <3>1, <3>2
  <2> HIDE DEF t, lane, old
  <2>4. /\ Append(lane, m) \in Seq(Messages) /\ Len(Append(lane, m)) = Len(lane) + 1
        /\ Elements(Append(lane, m)) = Elements(lane) \union {m}
        /\ KeysDiffer(Append(lane, m)) /\ Ascending(Append(lane, m))
        /\ \A x \in Elements(Append(lane, m)) : Coalesces(x)
    BY <1>1, <1>2, <1>3, <2>1, LaneExtended
  <2>5. /\ t \in Subscribers /\ t.fifo = s.fifo /\ t.coalesced = Append(lane, m) /\ t.view = s.view
        /\ t.coalescedCount = s.coalescedCount /\ t.droppedCount = s.droppedCount
        /\ t.filteredCount = s.filteredCount
    BY <1>1, <2>2, <2>4 DEF Subscribers
  <2>6. LanesOK(t)
    BY <1>6, <2>3, <2>4, <2>5
  <2>7. Kept(s, m, t)
    BY <1>3, <2>4, <2>5 DEF Kept, Admits, Held
  <2> QED BY <2>6, <2>7 DEF t
<1> QED BY <1>7, <1>8, <1>9

\* What offer does to a subscriber: one of four outcomes, and the lanes stay
\* ordered and bounded.
LEMMA OfferEffect ==
  ASSUME NEW s, LanesOK(s), NEW m \in Messages, \A x \in Held(s) : x.id < m.id
  PROVE  LET t == Offer(s, m)
         IN  /\ LanesOK(t)
             /\ Filtered(s, m, t) \/ Kept(s, m, t) \/ Replaced(s, m, t) \/ Shed(s, m, t)
<1>1. CASE m.place \notin s.view
  <2> DEFINE t == [s EXCEPT !.filteredCount = @ + 1]
  <2>1. Offer(s, m) = t
    BY <1>1 DEF Offer
  <2>2. s \in Subscribers
    BY DEF LanesOK
  <2>3. t \in Subscribers /\ t.fifo = s.fifo /\ t.coalesced = s.coalesced
    BY <2>2 DEF Subscribers
  <2> HIDE DEF t
  <2>4. LanesOK(t)
    BY <2>3 DEF LanesOK, LanesBounded
  <2> QED BY <1>1, <2>1, <2>4 DEF Filtered, t
<1>2. CASE m.place \in s.view /\ Coalesces(m)
  BY <1>2, OfferCoalescedEffect DEF Offer
<1>3. CASE m.place \in s.view /\ ~Coalesces(m)
  BY <1>3, OfferFifoEffect DEF Offer
<1> QED BY <1>1, <1>2, <1>3

-----------------------------------------------------------------------------
(* The ring buffer *)

LEMMA LastOfProperties ==
  ASSUME NEW S, NEW s \in Seq(S), NEW n \in Nat
  PROVE  /\ LastOf(s, n) \in Seq(S)
         /\ Len(LastOf(s, n)) = IF Len(s) > n THEN n ELSE Len(s)
         /\ \A i \in 1..Len(LastOf(s, n)) : LastOf(s, n)[i] = s[Len(s) - Len(LastOf(s, n)) + i]
<1> DEFINE first == IF Len(s) > n THEN Len(s) - n + 1 ELSE 1
<1>1. Len(s) \in Nat /\ first \in 1..Len(s) + 1 /\ \A i \in 1..Len(s) : s[i] \in S
  BY LenProperties, ElementOfSeq
<1>2. Len(s) - first + 1 = IF Len(s) > n THEN n ELSE Len(s)
  BY <1>1
<1>3. LastOf(s, n) = SubSeq(s, first, Len(s))
  BY DEF LastOf
<1> HIDE DEF first
<1>4. \A i \in first..Len(s) : s[i] \in S
  BY <1>1
<1>5. /\ SubSeq(s, first, Len(s)) \in Seq(S)
      /\ Len(SubSeq(s, first, Len(s))) = IF first <= Len(s) THEN Len(s) - first + 1 ELSE 0
      /\ \A i \in 1..Len(s) - first + 1 : SubSeq(s, first, Len(s))[i] = s[first + i - 1]
  BY <1>1, <1>4, SubSeqProperties
<1>6. Len(LastOf(s, n)) = Len(s) - first + 1
  BY <1>1, <1>3, <1>5
<1>7. \A i \in 1..Len(s) - first + 1 : Len(s) - (Len(s) - first + 1) + i = first + i - 1
  BY <1>1
<1> QED BY <1>2, <1>3, <1>5, <1>6, <1>7

Entries == [seq : 1..MaxMsgs, event : Messages]

LEMMA EntryEvents ==
  ASSUME NEW s \in Seq(Entries), NEW i \in 1..Len(s)
  PROVE  s[i].event \in Messages /\ s[i].event.id \in Nat
<1>1. s[i] \in Entries
  BY ElementOfSeq
<1>2. s[i].event \in Messages
  BY <1>1 DEF Entries
<1> QED BY <1>2, MessageIds

\* The ring buffer holds events in the order they were consumed.
RingOK ==
  /\ consumed \in 0..MaxMsgs
  /\ ring \in Seq(Entries) /\ Len(ring) <= RingSize
  /\ \A i, j \in 1..Len(ring) : i < j => ring[i].event.id < ring[j].event.id
  /\ \A i \in 1..Len(ring) : ring[i].event.id <= consumed

LEMMA AppendedRing ==
  ASSUME RingOK, NEW m \in Messages, m.id = consumed + 1,
         consumed' = consumed + 1, ring' = Appended(ring, m.id, m)
  PROVE  RingOK'
<1> DEFINE e == [seq |-> m.id, event |-> m]
           all == Append(ring, e)
           last == LastOf(all, RingSize)
<1>1. consumed + 1 \in 1..MaxMsgs /\ e \in Entries /\ RingSize \in Nat /\ consumed \in Nat
  BY MessageIds, RingAssumption, LiveStreamAssumption DEF RingOK, Entries
<1>2. CASE RingSize = 0
  <2>1. ring' = ring
    BY <1>2 DEF Appended
  <2>2. \A i \in 1..Len(ring) : ring[i].event.id \in Nat
    BY EntryEvents DEF RingOK
  <2> QED BY <1>1, <2>1, <2>2 DEF RingOK
<1>3. CASE RingSize # 0
  <2>1. ring' = last
    BY <1>3 DEF Appended
  <2>2. /\ all \in Seq(Entries) /\ Len(all) = Len(ring) + 1 /\ Len(ring) \in Nat
        /\ \A i \in 1..Len(ring) : all[i] = ring[i]
        /\ all[Len(ring) + 1] = e
    BY <1>1, LenProperties, AppendProperties DEF RingOK
  <2>3. e.event.id = consumed + 1
    OBVIOUS
  <2> HIDE DEF e, all
  <2>4. \A i \in 1..Len(all) : all[i].event.id \in Nat
    BY <2>2, EntryEvents
  <2>5. \A i, j \in 1..Len(all) : i < j => all[i].event.id < all[j].event.id
    <3> SUFFICES ASSUME NEW i \in 1..Len(all), NEW j \in 1..Len(all), i < j
                 PROVE  all[i].event.id < all[j].event.id
      OBVIOUS
    <3>1. i \in 1..Len(ring)
      BY <2>2
    <3>2. CASE j \in 1..Len(ring)
      BY <2>2, <3>1, <3>2 DEF RingOK
    <3>3. CASE j = Len(ring) + 1
      <4>1. ring[i].event.id <= consumed /\ all[i] = ring[i] /\ all[j].event.id = consumed + 1
        BY <2>2, <2>3, <3>1, <3>3 DEF RingOK
      <4> QED BY <1>1, <2>4, <4>1
    <3> QED BY <2>2, <3>2, <3>3
  <2>6. \A i \in 1..Len(all) : all[i].event.id <= consumed + 1
    <3> SUFFICES ASSUME NEW i \in 1..Len(all) PROVE all[i].event.id <= consumed + 1
      OBVIOUS
    <3>1. CASE i \in 1..Len(ring)
      <4>1. ring[i].event.id <= consumed /\ all[i] = ring[i]
        BY <2>2, <3>1 DEF RingOK
      <4> QED BY <1>1, <2>4, <4>1
    <3>2. CASE i = Len(ring) + 1
      BY <1>1, <2>2, <2>3, <3>2
    <3> QED BY <2>2, <3>1, <3>2
  <2>7. /\ last \in Seq(Entries) /\ Len(last) <= RingSize /\ Len(last) <= Len(all) /\ Len(last) \in Nat
        /\ \A i \in 1..Len(last) : last[i] = all[Len(all) - Len(last) + i]
    <3>1. Len(all) \in Nat
      BY <2>2
    <3>2. /\ last \in Seq(Entries)
          /\ Len(last) = IF Len(all) > RingSize THEN RingSize ELSE Len(all)
          /\ \A i \in 1..Len(last) : last[i] = all[Len(all) - Len(last) + i]
      BY <1>1, <2>2, LastOfProperties
    <3> HIDE DEF last
    <3>3. Len(last) <= RingSize /\ Len(last) <= Len(all) /\ Len(last) \in Nat
      BY RingAssumption, <3>1, <3>2
    <3> QED BY <3>2, <3>3
  <2> HIDE DEF last
  <2>8. \A i \in 1..Len(last) : Len(all) - Len(last) + i \in 1..Len(all)
    BY <2>2, <2>7
  <2>9. \A i, j \in 1..Len(last) : i < j => Len(all) - Len(last) + i < Len(all) - Len(last) + j
    BY <2>2, <2>7
  <2>10. \A i, j \in 1..Len(last) : i < j => last[i].event.id < last[j].event.id
    BY <2>5, <2>7, <2>8, <2>9
  <2>11. \A i \in 1..Len(last) : last[i].event.id <= consumed + 1
    BY <2>6, <2>7, <2>8
  <2>12. consumed' \in 0..MaxMsgs
    BY <1>1
  <2> QED BY <2>1, <2>7, <2>10, <2>11, <2>12 DEF RingOK
<1> QED BY <1>2, <1>3

LEMMA RecentProperties ==
  ASSUME RingOK, NEW n \in Nat
  PROVE  /\ Recent(ring, n) \in Seq(Messages)
         /\ Ascending(Recent(ring, n))
         /\ \A x \in Elements(Recent(ring, n)) : x.id <= consumed
<1>1. CASE n = 0
  BY <1>1, EmptySeq, AscendingEmpty, ElementsEmpty DEF Recent
<1>2. CASE n # 0
  <2> DEFINE window == LastOf(ring, n)
             r == [i \in 1..Len(window) |-> window[i].event]
  <2>1. Recent(ring, n) = r
    BY <1>2 DEF Recent
  <2>2. /\ window \in Seq(Entries) /\ Len(window) \in Nat /\ Len(ring) \in Nat
        /\ Len(window) <= Len(ring)
        /\ \A i \in 1..Len(window) : window[i] = ring[Len(ring) - Len(window) + i]
    BY LastOfProperties, LenProperties DEF RingOK
  <2>3. \A i \in 1..Len(window) : window[i].event \in Messages
    BY <2>2, EntryEvents
  <2> HIDE DEF window
  <2>4. r \in Seq(Messages) /\ Len(r) = Len(window)
    BY <2>2, <2>3
  <2>5. \A i, j \in 1..Len(window) : i < j =>
          /\ Len(ring) - Len(window) + i \in 1..Len(ring)
          /\ Len(ring) - Len(window) + j \in 1..Len(ring)
          /\ Len(ring) - Len(window) + i < Len(ring) - Len(window) + j
    BY <2>2
  <2>6. \A i \in 1..Len(window) : r[i] = ring[Len(ring) - Len(window) + i].event
    BY <2>2
  <2> HIDE DEF r
  <2>7. Ascending(r)
    BY <2>4, <2>5, <2>6 DEF Ascending, RingOK
  <2>8. \A i \in 1..Len(window) : r[i].id <= consumed
    <3>1. \A i \in 1..Len(window) : Len(ring) - Len(window) + i \in 1..Len(ring)
      BY <2>2
    <3> QED BY <2>6, <3>1 DEF RingOK
  <2> QED BY <2>1, <2>4, <2>7, <2>8 DEF Elements
<1> QED BY <1>1, <1>2

-----------------------------------------------------------------------------
(* Sessions *)

\* In each lane later messages come later.
Ordered(s) == \A i, j \in 1..Len(s) : i < j /\ SameLane(s[i], s[j]) => s[i].id < s[j].id

Precedes(A, B) == \A x \in A, y \in B : SameLane(x, y) => x.id < y.id

LEMMA OrderedAscending == ASSUME NEW s, Ascending(s) PROVE Ordered(s)
  BY DEF Ascending, Ordered

LEMMA OrderedConcat ==
  ASSUME NEW s \in Seq(Messages), NEW t \in Seq(Messages),
         Ordered(s), Ordered(t), Precedes(Elements(s), Elements(t))
  PROVE  Ordered(s \o t)
<1>1. /\ Len(s) \in Nat /\ Len(t) \in Nat
      /\ Len(s \o t) = Len(s) + Len(t)
      /\ \A i \in 1..Len(s) + Len(t) : (s \o t)[i] = IF i <= Len(s) THEN s[i] ELSE t[i - Len(s)]
  BY LenProperties, ConcatProperties
<1> DEFINE u == s \o t
<1>2. \A i \in 1..Len(u) : i <= Len(s) => i \in 1..Len(s) /\ u[i] = s[i] /\ u[i] \in Elements(s)
  BY <1>1 DEF Elements
<1>3. \A i \in 1..Len(u) : i > Len(s) =>
        /\ i - Len(s) \in 1..Len(t) /\ u[i] = t[i - Len(s)] /\ u[i] \in Elements(t)
  BY <1>1 DEF Elements
<1> HIDE DEF u
<1>4. SUFFICES ASSUME NEW i \in 1..Len(u), NEW j \in 1..Len(u), i < j, SameLane(u[i], u[j])
               PROVE  u[i].id < u[j].id
  BY DEF Ordered, u
<1>5. Len(u) \in Nat
  BY <1>1 DEF u
<1>6. CASE j <= Len(s)
  <2>1. i <= Len(s)
    BY <1>1, <1>4, <1>5, <1>6
  <2> QED BY <1>2, <1>4, <1>6, <2>1 DEF Ordered
<1>7. CASE i > Len(s)
  <2>1. j > Len(s) /\ i - Len(s) < j - Len(s)
    BY <1>1, <1>4, <1>5, <1>7
  <2> QED BY <1>3, <1>4, <1>7, <2>1 DEF Ordered
<1>8. CASE i <= Len(s) /\ j > Len(s)
  BY <1>2, <1>3, <1>4, <1>8 DEF Precedes
<1> QED BY <1>1, <1>5, <1>6, <1>7, <1>8

\* One session: its lanes, what it has sent and is sending, in this order, and
\* nothing held that the view did not admit.
SessionOK(c) ==
  /\ LanesOK(sub[c])
  /\ \A x \in Elements(sent[c]) \union Elements(batch[c]) \union Held(sub[c]) \union offered[c] :
       x.id <= consumed
  /\ phase[c] \in {"waiting", "flushing"} => batch[c] = <<>>
  /\ Ordered(sent[c]) /\ Ordered(batch[c])
  /\ Precedes(Elements(sent[c]), Elements(batch[c]))
  /\ Precedes(Elements(sent[c]), Held(sub[c]))
  /\ Precedes(Elements(batch[c]), Held(sub[c]))
  /\ Held(sub[c]) \subseteq offered[c]

Shape ==
  /\ phase \in [Clients -> {"closed", "snapshot", "waiting", "flushing", "sending"}]
  /\ gone \in [Clients -> BOOLEAN]
  /\ connects \in [Clients -> 0..MaxConnects]
  /\ sub \in [Clients -> Subscribers]
  /\ batch \in [Clients -> Seq(Messages)] /\ sent \in [Clients -> Seq(Messages)]
  /\ offered \in [Clients -> SUBSET Messages]

\* The inductive invariant.
StreamInv == RingOK /\ Shape /\ \A c \in Clients : SessionOK(c)

LEMMA PendingProperties ==
  ASSUME NEW s, LanesOK(s)
  PROVE  Pending(s) \in Seq(Messages) /\ Elements(Pending(s)) = Held(s) /\ Ordered(Pending(s))
<1>1. s.fifo \in Seq(Messages) /\ s.coalesced \in Seq(Messages)
  BY DEF LanesOK, Subscribers
<1>2. Precedes(Elements(s.fifo), Elements(s.coalesced))
  BY DEF LanesOK, Precedes, SameLane
<1>3. Ordered(s.fifo) /\ Ordered(s.coalesced)
  BY OrderedAscending DEF LanesOK
<1> QED BY <1>1, <1>2, <1>3, OrderedConcat, ElementsConcat, ConcatProperties DEF Pending, Held

LEMMA StreamProperties ==
  ASSUME NEW c \in Clients, Shape, SessionOK(c)
  PROVE  /\ Elements(Stream(c)) = Elements(sent[c]) \union Elements(batch[c]) \union Held(sub[c])
         /\ Ordered(Stream(c)) /\ Stream(c) \in Seq(Messages)
<1> DEFINE p == Pending(sub[c])
<1>1. /\ p \in Seq(Messages) /\ Elements(p) = Held(sub[c]) /\ Ordered(p)
      /\ batch[c] \in Seq(Messages) /\ sent[c] \in Seq(Messages)
  BY PendingProperties DEF SessionOK, Shape
<1> HIDE DEF p
<1>2. /\ sent[c] \o batch[c] \in Seq(Messages)
      /\ Elements(sent[c] \o batch[c]) = Elements(sent[c]) \union Elements(batch[c])
  BY <1>1, ConcatProperties, ElementsConcat
<1>3. Ordered(sent[c] \o batch[c])
  BY <1>1, OrderedConcat DEF SessionOK
<1>4. Precedes(Elements(sent[c] \o batch[c]), Elements(p))
  BY <1>1, <1>2 DEF SessionOK, Precedes
<1> DEFINE q == sent[c] \o batch[c]
<1>5. Stream(c) = q \o p
  BY DEF Stream, p
<1> HIDE DEF q
<1>6. q \in Seq(Messages) /\ p \in Seq(Messages) /\ Elements(q) = Elements(sent[c]) \union Elements(batch[c])
  BY <1>1, <1>2 DEF q
<1>7. q \o p \in Seq(Messages) /\ Elements(q \o p) = Elements(q) \union Elements(p)
  BY <1>6, ConcatProperties, ElementsConcat
<1>8. Ordered(q \o p)
  BY <1>1, <1>3, <1>4, <1>6, OrderedConcat DEF q
<1> QED BY <1>1, <1>5, <1>6, <1>7, <1>8

LEMMA NewSubscriberOK == LanesOK(NewSubscriber) /\ Held(NewSubscriber) = {}
<1>1. NewSubscriber \in Subscribers
  BY EmptySeq DEF NewSubscriber, Subscribers
<1>2. NewSubscriber.fifo = <<>> /\ NewSubscriber.coalesced = <<>>
  BY DEF NewSubscriber
<1>3. LanesBounded(NewSubscriber)
  BY <1>2, EmptySeq, SubscriberAssumption DEF LanesBounded
<1> QED BY <1>1, <1>2, <1>3, AscendingEmpty, ElementsEmpty DEF LanesOK, Held

LEMMA InitStream == Init => StreamInv
<1> SUFFICES ASSUME Init PROVE StreamInv
  OBVIOUS
<1>1. RingOK
  BY EmptySeq, LiveStreamAssumption, RingAssumption DEF Init, RingOK
<1>2. Shape
  <2>1. NewSubscriber \in Subscribers /\ <<>> \in Seq(Messages) /\ 0 \in 0..MaxConnects
    BY NewSubscriberOK, EmptySeq, LiveStreamAssumption DEF LanesOK
  <2> QED BY <2>1 DEF Init, Shape
<1>3. ASSUME NEW c \in Clients PROVE SessionOK(c)
  <2>1. /\ sub[c] = NewSubscriber /\ batch[c] = <<>> /\ sent[c] = <<>> /\ offered[c] = {}
        /\ phase[c] = "closed"
    BY DEF Init
  <2>2. Ordered(<<>>)
    BY OrderedAscending, AscendingEmpty
  <2> QED BY <2>1, <2>2, NewSubscriberOK, ElementsEmpty DEF SessionOK, Precedes
<1> QED BY <1>1, <1>2, <1>3 DEF StreamInv

\* A session whose variables a step leaves alone stays as it is.
LEMMA Untouched ==
  ASSUME NEW d \in Clients, SessionOK(d), consumed' = consumed,
         phase'[d] = phase[d], sub'[d] = sub[d], batch'[d] = batch[d],
         sent'[d] = sent[d], offered'[d] = offered[d]
  PROVE  SessionOK(d)'
  BY DEF SessionOK

\* The message that _consume_loop handles next, and what it does to a session.
LEMMA ConsumeStream ==
  ASSUME StreamInv, NEW kind \in Kinds, NEW place \in Places, Consume(kind, place)
  PROVE  StreamInv'
<1> DEFINE m == [type |-> kind[1], key |-> kind[2], place |-> place, id |-> consumed + 1]
<1>1. /\ consumed \in Nat /\ consumed < MaxMsgs /\ consumed' = consumed + 1
      /\ MaxMsgs \in Nat
  BY LiveStreamAssumption DEF Consume, StreamInv, RingOK
<1>2. m \in Messages /\ m.id = consumed + 1
  <2>1. consumed + 1 \in 1..MaxMsgs /\ kind[1] \in {"clean", "aggregated", "alert"}
    BY <1>1, LiveStreamAssumption
  <2> QED BY <2>1 DEF Messages
<1>3. /\ sub' = FanOut(m) /\ offered' = Admitted(m)
      /\ ring' = IF m.type = "clean" THEN Appended(ring, m.id, m) ELSE ring
      /\ UNCHANGED <<phase, batch, gone, connects, sent>>
  BY DEF Consume, Publish
<1> HIDE DEF m
<1>4. RingOK'
  <2>1. CASE m.type = "clean"
    BY <1>1, <1>2, <1>3, <2>1, AppendedRing DEF StreamInv
  <2>2. CASE m.type # "clean"
    <3>1. ring' = ring /\ \A i \in 1..Len(ring) : ring[i].event.id \in Nat
      BY <1>3, <2>2, EntryEvents DEF StreamInv, RingOK
    <3> QED BY <1>1, <3>1 DEF StreamInv, RingOK
  <2> QED BY <2>1, <2>2
<1>5. ASSUME NEW c \in Clients
      PROVE  /\ SessionOK(c)' /\ sub'[c] \in Subscribers /\ offered'[c] \in SUBSET Messages
  <2>1. /\ SessionOK(c) /\ offered[c] \in SUBSET Messages
        /\ phase'[c] = phase[c] /\ batch'[c] = batch[c] /\ sent'[c] = sent[c]
        /\ LanesOK(sub[c]) /\ sub[c] \in Subscribers
    BY <1>3 DEF StreamInv, Shape, SessionOK, LanesOK
  <2> DEFINE all == Elements(sent[c]) \union Elements(batch[c]) \union Held(sub[c]) \union offered[c]
  <2>2. \A x \in all : x \in Messages /\ x.id \in Nat /\ x.id <= consumed
    <3>1. /\ sent[c] \in Seq(Messages) /\ batch[c] \in Seq(Messages)
          /\ sub[c].fifo \in Seq(Messages) /\ sub[c].coalesced \in Seq(Messages)
      BY <2>1 DEF StreamInv, Shape, Subscribers
    <3>2. all \subseteq Messages
      BY <2>1, <3>1, ElementsSubset DEF Held
    <3>3. \A x \in all : x.id <= consumed
      BY <2>1 DEF SessionOK
    <3> QED BY <3>2, <3>3, MessageIds
  <2>3. /\ sub'[c] = IF Subscribed(c) THEN Offer(sub[c], m) ELSE sub[c]
        /\ offered'[c] = IF Subscribed(c) /\ m.place \in sub[c].view
                         THEN offered[c] \union {m} ELSE offered[c]
    BY <1>3 DEF FanOut, Admitted
  <2>4. CASE ~Subscribed(c)
    <3>1. \A x \in all : x.id <= consumed + 1
      BY <1>1, <2>2
    <3> QED BY <1>1, <2>1, <2>3, <2>4, <3>1 DEF SessionOK
  <2>5. CASE Subscribed(c)
    <3> DEFINE t == Offer(sub[c], m)
    <3>1. \A x \in Held(sub[c]) : x.id < m.id
      BY <1>1, <1>2, <2>2
    <3>2. /\ LanesOK(t)
          /\ Filtered(sub[c], m, t) \/ Kept(sub[c], m, t) \/ Replaced(sub[c], m, t) \/ Shed(sub[c], m, t)
      BY <1>2, <2>1, <3>1, OfferEffect
    <3>3. sub'[c] = t
      BY <2>3, <2>5
    <3> HIDE DEF t
    <3>4. /\ Held(t) \subseteq Held(sub[c]) \union {m}
          /\ m.place \notin sub[c].view => Held(t) = Held(sub[c])
      <4>1. CASE Filtered(sub[c], m, t)
        <5>1. t.fifo = sub[c].fifo /\ t.coalesced = sub[c].coalesced
          BY <2>1, <4>1 DEF Filtered, Subscribers
        <5> QED BY <5>1 DEF Held
      <4>2. CASE Kept(sub[c], m, t)
        BY <4>2 DEF Kept, Admits
      <4>3. CASE Replaced(sub[c], m, t)
        BY <4>3 DEF Replaced, Admits
      <4>4. CASE Shed(sub[c], m, t)
        BY <4>4 DEF Shed, Admits
      <4> QED BY <3>2, <4>1, <4>2, <4>3, <4>4
    <3>5. Held(t) \subseteq offered'[c] /\ offered'[c] \subseteq offered[c] \union {m}
      BY <2>1, <2>3, <2>5, <3>4 DEF SessionOK
    <3>6. \A x \in Elements(sent[c]) \union Elements(batch[c]) \union Held(t) \union offered'[c] :
            x.id <= consumed + 1
      BY <1>1, <1>2, <2>2, <3>4, <3>5
    <3>7. /\ Precedes(Elements(sent[c]), Held(t))
          /\ Precedes(Elements(batch[c]), Held(t))
      <4>1. \A x \in Elements(sent[c]) \union Elements(batch[c]) : x.id < m.id
        BY <1>1, <1>2, <2>2
      <4> QED BY <2>1, <3>4, <4>1 DEF SessionOK, Precedes
    <3>8. t \in Subscribers
      BY <3>2 DEF LanesOK
    <3>9. offered'[c] \in SUBSET Messages
      BY <1>2, <2>1, <3>5
    <3>10. SessionOK(c)'
      BY <1>1, <2>1, <3>2, <3>3, <3>5, <3>6, <3>7 DEF SessionOK
    <3> QED BY <3>3, <3>8, <3>9, <3>10
  <2> QED BY <2>4, <2>5
<1>6. Shape'
  BY <1>3, <1>5 DEF StreamInv, Shape, FanOut, Admitted
<1> QED BY <1>4, <1>5, <1>6 DEF StreamInv

\* A step that leaves the ring alone and ends well for the session it is about
\* keeps the invariant, if no other session changes.
LEMMA OneSession ==
  ASSUME StreamInv, NEW c \in Clients, Shape', SessionOK(c)',
         UNCHANGED <<consumed, ring>>,
         \A d \in Clients \ {c} :
           /\ phase'[d] = phase[d] /\ sub'[d] = sub[d] /\ batch'[d] = batch[d]
           /\ sent'[d] = sent[d] /\ offered'[d] = offered[d]
  PROVE  StreamInv'
<1>1. RingOK'
  BY DEF StreamInv, RingOK
<1>2. ASSUME NEW d \in Clients PROVE SessionOK(d)'
  <2>1. CASE d = c
    BY <2>1
  <2>2. CASE d # c
    BY <2>2, Untouched DEF StreamInv
  <2> QED BY <2>1, <2>2
<1> QED BY <1>1, <1>2 DEF StreamInv

LEMMA ConnectStream ==
  ASSUME StreamInv, NEW c \in Clients, Connect(c)
  PROVE  StreamInv'
<1> DEFINE snapshot == Recent(ring, SnapshotLimit)
<1>1. /\ snapshot \in Seq(Messages) /\ Ordered(snapshot)
      /\ \A x \in Elements(snapshot) : x.id <= consumed
  BY RecentProperties, OrderedAscending, LiveStreamAssumption DEF StreamInv
<1>2. connects[c] + 1 \in 0..MaxConnects
  BY LiveStreamAssumption DEF Connect, StreamInv, Shape
<1>3. NewSubscriber \in Subscribers /\ LanesOK(NewSubscriber) /\ Held(NewSubscriber) = {}
  BY NewSubscriberOK DEF LanesOK
<1>4. <<>> \in Seq(Messages) /\ Elements(<<>>) = {} /\ Ordered(<<>>)
  BY EmptySeq, ElementsEmpty, OrderedAscending, AscendingEmpty
<1>5. Shape'
  BY <1>1, <1>2, <1>3, <1>4 DEF Connect, StreamInv, Shape
<1>6. /\ sub'[c] = NewSubscriber /\ batch'[c] = snapshot /\ sent'[c] = <<>>
      /\ offered'[c] = {} /\ phase'[c] = "snapshot" /\ consumed' = consumed
  BY DEF Connect, StreamInv, Shape
<1> HIDE DEF snapshot
<1>7. SessionOK(c)'
  BY <1>1, <1>3, <1>4, <1>6 DEF SessionOK, Precedes
<1> QED BY <1>5, <1>7, OneSession DEF Connect, StreamInv, Shape

LEMMA SendStream ==
  ASSUME StreamInv, NEW c \in Clients, Send(c)
  PROVE  StreamInv'
<1> DEFINE h == Head(batch[c])
           rest == Tail(batch[c])
<1>1. /\ batch[c] \in Seq(Messages) /\ batch[c] # <<>> /\ sent[c] \in Seq(Messages)
      /\ SessionOK(c)
  BY DEF Send, StreamInv, Shape
<1>2. /\ h \in Messages /\ rest \in Seq(Messages)
      /\ Elements(batch[c]) = {h} \union Elements(rest)
  BY <1>1, HeadTailProperties, ElementsTail
<1>3. /\ Ordered(rest)
      /\ \A y \in Elements(rest) : SameLane(h, y) => h.id < y.id
  <2>1. /\ Len(batch[c]) \in Nat \ {0} /\ Len(rest) = Len(batch[c]) - 1
        /\ \A i \in 1..Len(rest) : rest[i] = batch[c][i + 1]
        /\ h = batch[c][1]
    BY <1>1, EmptySeq, HeadTailProperties, ElementsTail
  <2>2. \A i \in 1..Len(rest) : i + 1 \in 1..Len(batch[c]) /\ 1 < i + 1 /\ 1 \in 1..Len(batch[c])
    BY <2>1
  <2> HIDE DEF h, rest
  <2>3. \A i, j \in 1..Len(rest) : i < j => i + 1 < j + 1
    BY <2>1
  <2>4. Ordered(rest)
    BY <1>1, <2>1, <2>2, <2>3 DEF SessionOK, Ordered
  <2>5. \A i \in 1..Len(rest) : SameLane(h, rest[i]) => h.id < rest[i].id
    BY <1>1, <2>1, <2>2 DEF SessionOK, Ordered
  <2> QED BY <2>4, <2>5 DEF Elements
<1>4. /\ sent' = IF gone[c] THEN sent ELSE [sent EXCEPT ![c] = Append(@, h)]
      /\ batch' = [batch EXCEPT ![c] = rest]
      /\ UNCHANGED <<consumed, ring, phase, sub, gone, connects, offered>>
      /\ phase[c] \in {"snapshot", "sending"}
  BY DEF Send
<1> HIDE DEF h, rest
<1>5. /\ Append(sent[c], h) \in Seq(Messages)
      /\ Elements(Append(sent[c], h)) = Elements(sent[c]) \union {h}
  BY <1>1, <1>2, AppendProperties, ElementsAppend
<1>6. Ordered(Append(sent[c], h))
  <2>1. /\ Len(sent[c]) \in Nat /\ Len(Append(sent[c], h)) = Len(sent[c]) + 1
        /\ \A i \in 1..Len(sent[c]) : Append(sent[c], h)[i] = sent[c][i]
        /\ Append(sent[c], h)[Len(sent[c]) + 1] = h
    BY <1>1, <1>2, LenProperties, AppendProperties
  <2>2. \A i \in 1..Len(sent[c]) : SameLane(sent[c][i], h) => sent[c][i].id < h.id
    BY <1>1, <1>2 DEF SessionOK, Precedes, Elements
  <2> SUFFICES ASSUME NEW i \in 1..Len(sent[c]) + 1, NEW j \in 1..Len(sent[c]) + 1, i < j,
                      SameLane(Append(sent[c], h)[i], Append(sent[c], h)[j])
               PROVE  Append(sent[c], h)[i].id < Append(sent[c], h)[j].id
    BY <2>1 DEF Ordered
  <2>3. i \in 1..Len(sent[c])
    BY <2>1
  <2>4. CASE j \in 1..Len(sent[c])
    BY <1>1, <2>1, <2>3, <2>4 DEF SessionOK, Ordered
  <2>5. CASE j = Len(sent[c]) + 1
    BY <2>1, <2>2, <2>3, <2>5
  <2> QED BY <2>1, <2>4, <2>5
<1>7. Shape'
  <2>1. sent' \in [Clients -> Seq(Messages)]
    BY <1>4, <1>5 DEF StreamInv, Shape
  <2>2. batch' \in [Clients -> Seq(Messages)]
    BY <1>2, <1>4 DEF StreamInv, Shape
  <2> QED BY <1>4, <2>1, <2>2 DEF StreamInv, Shape
<1>8. /\ sent'[c] = IF gone[c] THEN sent[c] ELSE Append(sent[c], h)
      /\ batch'[c] = rest
      /\ \A d \in Clients \ {c} : sent'[d] = sent[d] /\ batch'[d] = batch[d]
  BY <1>4 DEF StreamInv, Shape
<1>9. SessionOK(c)'
  <2>1. CASE gone[c]
    BY <1>1, <1>2, <1>3, <1>4, <1>8, <2>1 DEF SessionOK, Precedes
  <2>2. CASE ~gone[c]
    <3>1. /\ sent'[c] = Append(sent[c], h) /\ batch'[c] = rest /\ sub'[c] = sub[c]
          /\ phase'[c] = phase[c] /\ offered'[c] = offered[c] /\ consumed' = consumed
      BY <1>4, <1>8, <2>2
    <3>2. /\ Precedes(Elements(Append(sent[c], h)), Elements(rest))
          /\ Precedes(Elements(Append(sent[c], h)), Held(sub[c]))
          /\ Precedes(Elements(rest), Held(sub[c]))
      BY <1>1, <1>2, <1>3, <1>5 DEF SessionOK, Precedes
    <3>3. \A x \in Elements(Append(sent[c], h)) \union Elements(rest) \union Held(sub[c]) \union offered[c] :
            x.id <= consumed
      BY <1>1, <1>2, <1>5 DEF SessionOK
    <3> QED BY <1>1, <1>3, <1>4, <1>6, <3>1, <3>2, <3>3 DEF SessionOK
  <2> QED BY <2>1, <2>2
<1> QED BY <1>4, <1>7, <1>8, <1>9, OneSession

LEMMA DrainStream ==
  ASSUME StreamInv, NEW c \in Clients, Drain(c)
  PROVE  StreamInv'
<1> DEFINE p == Pending(sub[c])
           t == Drained(sub[c])
<1>1. SessionOK(c) /\ batch[c] = <<>> /\ LanesOK(sub[c]) /\ sub[c] \in Subscribers
  BY DEF Drain, StreamInv, SessionOK, LanesOK
<1>2. p \in Seq(Messages) /\ Elements(p) = Held(sub[c]) /\ Ordered(p)
  BY <1>1, PendingProperties
<1>3. t \in Subscribers /\ t.fifo = <<>> /\ t.coalesced = <<>>
  BY <1>1, EmptySeq DEF Drained, Subscribers
<1>4. /\ phase' = [phase EXCEPT ![c] = "sending"] /\ batch' = [batch EXCEPT ![c] = p]
      /\ sub' = [sub EXCEPT ![c] = t]
      /\ UNCHANGED <<consumed, ring, gone, connects, sent, offered>>
  BY DEF Drain
<1> HIDE DEF p, t
<1>5. LanesOK(t) /\ Held(t) = {}
  <2>1. LanesBounded(t)
    BY <1>3, EmptySeq, SubscriberAssumption DEF LanesBounded
  <2> QED BY <1>3, <2>1, AscendingEmpty, ElementsEmpty DEF LanesOK, Held
<1>6. Shape'
  BY <1>2, <1>3, <1>4 DEF StreamInv, Shape
<1>7. /\ phase'[c] = "sending" /\ batch'[c] = p /\ sub'[c] = t
      /\ sent'[c] = sent[c] /\ offered'[c] = offered[c] /\ consumed' = consumed
  BY <1>4 DEF StreamInv, Shape
<1>8. SessionOK(c)'
  BY <1>1, <1>2, <1>5, <1>7 DEF SessionOK, Precedes
<1> QED BY <1>4, <1>6, <1>8, OneSession DEF StreamInv, Shape

LEMMA TeardownStream ==
  ASSUME StreamInv, NEW c \in Clients, EndSession(c)
  PROVE  StreamInv'
<1>1. NewSubscriber \in Subscribers /\ LanesOK(NewSubscriber) /\ Held(NewSubscriber) = {}
  BY NewSubscriberOK DEF LanesOK
<1>2. <<>> \in Seq(Messages) /\ Elements(<<>>) = {} /\ Ordered(<<>>)
  BY EmptySeq, ElementsEmpty, OrderedAscending, AscendingEmpty
<1>3. Shape'
  BY <1>1, <1>2 DEF EndSession, StreamInv, Shape
<1>4. /\ sub'[c] = NewSubscriber /\ batch'[c] = <<>> /\ sent'[c] = <<>>
      /\ offered'[c] = {} /\ phase'[c] = "closed" /\ consumed' = consumed
  BY DEF EndSession, StreamInv, Shape
<1>5. SessionOK(c)'
  BY <1>1, <1>2, <1>4 DEF SessionOK, Precedes
<1> QED BY <1>3, <1>5, OneSession DEF EndSession, StreamInv, Shape

\* Waiting, waking and leaving move no message.
LEMMA PhaseStream ==
  ASSUME StreamInv, NEW c \in Clients, AwaitReady(c) \/ Wake(c) \/ Leave(c)
  PROVE  StreamInv'
<1>1. Shape' /\ UNCHANGED <<consumed, ring, sub, batch, sent, offered>>
  BY DEF AwaitReady, Wake, Leave, StreamInv, Shape
<1>2. phase'[c] \in {"waiting", "flushing"} => batch[c] = <<>>
  BY DEF AwaitReady, Wake, Leave, StreamInv, Shape, SessionOK
<1>3. \A d \in Clients \ {c} : phase'[d] = phase[d]
  BY DEF AwaitReady, Wake, Leave, StreamInv, Shape
<1>4. SessionOK(c)'
  BY <1>1, <1>2 DEF StreamInv, SessionOK
<1> QED BY <1>1, <1>3, <1>4, OneSession

LEMMA SubscribeStream ==
  ASSUME StreamInv, NEW c \in Clients, NEW view \in Views, Subscribe(c, view)
  PROVE  StreamInv'
<1> DEFINE t == [sub[c] EXCEPT !.view = view]
<1>1. /\ SessionOK(c) /\ LanesOK(sub[c]) /\ sub[c] \in Subscribers /\ view \in SUBSET Places
  BY LiveStreamAssumption DEF StreamInv, SessionOK, LanesOK
<1>2. t \in Subscribers /\ t.fifo = sub[c].fifo /\ t.coalesced = sub[c].coalesced
  BY <1>1 DEF Subscribers
<1>3. sub' = [sub EXCEPT ![c] = t] /\ UNCHANGED <<consumed, ring, phase, batch, gone, connects, sent, offered>>
  BY DEF Subscribe, StreamInv, Shape
<1> HIDE DEF t
<1>4. LanesOK(t) /\ Held(t) = Held(sub[c])
  BY <1>1, <1>2 DEF LanesOK, LanesBounded, Held
<1>5. Shape' /\ sub'[c] = t
  BY <1>2, <1>3 DEF StreamInv, Shape
<1>6. SessionOK(c)'
  BY <1>1, <1>3, <1>4, <1>5 DEF SessionOK
<1> QED BY <1>3, <1>5, <1>6, OneSession DEF StreamInv, Shape

LEMMA NextStream == StreamInv /\ [Next]_vars => StreamInv'
<1> SUFFICES ASSUME StreamInv, [Next]_vars PROVE StreamInv'
  OBVIOUS
<1>1. ASSUME NEW kind \in Kinds, NEW place \in Places, Consume(kind, place) PROVE StreamInv'
  BY <1>1, ConsumeStream
<1>2. ASSUME NEW c \in Clients, SessionStep(c) PROVE StreamInv'
  BY <1>2, SendStream, PhaseStream, DrainStream, TeardownStream DEF SessionStep, Teardown
<1>3. ASSUME NEW c \in Clients, Browser(c) PROVE StreamInv'
  BY <1>3, ConnectStream, PhaseStream, SubscribeStream DEF Browser
<1>4. CASE UNCHANGED vars
  BY <1>4 DEF vars, session, StreamInv, RingOK, Shape, SessionOK
<1> QED BY <1>1, <1>2, <1>3, <1>4 DEF Next, Consumer

LEMMA StreamInvariant == Spec => []StreamInv
  BY InitStream, NextStream, PTL DEF Spec

\* Types, and the bounds of both lanes of every client (broadcaster.py:13-23),
\* whatever the caps.
THEOREM TypeCorrect == Spec => []TypeOK
<1>1. StreamInv => TypeOK
  <2> SUFFICES ASSUME StreamInv PROVE TypeOK
    OBVIOUS
  <2>1. consumed \in 0..MaxMsgs /\ ring \in Seq([seq : 1..MaxMsgs, event : Messages]) /\ Len(ring) <= RingSize
    BY DEF StreamInv, RingOK, Entries
  <2>2. ASSUME NEW c \in Clients
        PROVE  /\ sub[c].fifo \in Seq(Messages) /\ sub[c].coalesced \in Seq(Messages)
               /\ batch[c] \in Seq(Messages) /\ sent[c] \in Seq(Messages)
               /\ offered[c] \subseteq Messages
               /\ LanesBounded(sub[c])
    BY DEF StreamInv, Shape, SessionOK, LanesOK, Subscribers
  <2> QED BY <2>1, <2>2 DEF StreamInv, Shape, TypeOK
<1> QED BY <1>1, StreamInvariant, PTL

\* No client ever sees a lane's messages out of order or one of them twice,
\* across the snapshot, the batches and what is pending (stream.py:109-112).
THEOREM DeliveredInOrder == Spec => []DeliveryOrdered
<1>1. StreamInv => DeliveryOrdered
  BY StreamProperties DEF StreamInv, DeliveryOrdered, Ordered
<1> QED BY <1>1, StreamInvariant, PTL

-----------------------------------------------------------------------------
(* What a step means for a session that is connected after it *)

\* The session moves on, with the same messages.
Quiet(c) ==
  /\ Subscribed(c) /\ ~gone[c]
  /\ Elements(Stream(c))' = Elements(Stream(c))
  /\ offered'[c] = offered[c] /\ ring' = ring
  /\ sub'[c].coalescedCount = sub[c].coalescedCount
  /\ sub'[c].droppedCount = sub[c].droppedCount
  /\ sub'[c].filteredCount = sub[c].filteredCount

\* The session begins.
Joined(c) ==
  /\ Elements(Stream(c))' = Elements(Recent(ring, SnapshotLimit))
  /\ offered'[c] = {} /\ ring' = ring
  /\ sub'[c].coalescedCount = 0 /\ sub'[c].droppedCount = 0 /\ sub'[c].filteredCount = 0

\* A message is offered to it, which removes h from what it holds and adds m.
Exchanged(c, m, h) ==
  /\ Elements(Stream(c))' = (Elements(Stream(c)) \union {m}) \ {h}
  /\ offered'[c] = offered[c] \union {m}
  /\ h \in offered'[c] /\ h \in Elements(Stream(c)) \union {m}

Fed(c, m) ==
  LET s == sub[c]
      t == sub'[c]
  IN  /\ Subscribed(c) /\ ~gone[c]
      /\ m \in Messages /\ m.id = consumed + 1
      /\ ring' = IF m.type = "clean" THEN Appended(ring, m.id, m) ELSE ring
      /\ LanesOK(t) /\ Held(t) \subseteq offered'[c]
      /\ \/ /\ Elements(Stream(c))' = Elements(Stream(c)) /\ offered'[c] = offered[c]
            /\ t = [s EXCEPT !.filteredCount = @ + 1]
         \/ /\ Elements(Stream(c))' = Elements(Stream(c)) \union {m}
            /\ offered'[c] = offered[c] \union {m}
            /\ t.coalescedCount = s.coalescedCount /\ t.droppedCount = s.droppedCount
            /\ t.filteredCount = s.filteredCount
         \/ \E h \in Held(s) :
              /\ Exchanged(c, m, h) /\ Coalesces(m) /\ SameLane(h, m) /\ h # m
              /\ t.coalescedCount = s.coalescedCount + 1 /\ t.droppedCount = s.droppedCount
              /\ t.filteredCount = s.filteredCount
         \/ \E h \in Held(s) \union {m} :
              /\ Exchanged(c, m, h)
              /\ Coalesces(h) <=> Coalesces(m)
              /\ Coalesces(m) => /\ Len(t.coalesced) >= CoalescedMax
                                 /\ \A x \in Elements(t.coalesced) : h.id < x.id /\ ~SameLane(h, x)
              /\ ~Coalesces(m) => Len(t.fifo) = MaxPending /\ \A x \in Elements(t.fifo) : h.id < x.id
              /\ t.coalescedCount = s.coalescedCount /\ t.droppedCount = s.droppedCount + 1

StreamSplits ==
  \A c \in Clients :
    Elements(Stream(c)) = Elements(sent[c]) \union Elements(batch[c]) \union Held(sub[c])

LEMMA StreamElements == StreamInv => StreamSplits
  BY StreamProperties DEF StreamInv, StreamSplits

LEMMA KnownMessages ==
  ASSUME StreamInv, NEW c \in Clients
  PROVE  \A x \in Elements(Stream(c)) \union offered[c] :
           x \in Messages /\ x.id \in Nat /\ x.id <= consumed
<1>1. /\ sent[c] \in Seq(Messages) /\ batch[c] \in Seq(Messages) /\ offered[c] \subseteq Messages
      /\ sub[c].fifo \in Seq(Messages) /\ sub[c].coalesced \in Seq(Messages)
  BY DEF StreamInv, Shape, Subscribers
<1>2. Elements(Stream(c)) \union offered[c] \subseteq Messages
  BY <1>1, ElementsSubset, StreamElements DEF Held, StreamSplits
<1>3. \A x \in Elements(Stream(c)) \union offered[c] : x.id <= consumed
  BY StreamElements DEF StreamInv, SessionOK, StreamSplits
<1> QED BY <1>2, <1>3, MessageIds

LEMMA ConsumeFeeds ==
  ASSUME StreamInv, StreamInv', NEW c \in Clients, Subscribed(c), ~gone[c],
         NEW kind \in Kinds, NEW place \in Places, Consume(kind, place)
  PROVE  \E m \in Messages : Fed(c, m)
<1> DEFINE m == [type |-> kind[1], key |-> kind[2], place |-> place, id |-> consumed + 1]
           s == sub[c]
           t == sub'[c]
<1>1. m.id = consumed + 1 /\ m.place = place
  OBVIOUS
<1>2. m \in Messages
  <2>1. consumed + 1 \in 1..MaxMsgs /\ kind[1] \in {"clean", "aggregated", "alert"}
    BY LiveStreamAssumption DEF Consume, StreamInv, RingOK
  <2> QED BY <2>1 DEF Messages
<1>3. /\ sub' = FanOut(m) /\ offered' = Admitted(m)
      /\ ring' = IF m.type = "clean" THEN Appended(ring, m.id, m) ELSE ring
      /\ UNCHANGED <<phase, batch, gone, connects, sent>>
  BY DEF Consume, Publish
<1> HIDE DEF m
<1>4. \A x \in Elements(Stream(c)) \union offered[c] : x.id \in Nat /\ x.id < m.id /\ x # m
  <2>1. consumed \in Nat /\ m.id \in Nat
    BY <1>2, MessageIds DEF StreamInv, RingOK
  <2> QED BY <1>1, <2>1, KnownMessages
<1>5. t = Offer(s, m) /\ (offered'[c] = IF m.place \in s.view THEN offered[c] \union {m} ELSE offered[c])
  BY <1>3 DEF FanOut, Admitted
<1>6. /\ Elements(Stream(c)) = Elements(sent[c]) \union Elements(batch[c]) \union Held(s)
      /\ Elements(Stream(c))' = Elements(sent[c]) \union Elements(batch[c]) \union Held(t)
  <2>1. StreamSplits /\ StreamSplits'
    BY StreamElements, PTL
  <2> QED BY <1>3, <2>1 DEF StreamSplits
<1>7. /\ LanesOK(t)
      /\ Filtered(s, m, t) \/ Kept(s, m, t) \/ Replaced(s, m, t) \/ Shed(s, m, t)
  <2>1. LanesOK(s) /\ \A x \in Held(s) : x.id < m.id
    BY <1>4, <1>6 DEF StreamInv, SessionOK
  <2> QED BY <1>2, <1>5, <2>1, OfferEffect
<1>8. Held(t) \subseteq offered'[c] /\ Held(s) \subseteq offered[c]
  BY DEF StreamInv, SessionOK
<1>9. \A h \in Held(s) : h \notin Elements(sent[c]) /\ h \notin Elements(batch[c])
  <2>1. \A h \in Held(s) : h.id \in Nat /\ SameLane(h, h)
    BY <1>4, <1>6 DEF SameLane
  <2> QED BY <2>1 DEF StreamInv, SessionOK, Precedes
<1> HIDE DEF s, t
<1>10. ASSUME NEW h \in Held(s) \union {m}, Held(t) = (Held(s) \union {m}) \ {h}, m.place \in s.view
       PROVE  Exchanged(c, m, h)
  <2>1. h \notin Elements(sent[c]) /\ h \notin Elements(batch[c])
    BY <1>4, <1>6, <1>9
  <2>2. m \notin Elements(sent[c]) /\ m \notin Elements(batch[c])
    BY <1>4, <1>6
  <2>3. Elements(Stream(c))' = (Elements(Stream(c)) \union {m}) \ {h}
    BY <1>6, <1>10, <2>1
  <2>4. offered'[c] = offered[c] \union {m}
    BY <1>5, <1>10
  <2> QED BY <1>6, <1>8, <2>3, <2>4 DEF Exchanged
<1>11. CASE Filtered(s, m, t)
  <2>1. s \in Subscribers
    BY DEF StreamInv, Shape, s
  <2>2. t.fifo = s.fifo /\ t.coalesced = s.coalesced
    BY <1>11, <2>1 DEF Filtered, Subscribers
  <2>3. Elements(Stream(c))' = Elements(Stream(c)) /\ offered'[c] = offered[c]
    BY <1>5, <1>6, <1>11, <2>2 DEF Filtered, Held
  <2> QED BY <1>1, <1>2, <1>3, <1>7, <1>8, <1>11, <2>3 DEF Fed, Filtered, s, t
<1>12. CASE Kept(s, m, t)
  <2>1. Elements(Stream(c))' = Elements(Stream(c)) \union {m} /\ offered'[c] = offered[c] \union {m}
    BY <1>5, <1>6, <1>12 DEF Kept, Admits
  <2> QED BY <1>1, <1>2, <1>3, <1>7, <1>8, <1>12, <2>1 DEF Fed, Kept, Admits, s, t
<1>13. CASE Replaced(s, m, t)
  <2>1. PICK h \in Held(s) : /\ Coalesces(m) /\ SameLane(h, m)
                             /\ Held(t) = (Held(s) \union {m}) \ {h}
    BY <1>13 DEF Replaced
  <2>2. Exchanged(c, m, h) /\ h # m
    BY <1>4, <1>6, <1>10, <1>13, <2>1 DEF Replaced, Admits
  <2> QED BY <1>1, <1>2, <1>3, <1>7, <1>8, <1>13, <2>1, <2>2 DEF Fed, Replaced, Admits, s, t
<1>14. CASE Shed(s, m, t)
  <2>1. PICK h \in Held(s) \union {m} :
          /\ Coalesces(h) <=> Coalesces(m)
          /\ Held(t) = (Held(s) \union {m}) \ {h}
          /\ Coalesces(m) => /\ Len(t.coalesced) >= CoalescedMax
                             /\ \A x \in Elements(t.coalesced) : h.id < x.id /\ ~SameLane(h, x)
          /\ ~Coalesces(m) => Len(t.fifo) = MaxPending /\ \A x \in Elements(t.fifo) : h.id < x.id
    BY <1>14 DEF Shed
  <2>2. Exchanged(c, m, h)
    BY <1>10, <1>14, <2>1 DEF Shed, Admits
  <2> QED BY <1>1, <1>2, <1>3, <1>7, <1>8, <1>14, <2>1, <2>2 DEF Fed, Shed, Admits, s, t
<1> QED BY <1>7, <1>11, <1>12, <1>13, <1>14

LEMMA SendKeepsElements ==
  ASSUME StreamInv, NEW c \in Clients, Send(c), ~gone[c]
  PROVE  Elements(sent'[c]) \union Elements(batch'[c]) = Elements(sent[c]) \union Elements(batch[c])
<1>1. batch[c] \in Seq(Messages) /\ batch[c] # <<>> /\ sent[c] \in Seq(Messages)
  BY DEF Send, StreamInv, Shape
<1>2. sent'[c] = Append(sent[c], Head(batch[c])) /\ batch'[c] = Tail(batch[c])
  BY DEF Send, StreamInv, Shape
<1>3. Head(batch[c]) \in Messages
  BY <1>1, HeadTailProperties
<1> QED BY <1>1, <1>2, <1>3, ElementsAppend, ElementsTail

LEMMA SessionSteps ==
  ASSUME StreamInv, StreamInv', NEW c \in Clients, [Next]_vars, Subscribed(c)', ~gone'[c]
  PROVE  Quiet(c) \/ Joined(c) \/ \E m \in Messages : Fed(c, m)
<1>0. /\ Elements(Stream(c)) = Elements(sent[c]) \union Elements(batch[c]) \union Held(sub[c])
      /\ Elements(Stream(c))' = Elements(sent'[c]) \union Elements(batch'[c]) \union Held(sub'[c])
  <2>1. StreamSplits /\ StreamSplits'
    BY StreamElements, PTL
  <2> QED BY <2>1 DEF StreamSplits
<1>1. CASE UNCHANGED <<ring, phase[c], sub[c], batch[c], gone[c], sent[c], offered[c]>>
  BY <1>0, <1>1 DEF Quiet, Subscribed
<1>2. ASSUME NEW kind \in Kinds, NEW place \in Places, Consume(kind, place)
      PROVE  \E m \in Messages : Fed(c, m)
  BY <1>2, ConsumeFeeds DEF Consume, Subscribed
<1>3. ASSUME NEW d \in Clients, SessionStep(d) \/ Browser(d), d # c
      PROVE  UNCHANGED <<ring, phase[c], sub[c], batch[c], gone[c], sent[c], offered[c]>>
  BY <1>3 DEF SessionStep, Browser, Send, AwaitReady, Wake, Drain, Teardown, EndSession,
              Connect, Leave, Subscribe, StreamInv, Shape
<1>4. CASE Send(c)
  BY <1>0, <1>4, SendKeepsElements DEF Send, Quiet, Subscribed
<1>5. CASE AwaitReady(c) \/ Wake(c)
  BY <1>0, <1>5 DEF AwaitReady, Wake, Quiet, Subscribed
<1>6. CASE Drain(c)
  <2> DEFINE t == Drained(sub[c])
  <2>1. LanesOK(sub[c]) /\ sub[c] \in Subscribers /\ batch[c] = <<>>
    BY <1>6 DEF Drain, StreamInv, SessionOK, LanesOK
  <2>2. /\ t.fifo = <<>> /\ t.coalesced = <<>> /\ t.coalescedCount = sub[c].coalescedCount
        /\ t.droppedCount = sub[c].droppedCount /\ t.filteredCount = sub[c].filteredCount
    BY <2>1 DEF Drained, Subscribers
  <2>3. /\ batch'[c] = Pending(sub[c]) /\ sub'[c] = t /\ sent'[c] = sent[c]
        /\ offered'[c] = offered[c] /\ ring' = ring /\ gone' = gone
    BY <1>6 DEF Drain, StreamInv, Shape
  <2> HIDE DEF t
  <2>4. Held(t) = {} /\ Elements(Pending(sub[c])) = Held(sub[c]) /\ Elements(batch[c]) = {}
    BY <2>1, <2>2, ElementsEmpty, PendingProperties DEF Held
  <2>5. Subscribed(c)
    BY <1>6 DEF Drain, Subscribed
  <2> QED BY <1>0, <2>2, <2>3, <2>4, <2>5 DEF Quiet
<1>7. CASE Teardown(c)
  BY <1>7 DEF Teardown, EndSession, Subscribed, StreamInv, Shape
<1>8. CASE Connect(c)
  <2>1. /\ sub'[c] = NewSubscriber /\ batch'[c] = Recent(ring, SnapshotLimit) /\ sent'[c] = <<>>
        /\ offered'[c] = {} /\ ring' = ring
    BY <1>8 DEF Connect, StreamInv, Shape
  <2>2. Elements(Stream(c))' = Elements(Recent(ring, SnapshotLimit))
    BY <1>0, <2>1, NewSubscriberOK, ElementsEmpty
  <2> QED BY <2>1, <2>2 DEF Joined, NewSubscriber
<1>9. CASE Leave(c)
  BY <1>9 DEF Leave, StreamInv, Shape
<1>10. ASSUME NEW view \in Views, Subscribe(c, view)
       PROVE  Quiet(c)
  <2> DEFINE t == [sub[c] EXCEPT !.view = view]
  <2>1. sub[c] \in Subscribers
    BY DEF StreamInv, Shape
  <2>2. /\ t.fifo = sub[c].fifo /\ t.coalesced = sub[c].coalesced /\ t.coalescedCount = sub[c].coalescedCount
        /\ t.droppedCount = sub[c].droppedCount /\ t.filteredCount = sub[c].filteredCount
    BY <2>1 DEF Subscribers
  <2>3. /\ sub'[c] = t /\ UNCHANGED <<ring, phase, batch, gone, sent, offered>>
    BY <1>10 DEF Subscribe, StreamInv, Shape
  <2> HIDE DEF t
  <2>4. Held(t) = Held(sub[c])
    BY <2>2 DEF Held
  <2>5. Subscribed(c)
    BY <1>10 DEF Subscribe, TasksRunning, Subscribed
  <2> QED BY <1>0, <2>2, <2>3, <2>4, <2>5 DEF Quiet
<1>11. ASSUME NEW d \in Clients, SessionStep(d) \/ Browser(d)
       PROVE  Quiet(c) \/ Joined(c) \/ \E m \in Messages : Fed(c, m)
  <2>1. CASE d # c
    BY <1>1, <1>3, <1>11, <2>1
  <2>2. CASE d = c
    BY <1>4, <1>5, <1>6, <1>7, <1>8, <1>9, <1>10, <1>11, <2>2 DEF SessionStep, Browser
  <2> QED BY <2>1, <2>2
<1>12. CASE UNCHANGED vars
  BY <1>1, <1>12 DEF vars, session
<1> QED BY <1>2, <1>11, <1>12 DEF Next, Consumer
-----------------------------------------------------------------------------
(* Nothing a view admitted goes uncounted *)

Accounted(c) ==
  /\ IsFiniteSet(offered[c])
  /\ Cardinality(offered[c]) =
       sub[c].coalescedCount + sub[c].droppedCount
         + Cardinality(Elements(Stream(c)) \intersect offered[c])

AccountInv == \A c \in Clients : Subscribed(c) /\ ~gone[c] => Accounted(c)

\* Exchanging one known message for a new one leaves the number held.
LEMMA CountExchanged ==
  ASSUME NEW X, IsFiniteSet(X), NEW m, m \notin X, NEW h \in X \union {m}
  PROVE  Cardinality((X \union {m}) \ {h}) = Cardinality(X)
<1>1. /\ IsFiniteSet(X \union {m})
      /\ Cardinality(X \union {m}) = Cardinality(X) + 1
  BY FS_AddElement
<1>2. Cardinality((X \union {m}) \ {h}) = Cardinality(X \union {m}) - 1
  BY <1>1, FS_RemoveElement
<1>3. Cardinality(X) \in Nat
  BY FS_CardinalityType
<1> QED BY <1>1, <1>2, <1>3

LEMMA FedUnknown ==
  ASSUME StreamInv, NEW c \in Clients, NEW m \in Messages, m.id = consumed + 1
  PROVE  \A x \in Elements(Stream(c)) \union offered[c] : x.id < m.id /\ x # m
<1>1. consumed \in Nat /\ m.id \in Nat
  BY MessageIds DEF StreamInv, RingOK
<1> QED BY <1>1, KnownMessages

LEMMA FedAccounted ==
  ASSUME StreamInv, StreamInv', NEW c \in Clients, NEW m \in Messages, Fed(c, m), Accounted(c)
  PROVE  Accounted(c)'
<1> DEFINE stream == Elements(Stream(c))
           X == stream \intersect offered[c]
<1>1. /\ \A x \in stream \union offered[c] : x # m
      /\ sub[c].coalescedCount \in Nat /\ sub[c].droppedCount \in Nat
  BY FedUnknown DEF Fed, StreamInv, Shape, Subscribers
<1>2. IsFiniteSet(X) /\ Cardinality(X) \in Nat /\ Cardinality(offered[c]) \in Nat
  <2>1. IsFiniteSet(offered[c]) /\ X \in SUBSET offered[c]
    BY DEF Accounted
  <2>2. IsFiniteSet(X)
    BY <2>1, FS_Subset
  <2> QED BY <2>1, <2>2, FS_CardinalityType
<1>3. /\ IsFiniteSet(offered[c] \union {m})
      /\ Cardinality(offered[c] \union {m}) = Cardinality(offered[c]) + 1
  BY <1>1, FS_AddElement DEF Accounted
<1>4. Cardinality(offered[c]) = sub[c].coalescedCount + sub[c].droppedCount + Cardinality(X)
  BY DEF Accounted
<1>5. ASSUME NEW h, Exchanged(c, m, h)
      PROVE  /\ offered'[c] = offered[c] \union {m}
             /\ Cardinality(stream' \intersect offered'[c]) = Cardinality(X)
  <2>1. /\ offered'[c] = offered[c] \union {m}
        /\ stream' \intersect offered'[c] = (X \union {m}) \ {h}
        /\ h \in X \union {m} /\ m \notin X
    BY <1>1, <1>5 DEF Exchanged
  <2> HIDE DEF X
  <2> QED BY <1>2, <2>1, CountExchanged
<1> SUFFICES /\ IsFiniteSet(offered'[c])
             /\ Cardinality(offered'[c]) =
                  sub'[c].coalescedCount + sub'[c].droppedCount
                    + Cardinality(stream' \intersect offered'[c])
  BY DEF Accounted
<1>6. CASE /\ stream' = stream /\ offered'[c] = offered[c]
           /\ sub'[c] = [sub[c] EXCEPT !.filteredCount = @ + 1]
  <2>1. sub'[c].coalescedCount = sub[c].coalescedCount /\ sub'[c].droppedCount = sub[c].droppedCount
    BY <1>6 DEF StreamInv, Shape, Subscribers
  <2> QED BY <1>4, <1>6, <2>1 DEF Accounted
<1>7. CASE /\ stream' = stream \union {m} /\ offered'[c] = offered[c] \union {m}
           /\ sub'[c].coalescedCount = sub[c].coalescedCount
           /\ sub'[c].droppedCount = sub[c].droppedCount
  <2>1. stream' \intersect offered'[c] = X \union {m} /\ m \notin X
    BY <1>1, <1>7
  <2> HIDE DEF X
  <2>2. Cardinality(X \union {m}) = Cardinality(X) + 1
    BY <1>2, <2>1, FS_AddElement
  <2>3. Cardinality(offered'[c]) = Cardinality(offered[c]) + 1
    BY <1>3, <1>7
  <2>4. Cardinality(stream' \intersect offered'[c]) = Cardinality(X) + 1
    BY <2>1, <2>2
  <2> HIDE DEF stream
  <2>5. Cardinality(offered'[c]) =
          sub'[c].coalescedCount + sub'[c].droppedCount
            + Cardinality(stream' \intersect offered'[c])
    BY <1>1, <1>2, <1>4, <1>7, <2>3, <2>4
  <2> QED BY <1>3, <1>7, <2>5
<1>8. ASSUME NEW h, Exchanged(c, m, h), sub'[c].coalescedCount = sub[c].coalescedCount + 1,
             sub'[c].droppedCount = sub[c].droppedCount
      PROVE  /\ IsFiniteSet(offered'[c])
             /\ Cardinality(offered'[c]) =
                  sub'[c].coalescedCount + sub'[c].droppedCount
                    + Cardinality(stream' \intersect offered'[c])
  <2>1. /\ offered'[c] = offered[c] \union {m}
        /\ Cardinality(stream' \intersect offered'[c]) = Cardinality(X)
    BY <1>5, <1>8
  <2>2. IsFiniteSet(offered'[c]) /\ Cardinality(offered'[c]) = Cardinality(offered[c]) + 1
    BY <1>3, <2>1
  <2> HIDE DEF X, stream
  <2> QED BY <1>1, <1>2, <1>4, <1>8, <2>1, <2>2
<1>9. ASSUME NEW h, Exchanged(c, m, h), sub'[c].coalescedCount = sub[c].coalescedCount,
             sub'[c].droppedCount = sub[c].droppedCount + 1
      PROVE  /\ IsFiniteSet(offered'[c])
             /\ Cardinality(offered'[c]) =
                  sub'[c].coalescedCount + sub'[c].droppedCount
                    + Cardinality(stream' \intersect offered'[c])
  <2>1. /\ offered'[c] = offered[c] \union {m}
        /\ Cardinality(stream' \intersect offered'[c]) = Cardinality(X)
    BY <1>5, <1>9
  <2>2. IsFiniteSet(offered'[c]) /\ Cardinality(offered'[c]) = Cardinality(offered[c]) + 1
    BY <1>3, <2>1
  <2> HIDE DEF X, stream
  <2> QED BY <1>1, <1>2, <1>4, <1>9, <2>1, <2>2
<1> QED
  <2> HIDE DEF X
  <2> QED BY <1>6, <1>7, <1>8, <1>9 DEF Fed

LEMMA NextAccounted ==
  ASSUME StreamInv, StreamInv', AccountInv, [Next]_vars
  PROVE  AccountInv'
<1> SUFFICES ASSUME NEW c \in Clients, Subscribed(c)', ~gone'[c] PROVE Accounted(c)'
  BY DEF AccountInv
<1>1. CASE Quiet(c)
  BY <1>1 DEF Quiet, Accounted, AccountInv
<1>2. CASE Joined(c)
  <2>1. offered'[c] = {} /\ Elements(Stream(c))' \intersect {} = {}
    BY <1>2 DEF Joined
  <2> QED BY <1>2, <2>1, FS_EmptySet DEF Joined, Accounted
<1>3. ASSUME NEW m \in Messages, Fed(c, m) PROVE Accounted(c)'
  BY <1>3, FedAccounted DEF Fed, AccountInv
<1> QED BY <1>1, <1>2, <1>3, SessionSteps

LEMMA AccountInvariant == Spec => []AccountInv
<1>1. Init => AccountInv
  BY DEF Init, AccountInv, Subscribed
<1>2. StreamInv /\ StreamInv' /\ AccountInv /\ [Next]_vars => AccountInv'
  BY NextAccounted
<1> QED BY <1>1, <1>2, StreamInvariant, PTL DEF Spec

\* The counters of a subscriber (broadcaster.py) and what is delivered, being
\* sent or pending together explain every message its view admitted.
THEOREM AllAccounted == Spec => []EverythingAccounted
<1>1. AccountInv => EverythingAccounted
  BY DEF AccountInv, Accounted, EverythingAccounted
<1> QED BY <1>1, AccountInvariant, PTL
-----------------------------------------------------------------------------
(* Only old state and old alerts are shed *)

NewerIn(O, x) == {n \in O : n.id > x.id /\ (Coalesces(n) <=> Coalesces(x))}
RivalsIn(O, x) ==
  IF Coalesces(x) THEN {<<n.type, n.key>> : n \in NewerIn(O, x)} \ {<<x.type, x.key>>}
                  ELSE NewerIn(O, x)

Cap(x) == IF Coalesces(x) THEN CoalescedMax ELSE MaxPending

\* n stands for x: it is x, or newer state of x's key.
Covers(n, x) == n = x \/ (Coalesces(x) /\ SameLane(n, x) /\ n.id > x.id)

LEMMA RivalsFinite ==
  ASSUME NEW O, IsFiniteSet(O), NEW x
  PROVE  IsFiniteSet(NewerIn(O, x)) /\ IsFiniteSet(RivalsIn(O, x))
<1> DEFINE N == NewerIn(O, x)
           K == {<<n.type, n.key>> : n \in N}
           f == [n \in N |-> <<n.type, n.key>>]
<1>1. IsFiniteSet(N)
  <2>1. N \in SUBSET O
    BY DEF NewerIn
  <2> QED BY <2>1, FS_Subset
<1>2. IsFiniteSet(K)
  <2>1. f \in Surjection(N, K)
    <3> HIDE DEF N
    <3> QED BY DEF Surjection
  <2> HIDE DEF N, K, f
  <2> QED BY <1>1, <2>1, FS_Surjection
<1>3. IsFiniteSet(K \ {<<x.type, x.key>>})
  <2> HIDE DEF K
  <2> QED BY <1>2, FS_Subset
<1> QED BY <1>1, <1>3 DEF RivalsIn

LEMMA RivalsGrow ==
  ASSUME NEW O, NEW P, IsFiniteSet(P), O \subseteq P, NEW x
  PROVE  Cardinality(RivalsIn(O, x)) <= Cardinality(RivalsIn(P, x))
<1>1. RivalsIn(O, x) \in SUBSET RivalsIn(P, x)
  BY DEF RivalsIn, NewerIn
<1> QED BY <1>1, RivalsFinite, FS_Subset

\* What a full lane sheds, and what that covers, has as many rivals as the lane
\* may hold messages.
LEMMA ShedHasRivals ==
  ASSUME NEW O \in SUBSET Messages, IsFiniteSet(O), NEW t, LanesOK(t), Held(t) \subseteq O,
         NEW h \in Messages, NEW x \in Messages, Covers(h, x),
         Coalesces(h) => /\ Len(t.coalesced) >= CoalescedMax
                         /\ \A y \in Elements(t.coalesced) : h.id < y.id /\ ~SameLane(h, y),
         ~Coalesces(h) => Len(t.fifo) = MaxPending /\ \A y \in Elements(t.fifo) : h.id < y.id
  PROVE  Cap(x) <= Cardinality(RivalsIn(O, x))
<1>1. /\ t.fifo \in Seq(Messages) /\ t.coalesced \in Seq(Messages)
      /\ Elements(t.fifo) \subseteq O /\ Elements(t.coalesced) \subseteq O
      /\ Len(t.fifo) \in Nat /\ Len(t.coalesced) \in Nat
  BY LenProperties DEF LanesOK, Subscribers, Held
<1>2. h.id \in Nat /\ x.id \in Nat /\ h.id >= x.id /\ \A y \in O : y.id \in Nat
  BY MessageIds DEF Covers
<1>3. (Coalesces(h) <=> Coalesces(x)) /\ (Coalesces(x) => SameLane(h, x))
  BY DEF Covers, SameLane
<1>4. Cardinality(RivalsIn(O, x)) \in Nat /\ IsFiniteSet(RivalsIn(O, x))
  BY RivalsFinite, FS_CardinalityType
<1>5. CASE Coalesces(x)
  <2> DEFINE n == Len(t.coalesced)
             f == [i \in 1..n |-> <<t.coalesced[i].type, t.coalesced[i].key>>]
  <2>1. ASSUME NEW i \in 1..n PROVE f[i] \in RivalsIn(O, x)
    <3>1. t.coalesced[i] \in Elements(t.coalesced)
      BY DEF Elements
    <3>2. /\ t.coalesced[i].id > h.id /\ ~SameLane(h, t.coalesced[i])
          /\ Coalesces(t.coalesced[i]) /\ t.coalesced[i] \in O
      BY <1>1, <1>2, <1>3, <1>5, <3>1 DEF LanesOK
    <3>3. t.coalesced[i].id > x.id
      BY <1>2, <3>2
    <3>4. t.coalesced[i] \in NewerIn(O, x)
      BY <1>5, <3>2, <3>3 DEF NewerIn
    <3>5. <<t.coalesced[i].type, t.coalesced[i].key>> # <<x.type, x.key>>
      BY <1>3, <1>5, <3>2 DEF SameLane
    <3> QED BY <1>5, <3>4, <3>5 DEF RivalsIn
  <2>2. ASSUME NEW i \in 1..n, NEW j \in 1..n, f[i] = f[j] PROVE i = j
    <3>1. t.coalesced[i] \in Elements(t.coalesced) /\ t.coalesced[j] \in Elements(t.coalesced)
      BY DEF Elements
    <3>2. Coalesces(t.coalesced[i]) /\ Coalesces(t.coalesced[j])
      BY <3>1 DEF LanesOK
    <3>3. SameLane(t.coalesced[i], t.coalesced[j])
      BY <2>2, <3>2 DEF SameLane
    <3> QED BY <3>3 DEF LanesOK, LanesBounded
  <2> HIDE DEF f
  <2>3. f \in Injection(1..n, RivalsIn(O, x))
    <3>1. f \in [1..n -> RivalsIn(O, x)]
      BY <2>1 DEF f
    <3> QED BY <2>2, <3>1 DEF Injection, IsInjective
  <2>4. Cardinality(1..n) = n
    BY <1>1, FS_Interval
  <2>5. n <= Cardinality(RivalsIn(O, x))
    BY <1>4, <2>3, <2>4, FS_Injection
  <2>6. CoalescedMax <= n
    BY <1>3, <1>5, SubscriberAssumption, <1>1
  <2> HIDE DEF n
  <2> QED BY <1>1, <1>4, <1>5, <2>5, <2>6, SubscriberAssumption DEF Cap, n
<1>6. CASE ~Coalesces(x)
  <2> DEFINE n == Len(t.fifo)
             f == [i \in 1..n |-> t.fifo[i]]
  <2>1. ASSUME NEW i \in 1..n PROVE f[i] \in RivalsIn(O, x)
    <3>1. t.fifo[i] \in Elements(t.fifo)
      BY DEF Elements
    <3>2. t.fifo[i].id > h.id /\ ~Coalesces(t.fifo[i]) /\ t.fifo[i] \in O
      BY <1>1, <1>2, <1>3, <1>6, <3>1 DEF LanesOK
    <3>3. t.fifo[i].id > x.id
      BY <1>2, <3>2
    <3> QED BY <1>6, <3>2, <3>3 DEF NewerIn, RivalsIn
  <2>2. ASSUME NEW i \in 1..n, NEW j \in 1..n, f[i] = f[j] PROVE i = j
    <3>1. t.fifo[i].id = t.fifo[j].id /\ t.fifo[i].id \in Nat
      BY <1>1, <2>2, ElementOfSeq, MessageIds
    <3> QED BY <1>1, <3>1 DEF LanesOK, Ascending
  <2> HIDE DEF f
  <2>3. f \in Injection(1..n, RivalsIn(O, x))
    <3>1. f \in [1..n -> RivalsIn(O, x)]
      BY <2>1 DEF f
    <3> QED BY <2>2, <3>1 DEF Injection, IsInjective
  <2>4. Cardinality(1..n) = n
    BY <1>1, FS_Interval
  <2>5. n <= Cardinality(RivalsIn(O, x))
    BY <1>4, <2>3, <2>4, FS_Injection
  <2> QED BY <1>3, <1>6, <2>5 DEF Cap
<1> QED BY <1>5, <1>6

Survives(c) ==
  /\ IsFiniteSet(offered[c])
  /\ \A x \in offered[c] :
       Cardinality(RivalsIn(offered[c], x)) < Cap(x) => \E n \in Elements(Stream(c)) : Covers(n, x)

SurviveInv == \A c \in Clients : Subscribed(c) /\ ~gone[c] => Survives(c)

LEMMA FedSurvives ==
  ASSUME StreamInv, StreamInv', NEW c \in Clients, NEW m \in Messages, Fed(c, m), Survives(c)
  PROVE  Survives(c)'
<1> DEFINE stream == Elements(Stream(c))
           O == offered[c]
           P == offered'[c]
<1>1. /\ \A x \in stream \union O : x \in Messages /\ x.id \in Nat /\ x.id < m.id
      /\ m.id \in Nat /\ P \in SUBSET Messages
  BY KnownMessages, FedUnknown, MessageIds DEF Fed, StreamInv, Shape
<1>2. O \subseteq P /\ P \subseteq O \union {m} /\ IsFiniteSet(P)
  <2>1. IsFiniteSet(O) /\ IsFiniteSet(O \union {m})
    BY FS_AddElement DEF Survives
  <2> QED BY <2>1 DEF Fed, Exchanged
<1> SUFFICES ASSUME NEW x \in P, Cardinality(RivalsIn(P, x)) < Cap(x)
             PROVE  \E n \in stream' : Covers(n, x)
  BY <1>2 DEF Survives
<1>3. CASE x = m /\ m \in stream'
  BY <1>3 DEF Covers
<1>4. ASSUME x \in O PROVE \E n \in stream : Covers(n, x)
  <2>1. IsFiniteSet(O)
    BY DEF Survives
  <2>2. Cardinality(RivalsIn(O, x)) <= Cardinality(RivalsIn(P, x))
    BY <1>2, RivalsGrow
  <2>3. Cardinality(RivalsIn(O, x)) \in Nat /\ Cardinality(RivalsIn(P, x)) \in Nat /\ Cap(x) \in Nat
    BY <1>2, <2>1, RivalsFinite, FS_CardinalityType, SubscriberAssumption DEF Cap
  <2>4. Cardinality(RivalsIn(O, x)) < Cap(x)
    <3> HIDE DEF O, P
    <3> QED BY <2>2, <2>3
  <2> QED BY <1>4, <2>4 DEF Survives
<1>5. CASE P = O /\ stream' = stream
  BY <1>4, <1>5
<1>6. CASE stream' = stream \union {m}
  BY <1>2, <1>3, <1>4, <1>6
<1>7. ASSUME NEW h, Exchanged(c, m, h), Coalesces(m), SameLane(h, m), h # m
      PROVE  \E n \in stream' : Covers(n, x)
  <2>1. stream' = (stream \union {m}) \ {h} /\ m \in stream'
    BY <1>7 DEF Exchanged
  <2>2. CASE x \in O
    <3>1. PICK n \in stream : Covers(n, x)
      BY <1>4, <2>2
    <3>2. CASE n # h
      BY <2>1, <3>1, <3>2
    <3>3. CASE n = h
      <4>1. Coalesces(x) /\ SameLane(m, x)
        BY <1>7, <3>1, <3>3 DEF Covers, SameLane
      <4>2. m.id > x.id
        BY <1>1, <2>2
      <4> QED BY <2>1, <4>1, <4>2 DEF Covers
    <3> QED BY <3>2, <3>3
  <2> QED BY <1>2, <1>3, <2>1, <2>2
<1>8. ASSUME NEW h, Exchanged(c, m, h), Coalesces(h) <=> Coalesces(m),
             Coalesces(m) => /\ Len(sub'[c].coalesced) >= CoalescedMax
                             /\ \A y \in Elements(sub'[c].coalesced) : h.id < y.id /\ ~SameLane(h, y),
             ~Coalesces(m) => /\ Len(sub'[c].fifo) = MaxPending
                              /\ \A y \in Elements(sub'[c].fifo) : h.id < y.id
      PROVE  \E n \in stream' : Covers(n, x)
  <2>1. stream' = (stream \union {m}) \ {h} /\ h \in Messages
    BY <1>1, <1>8 DEF Exchanged
  <2>2. LanesOK(sub'[c]) /\ Held(sub'[c]) \subseteq P /\ x \in Messages
    BY <1>1 DEF Fed
  <2>3. ~Covers(h, x)
    <3>1. SUFFICES ASSUME Covers(h, x) PROVE Cap(x) <= Cardinality(RivalsIn(P, x))
      BY <1>2, RivalsFinite, FS_CardinalityType, SubscriberAssumption DEF Cap
    <3> QED BY <1>1, <1>2, <1>8, <2>1, <2>2, <3>1, ShedHasRivals
  <2>4. CASE x \in O
    BY <1>4, <2>1, <2>3, <2>4
  <2>5. CASE x = m
    BY <2>1, <2>3, <2>5 DEF Covers
  <2> QED BY <1>2, <2>4, <2>5
<1> QED
  <2> HIDE DEF O, P
  <2> QED BY <1>5, <1>6, <1>7, <1>8 DEF Fed, O, P

LEMMA NextSurvives ==
  ASSUME StreamInv, StreamInv', SurviveInv, [Next]_vars
  PROVE  SurviveInv'
<1> SUFFICES ASSUME NEW c \in Clients, Subscribed(c)', ~gone'[c] PROVE Survives(c)'
  BY DEF SurviveInv
<1>1. CASE Quiet(c)
  BY <1>1 DEF Quiet, Survives, SurviveInv
<1>2. CASE Joined(c)
  BY <1>2, FS_EmptySet DEF Joined, Survives
<1>3. ASSUME NEW m \in Messages, Fed(c, m) PROVE Survives(c)'
  BY <1>3, FedSurvives DEF Fed, SurviveInv
<1> QED BY <1>1, <1>2, <1>3, SessionSteps

LEMMA SurviveInvariant == Spec => []SurviveInv
<1>1. Init => SurviveInv
  BY DEF Init, SurviveInv, Subscribed
<1>2. StreamInv /\ StreamInv' /\ SurviveInv /\ [Next]_vars => SurviveInv'
  BY NextSurvives
<1> QED BY <1>1, <1>2, StreamInvariant, PTL DEF Spec

\* The lanes' eviction order (broadcaster.py: offer): a message with fewer
\* rivals than its lane's cap is delivered or held, or newer state of its key is.
THEOREM OnlyOldIsShed == Spec => []RecentSurvives
<1>1. SurviveInv => RecentSurvives
  <2> SUFFICES ASSUME SurviveInv, NEW c \in Clients, Subscribed(c), ~gone[c], NEW m \in offered[c],
                      Cardinality(Rivals(c, m)) < Cap(m)
               PROVE  \E n \in Elements(Stream(c)) : Covers(n, m)
    BY DEF RecentSurvives, Cap, Covers
  <2>1. Rivals(c, m) = RivalsIn(offered[c], m)
    BY DEF Rivals, RivalsIn, Newer, NewerIn
  <2> QED BY <2>1 DEF SurviveInv, Survives
<1> QED BY <1>1, SurviveInvariant, PTL
-----------------------------------------------------------------------------
(* Nothing falls between the snapshot and the live stream *)

LEMMA RecentElements ==
  ASSUME NEW r \in Seq(Entries), NEW n \in Nat \ {0}
  PROVE  Elements(Recent(r, n)) = {r[q].event : q \in {k \in 1..Len(r) : k > Len(r) - n}}
<1> DEFINE window == LastOf(r, n)
           d == Len(r) - Len(window)
           events == [i \in 1..Len(window) |-> window[i].event]
<1>1. /\ Len(r) \in Nat /\ Len(window) \in Nat
      /\ Len(window) = IF Len(r) > n THEN n ELSE Len(r)
      /\ \A i \in 1..Len(window) : window[i] = r[d + i]
  BY LastOfProperties, LenProperties
<1>2. Elements(Recent(r, n)) = {r[d + i].event : i \in 1..Len(window)}
  <2>1. Recent(r, n) = events
    BY DEF Recent
  <2> HIDE DEF window, d
  <2>2. Len(events) = Len(window) /\ \A i \in 1..Len(window) : events[i] = r[d + i].event
    BY <1>1
  <2> HIDE DEF events
  <2> QED BY <2>1, <2>2 DEF Elements
<1> HIDE DEF window
<1>3. /\ d \in Nat /\ Len(r) = d + Len(window) /\ Len(window) <= n /\ n \in Nat
      /\ (d = 0 \/ Len(window) = n) /\ Len(window) \in Nat
  BY <1>1
<1> HIDE DEF d
<1>4. ASSUME NEW i \in 1..Len(window) PROVE d + i \in 1..Len(r) /\ d + i > Len(r) - n
  BY <1>3
<1>5. ASSUME NEW q \in 1..Len(r), q > Len(r) - n PROVE q - d \in 1..Len(window) /\ d + (q - d) = q
  BY <1>3, <1>5
<1> QED BY <1>2, <1>4, <1>5

\* A clean event enters the replay as its newest, and nothing else does.
LEMMA RecentAppended ==
  ASSUME NEW r \in Seq(Entries), NEW m \in Messages, NEW n \in Nat
  PROVE  Elements(Recent(Appended(r, m.id, m), n)) \subseteq Elements(Recent(r, n)) \union {m}
<1> DEFINE e == [seq |-> m.id, event |-> m]
           all == Append(r, e)
           last == LastOf(all, RingSize)
<1>1. CASE n = 0
  BY <1>1, ElementsEmpty DEF Recent
<1>2. CASE RingSize = 0
  BY <1>2 DEF Appended
<1>3. CASE n # 0 /\ RingSize # 0
  <2>1. Appended(r, m.id, m) = last /\ e \in Entries /\ e.event = m /\ n \in Nat \ {0}
    BY <1>3, MessageIds DEF Appended, Entries
  <2> HIDE DEF e
  <2>2. /\ all \in Seq(Entries) /\ Len(r) \in Nat /\ Len(all) = Len(r) + 1
        /\ \A q \in 1..Len(r) : all[q] = r[q]
        /\ all[Len(r) + 1] = e
    BY <2>1, LenProperties, AppendProperties
  <2> HIDE DEF all
  <2>3. /\ last \in Seq(Entries) /\ Len(last) \in Nat /\ Len(last) <= Len(all)
        /\ \A i \in 1..Len(last) : last[i] = all[Len(all) - Len(last) + i]
    <3>1. /\ last \in Seq(Entries)
          /\ Len(last) = IF Len(all) > RingSize THEN RingSize ELSE Len(all)
          /\ \A i \in 1..Len(last) : last[i] = all[Len(all) - Len(last) + i]
      BY <2>2, LastOfProperties, RingAssumption
    <3>2. Len(all) \in Nat
      BY <2>2
    <3> HIDE DEF last
    <3>3. Len(last) \in Nat /\ Len(last) <= Len(all)
      BY <3>1, <3>2, RingAssumption
    <3> QED BY <3>1, <3>3
  <2> HIDE DEF last
  <2>4. ASSUME NEW x \in Elements(Recent(last, n)) PROVE x \in Elements(Recent(r, n)) \union {m}
    <3>1. PICK q \in 1..Len(last) : q > Len(last) - n /\ x = last[q].event
      BY <2>1, <2>3, <2>4, RecentElements
    <3> DEFINE k == Len(all) - Len(last) + q
    <3>2. k \in 1..Len(r) + 1 /\ k > Len(r) - n /\ x = all[k].event
      BY <2>2, <2>3, <3>1
    <3> HIDE DEF k
    <3>3. CASE k = Len(r) + 1
      BY <2>1, <2>2, <3>2, <3>3
    <3>4. CASE k \in 1..Len(r)
      BY <2>1, <2>2, <3>2, <3>4, RecentElements
    <3> QED BY <2>2, <3>2, <3>3, <3>4
  <2> QED BY <2>1, <2>4
<1> QED BY <1>1, <1>2, <1>3

Joins(c) ==
  sub[c].droppedCount = 0 /\ sub[c].filteredCount = 0 =>
    \A e \in Elements(Recent(ring, SnapshotLimit)) :
      \E n \in Elements(Stream(c)) : SameLane(n, e) /\ n.id >= e.id

JoinInv == \A c \in Clients : Subscribed(c) /\ ~gone[c] => Joins(c)

LEMMA SnapshotKnown ==
  ASSUME RingOK
  PROVE  \A e \in Elements(Recent(ring, SnapshotLimit)) :
           e \in Messages /\ e.id \in Nat /\ e.id <= consumed
  BY RecentProperties, ElementsSubset, MessageIds, LiveStreamAssumption

LEMMA FedJoins ==
  ASSUME StreamInv, StreamInv', NEW c \in Clients, NEW m \in Messages, Fed(c, m), Joins(c)
  PROVE  Joins(c)'
<1> DEFINE stream == Elements(Stream(c))
           old == Elements(Recent(ring, SnapshotLimit))
           new == Elements(Recent(ring', SnapshotLimit))
           s == sub[c]
           t == sub'[c]
<1> SUFFICES ASSUME t.droppedCount = 0, t.filteredCount = 0, NEW e \in new
             PROVE  \E n \in stream' : SameLane(n, e) /\ n.id >= e.id
  BY DEF Joins
<1>1. /\ new \subseteq old \union {m}
      /\ \A x \in old \union {m} : SameLane(x, x) /\ x.id \in Nat /\ m.id \in Nat /\ m.id >= x.id
  <2>1. ring \in Seq(Entries) /\ SnapshotLimit \in Nat /\ consumed \in Nat
    BY LiveStreamAssumption DEF StreamInv, RingOK
  <2>2. new \subseteq old \union {m}
    BY <2>1, RecentAppended DEF Fed
  <2>3. \A x \in old \union {m} : x.id \in Nat /\ m.id \in Nat /\ m.id >= x.id
    BY <2>1, SnapshotKnown, MessageIds DEF Fed, StreamInv
  <2>4. \A x \in old \union {m} : SameLane(x, x)
    BY DEF SameLane
  <2> QED BY <2>2, <2>3, <2>4
<1>2. s \in Subscribers /\ t \in Subscribers /\ s.droppedCount \in Nat /\ s.filteredCount \in Nat
  BY DEF StreamInv, Shape, Subscribers
<1>3. ASSUME s.droppedCount = 0, s.filteredCount = 0, e \in old
      PROVE  \E n \in stream : SameLane(n, e) /\ n.id >= e.id
  BY <1>3 DEF Joins
<1>4. CASE t = [s EXCEPT !.filteredCount = @ + 1]
  <2>1. t.filteredCount = s.filteredCount + 1
    BY <1>2, <1>4 DEF Subscribers
  <2> QED BY <1>2, <2>1
<1>5. CASE stream' = stream \union {m} /\ t.droppedCount = s.droppedCount /\ t.filteredCount = s.filteredCount
  BY <1>1, <1>3, <1>5
<1>6. ASSUME NEW h, Exchanged(c, m, h), Coalesces(m), SameLane(h, m), h # m,
             t.droppedCount = s.droppedCount, t.filteredCount = s.filteredCount
      PROVE  \E n \in stream' : SameLane(n, e) /\ n.id >= e.id
  <2>1. stream' = (stream \union {m}) \ {h} /\ m \in stream'
    BY <1>6 DEF Exchanged
  <2>2. CASE e = m
    BY <1>1, <2>1, <2>2
  <2>3. CASE e \in old
    <3>1. PICK n \in stream : SameLane(n, e) /\ n.id >= e.id
      BY <1>3, <1>6, <2>3
    <3>2. CASE n # h
      BY <2>1, <3>1, <3>2
    <3>3. CASE n = h
      <4>1. SameLane(m, e)
        BY <1>6, <3>1, <3>3 DEF SameLane
      <4> QED BY <1>1, <2>1, <2>3, <4>1
    <3> QED BY <3>2, <3>3
  <2> QED BY <1>1, <2>2, <2>3
<1>7. CASE t.droppedCount = s.droppedCount + 1
  BY <1>2, <1>7
<1> QED
  <2> HIDE DEF s, t
  <2> QED BY <1>4, <1>5, <1>6, <1>7 DEF Fed, s, t

LEMMA NextJoins ==
  ASSUME StreamInv, StreamInv', JoinInv, [Next]_vars
  PROVE  JoinInv'
<1> SUFFICES ASSUME NEW c \in Clients, Subscribed(c)', ~gone'[c] PROVE Joins(c)'
  BY DEF JoinInv
<1>1. CASE Quiet(c)
  BY <1>1 DEF Quiet, Joins, JoinInv
<1>2. CASE Joined(c)
  <2>1. /\ Elements(Stream(c))' = Elements(Recent(ring, SnapshotLimit)) /\ ring' = ring
    BY <1>2 DEF Joined
  <2>2. \A e \in Elements(Recent(ring, SnapshotLimit)) : SameLane(e, e) /\ e.id >= e.id
    BY SnapshotKnown DEF StreamInv, SameLane
  <2> QED BY <2>1, <2>2 DEF Joins
<1>3. ASSUME NEW m \in Messages, Fed(c, m) PROVE Joins(c)'
  BY <1>3, FedJoins DEF Fed, JoinInv
<1> QED BY <1>1, <1>2, <1>3, SessionSteps

LEMMA JoinInvariant == Spec => []JoinInv
<1>1. Init => JoinInv
  BY DEF Init, JoinInv, Subscribed
<1>2. StreamInv /\ StreamInv' /\ JoinInv /\ [Next]_vars => JoinInv'
  BY NextJoins
<1> QED BY <1>1, <1>2, StreamInvariant, PTL DEF Spec

\* The subscription before the snapshot (stream.py:109-112): what the ring
\* buffer would replay now, or newer state of the same key, is on its way.
THEOREM SnapshotMeetsStream == Spec => []SnapshotJoinsLive
<1>1. JoinInv => SnapshotJoinsLive
  BY DEF JoinInv, Joins, SnapshotJoinsLive
<1> QED BY <1>1, JoinInvariant, PTL
=============================================================================
