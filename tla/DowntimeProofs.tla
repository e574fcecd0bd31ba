--------------------------- MODULE DowntimeProofs ---------------------------
(***************************************************************************)
(* Proofs about the scheduled downtimes: the counters of an object are the *)
(* number of its downtimes in effect and waiting, a triggered downtime is  *)
(* within the one that triggers it, and every downtime is in effect in its *)
(* window.                                                                 *)
(***************************************************************************)
EXTENDS Downtime, SequenceFacts

-----------------------------------------------------------------------------
(* Numbers and sequences *)

\* A set of naturals up to n that contains all that precedes its members is an
\* interval, of as many members as its end.
LEMMA Initial ==
  ASSUME NEW n \in Nat, NEW S \in SUBSET (1 .. n),
         \A i \in S, j \in 1 .. n : j < i => j \in S
  PROVE  Cardinality(S) \in 0 .. n /\ S = 1 .. Cardinality(S)
<1>1. CASE S = 1 .. n
  <2>1. Cardinality(1 .. n) = n
    BY FS_Interval
  <2> QED BY <1>1, <2>1
<1>2. CASE S # 1 .. n
  <2> DEFINE R == (1 .. n) \ S
  <2>1. R \subseteq Nat /\ R # {}
    <3>1. PICK x \in 1 .. n : x \notin S
      BY <1>2
    <3> QED BY <3>1
  <2>2. PICK m \in R : \A y \in R : m <= y
    <3> HIDE DEF R
    <3> QED BY <2>1, Least
  <2>3. S = 1 .. m - 1
    <3>1. ASSUME NEW i \in S PROVE i \in 1 .. m - 1
      <4>1. i # m /\ ~(m < i) /\ m \in 1 .. n /\ i \in 1 .. n
        BY <2>2
      <4> QED BY <4>1
    <3>2. ASSUME NEW i \in 1 .. m - 1 PROVE i \in S
      <4>1. i \in 1 .. n /\ ~(m <= i)
        BY <2>2
      <4> QED BY <2>2, <4>1
    <3> QED BY <3>1, <3>2
  <2>4. Cardinality(1 .. m - 1) = m - 1 /\ m \in 1 .. n
    BY <2>2, FS_Interval
  <2> QED BY <2>3, <2>4
<1> QED BY <1>1, <1>2

\* A sequence in front of which an element was put.
LEMMA ConsFacts ==
  ASSUME NEW S, NEW t \in Seq(S), NEW f \in S
  PROVE  /\ Cons(f, t) \in Seq(S) /\ Len(Cons(f, t)) = Len(t) + 1
         /\ Cons(f, t) # <<>> /\ Len(t) \in Nat
         /\ DOMAIN Cons(f, t) = 1 .. Len(t) + 1 /\ DOMAIN t = 1 .. Len(t)
         /\ Cons(f, t)[1] = f
         /\ \A k \in 1 .. Len(t) : Cons(f, t)[k + 1] = t[k]
<1>1. <<f>> \in Seq(S) /\ Len(<<f>>) = 1 /\ <<f>>[1] = f /\ Len(t) \in Nat
  OBVIOUS
<1>2. /\ <<f>> \o t \in Seq(S) /\ Len(<<f>> \o t) = Len(<<f>>) + Len(t)
      /\ \A i \in 1 .. Len(<<f>>) + Len(t) :
           (<<f>> \o t)[i] = IF i <= Len(<<f>>) THEN <<f>>[i] ELSE t[i - Len(<<f>>)]
  BY <1>1, ConcatProperties
<1>3. DOMAIN Cons(f, t) = 1 .. Len(t) + 1 /\ DOMAIN t = 1 .. Len(t)
  BY <1>1, <1>2, LenProperties DEF Cons
<1>4. Cons(f, t)[1] = f /\ \A k \in 1 .. Len(t) : Cons(f, t)[k + 1] = t[k]
  BY <1>1, <1>2 DEF Cons
<1>5. Cons(f, t) \in Seq(S) /\ Len(Cons(f, t)) = Len(t) + 1
  BY <1>1, <1>2 DEF Cons
<1>6. Cons(f, t) # <<>>
  BY <1>1, <1>5
<1> QED BY <1>1, <1>3, <1>4, <1>5, <1>6

\* A sequence is its head in front of its tail.
LEMMA HeadTail ==
  ASSUME NEW S, NEW s \in Seq(S), s # <<>>
  PROVE  /\ Head(s) \in S /\ Tail(s) \in Seq(S) /\ s = Cons(Head(s), Tail(s))
         /\ Head(s) = s[1] /\ Len(Tail(s)) = Len(s) - 1
         /\ DOMAIN Tail(s) = 1 .. Len(s) - 1 /\ DOMAIN s = 1 .. Len(s)
         /\ \A k \in 1 .. Len(s) - 1 : Tail(s)[k] = s[k + 1]
<1>1. /\ Head(s) \in S /\ Tail(s) \in Seq(S) /\ Head(s) = s[1]
      /\ Len(Tail(s)) = Len(s) - 1 /\ \A k \in 1 .. Len(s) - 1 : Tail(s)[k] = s[k + 1]
  BY HeadTailProperties
<1>2. Len(s) \in Nat \ {0} /\ DOMAIN Tail(s) = 1 .. Len(s) - 1 /\ DOMAIN s = 1 .. Len(s)
  BY <1>1, EmptySeq, LenProperties
<1> DEFINE h == Head(s)
           t == Tail(s)
<1>3. h \in S /\ t \in Seq(S) /\ Len(t) = Len(s) - 1
  BY <1>1
<1> HIDE DEF h, t
<1>4. /\ Cons(h, t) \in Seq(S) /\ Len(Cons(h, t)) = Len(t) + 1 /\ Cons(h, t)[1] = h
      /\ \A k \in 1 .. Len(t) : Cons(h, t)[k + 1] = t[k]
  BY <1>3, ConsFacts
<1> DEFINE c == Cons(h, t)
<1> HIDE DEF c
<1>5. ASSUME NEW i \in 1 .. Len(s) PROVE s[i] = c[i]
  <2>1. CASE i = 1
    BY <1>1, <1>4, <2>1 DEF c, h
  <2>2. CASE i # 1
    <3>1. i - 1 \in 1 .. Len(s) - 1 /\ (i - 1) + 1 = i
      BY <1>2, <2>2
    <3>2. Tail(s)[i - 1] = s[i] /\ c[i] = t[i - 1]
      BY <1>1, <1>3, <1>4, <3>1 DEF c
    <3> QED BY <3>2 DEF t
  <2> QED BY <2>1, <2>2
<1>6. c \in Seq(S) /\ Len(s) = Len(c)
  BY <1>2, <1>3, <1>4 DEF c
<1>7. s = c
  BY <1>5, <1>6, SeqEqual
<1> QED BY <1>1, <1>2, <1>7 DEF c, h, t

\* An element inserted at i.
LEMMA InsertFacts ==
  ASSUME NEW S, NEW s \in Seq(S), NEW e \in S, NEW i \in 1 .. Len(s) + 1
  PROVE  /\ InsertAt(s, i, e) \in Seq(S) /\ Len(InsertAt(s, i, e)) = Len(s) + 1
         /\ \A k \in 1 .. i - 1 : InsertAt(s, i, e)[k] = s[k]
         /\ InsertAt(s, i, e)[i] = e
         /\ \A k \in i .. Len(s) : InsertAt(s, i, e)[k + 1] = s[k]
<1> DEFINE a == SubSeq(s, 1, i - 1)
           b == SubSeq(s, i, Len(s))
           m == a \o <<e>>
<1>1. Len(s) \in Nat /\ \A k \in 1 .. Len(s) : s[k] \in S
  BY LenProperties, ElementOfSeq
<1>2. /\ a \in Seq(S) /\ Len(a) = i - 1
      /\ \A k \in 1 .. i - 1 : a[k] = s[k]
  <2>1. \A k \in 1 .. i - 1 : s[k] \in S
    BY <1>1
  <2> QED BY <1>1, <2>1, SubSeqProperties
<1>3. /\ b \in Seq(S) /\ Len(b) = Len(s) - i + 1
      /\ \A k \in 1 .. Len(s) - i + 1 : b[k] = s[i + k - 1]
  <2>1. \A k \in i .. Len(s) : s[k] \in S
    BY <1>1
  <2> QED BY <1>1, <2>1, SubSeqProperties
<1>4. <<e>> \in Seq(S) /\ Len(<<e>>) = 1 /\ <<e>>[1] = e
  OBVIOUS
<1> HIDE DEF a, b
<1>5. /\ m \in Seq(S) /\ Len(m) = i
      /\ \A k \in 1 .. i : m[k] = IF k <= i - 1 THEN a[k] ELSE e
  <2>1. /\ m \in Seq(S) /\ Len(m) = Len(a) + Len(<<e>>)
        /\ \A k \in 1 .. Len(a) + Len(<<e>>) :
             m[k] = IF k <= Len(a) THEN a[k] ELSE <<e>>[k - Len(a)]
    BY <1>2, <1>4, ConcatProperties
  <2> QED BY <1>1, <1>2, <1>4, <2>1
<1> HIDE DEF m
<1>6. /\ m \o b \in Seq(S) /\ Len(m \o b) = Len(s) + 1
      /\ \A k \in 1 .. Len(s) + 1 : (m \o b)[k] = IF k <= i THEN m[k] ELSE b[k - i]
  <2>1. /\ m \o b \in Seq(S) /\ Len(m \o b) = Len(m) + Len(b)
        /\ \A k \in 1 .. Len(m) + Len(b) :
             (m \o b)[k] = IF k <= Len(m) THEN m[k] ELSE b[k - Len(m)]
    BY <1>3, <1>5, ConcatProperties
  <2>2. Len(m) + Len(b) = Len(s) + 1
    BY <1>1, <1>3, <1>5
  <2> QED BY <1>5, <2>1, <2>2
<1>7. ASSUME NEW k \in 1 .. i - 1 PROVE (m \o b)[k] = s[k]
  <2>1. k \in 1 .. i /\ k \in 1 .. Len(s) + 1 /\ k <= i /\ k <= i - 1
    BY <1>1
  <2>2. (m \o b)[k] = m[k] /\ m[k] = a[k] /\ a[k] = s[k]
    BY <1>2, <1>5, <1>6, <2>1
  <2> QED BY <2>2
<1>8. (m \o b)[i] = e
  BY <1>1, <1>5, <1>6
<1>9. ASSUME NEW k \in i .. Len(s) PROVE (m \o b)[k + 1] = s[k]
  <2>1. (m \o b)[k + 1] = b[k + 1 - i]
    BY <1>1, <1>6
  <2>2. k + 1 - i \in 1 .. Len(s) - i + 1 /\ i + (k + 1 - i) - 1 = k
    BY <1>1
  <2>3. b[k + 1 - i] = s[i + (k + 1 - i) - 1]
    BY <1>3, <2>2
  <2> QED BY <2>1, <2>2, <2>3
<1> DEFINE r == m \o b
<1>10. InsertAt(s, i, e) = r
  BY DEF InsertAt, r, m, a, b
<1>11. /\ r \in Seq(S) /\ Len(r) = Len(s) + 1 /\ r[i] = e
       /\ \A k \in 1 .. i - 1 : r[k] = s[k]
       /\ \A k \in i .. Len(s) : r[k + 1] = s[k]
  BY <1>6, <1>7, <1>8, <1>9
<1> HIDE DEF r
<1> QED BY <1>10, <1>11

-----------------------------------------------------------------------------
(* The timed events *)

Event ==
  [kind : {"scheduled"}, id : Nat \ {0}, at : Nat] \cup [kind : {"expire"}, id : {0}, at : Nat]

Ordered(q) == \A j, k \in DOMAIN q : j < k => q[j].at <= q[k].at

\* e is the event of downtime i.
Of(e, i) == e.kind = "scheduled" /\ e.id = i

\* Downtime i has an event at t, has none, has none before t, has not two.
HasAt(q, i, t) == \E k \in DOMAIN q : Of(q[k], i) /\ q[k].at = t

HasNone(q, i) == \A k \in DOMAIN q : ~Of(q[k], i)

NotBefore(q, i, t) == \A k \in DOMAIN q : Of(q[k], i) => t <= q[k].at

HasOne(q, i) == \A j, k \in DOMAIN q : Of(q[j], i) /\ Of(q[k], i) => j = k

LEMMA EventFields ==
  ASSUME NEW e \in Event
  PROVE  /\ e.at \in Nat /\ e.kind \in {"scheduled", "expire"}
         /\ e.kind = "scheduled" => e.id \in Nat \ {0}
  BY DEF Event

LEMMA ScheduledFields ==
  ASSUME NEW i \in Nat \ {0}, NEW t \in Nat
  PROVE  /\ Scheduled(i, t) \in Event /\ Of(Scheduled(i, t), i)
         /\ Scheduled(i, t).at = t /\ Scheduled(i, t).id = i
         /\ \A j : Of(Scheduled(i, t), j) => j = i
  BY DEF Scheduled, Event, Of

LEMMA ExpireFields ==
  ASSUME NEW t \in Nat
  PROVE  Expire(t) \in Event /\ Expire(t).kind = "expire" /\ \A i : ~Of(Expire(t), i)
  BY DEF Expire, Event, Of

\* r is q with e inserted at p.
Inserted(q, e, r, p) ==
  /\ DOMAIN r = 1 .. Len(q) + 1 /\ r[p] = e
  /\ \A k \in 1 .. p - 1 : r[k] = q[k]
  /\ \A k \in p .. Len(q) : r[k + 1] = q[k]

\* add_event() keeps the queue in the order of time.
LEMMA AddEventFacts ==
  ASSUME NEW q \in Seq(Event), NEW e \in Event, Ordered(q)
  PROVE  /\ AddEvent(q, e) \in Seq(Event) /\ Ordered(AddEvent(q, e))
         /\ \E p \in 1 .. Len(q) + 1 : Inserted(q, e, AddEvent(q, e), p)
<1> DEFINE S == {i \in DOMAIN q : q[i].at <= e.at}
           p == Cardinality(S) + 1
           r == InsertAt(q, p, e)
<1>1. /\ Len(q) \in Nat /\ DOMAIN q = 1 .. Len(q) /\ e.at \in Nat
      /\ \A k \in DOMAIN q : q[k] \in Event /\ q[k].at \in Nat
  BY LenProperties, ElementOfSeq, EventFields
<1>2. S \in SUBSET (1 .. Len(q)) /\ \A i \in S, j \in 1 .. Len(q) : j < i => j \in S
  BY <1>1 DEF Ordered
<1> HIDE DEF S
<1>3. Cardinality(S) \in 0 .. Len(q) /\ S = 1 .. Cardinality(S)
  BY <1>1, <1>2, Initial
<1>4. p \in 1 .. Len(q) + 1
  BY <1>1, <1>3
<1>5. /\ \A k \in 1 .. p - 1 : q[k].at <= e.at
      /\ \A k \in p .. Len(q) : e.at < q[k].at
  <2>1. ASSUME NEW k \in 1 .. Len(q) PROVE k \in S <=> k < p
    BY <1>1, <1>3
  <2>2. ASSUME NEW k \in 1 .. Len(q) PROVE k \in S <=> q[k].at <= e.at
    BY <1>1 DEF S
  <2>3. ASSUME NEW k \in 1 .. Len(q) PROVE IF k < p THEN q[k].at <= e.at ELSE e.at < q[k].at
    BY <1>1, <2>1, <2>2
  <2> HIDE DEF p
  <2> QED BY <1>1, <1>4, <2>3
<1> HIDE DEF p
<1>6. /\ r \in Seq(Event) /\ Len(r) = Len(q) + 1 /\ r[p] = e
      /\ \A k \in 1 .. p - 1 : r[k] = q[k]
      /\ \A k \in p .. Len(q) : r[k + 1] = q[k]
  <2>1. ASSUME NEW S1, q \in Seq(S1), e \in S1
        PROVE  /\ InsertAt(q, p, e) \in Seq(S1) /\ Len(InsertAt(q, p, e)) = Len(q) + 1
               /\ \A k \in 1 .. p - 1 : InsertAt(q, p, e)[k] = q[k]
               /\ InsertAt(q, p, e)[p] = e
               /\ \A k \in p .. Len(q) : InsertAt(q, p, e)[k + 1] = q[k]
    BY ONLY <1>4, <2>1, InsertFacts
  <2>2. InsertAt(q, p, e) \in Seq(Event)
    BY <2>1
  <2>3. Len(InsertAt(q, p, e)) = Len(q) + 1 /\ InsertAt(q, p, e)[p] = e
    BY <2>1
  <2>4. /\ \A k \in 1 .. p - 1 : InsertAt(q, p, e)[k] = q[k]
        /\ \A k \in p .. Len(q) : InsertAt(q, p, e)[k + 1] = q[k]
    BY <2>1
  <2> QED BY <2>2, <2>3, <2>4
<1> HIDE DEF r
<1>7. DOMAIN r = 1 .. Len(q) + 1
  BY <1>6, LenProperties
<1>8. ASSUME NEW k \in 1 .. Len(q) + 1, k > p PROVE k - 1 \in p .. Len(q) /\ r[k] = q[k - 1]
  <2>1. k - 1 \in p .. Len(q) /\ (k - 1) + 1 = k
    BY <1>1, <1>4, <1>8
  <2> QED BY <1>6, <2>1
<1>9. Ordered(r)
  <2> SUFFICES ASSUME NEW j \in DOMAIN r, NEW k \in DOMAIN r, j < k PROVE r[j].at <= r[k].at
    BY DEF Ordered
  <2>1. j \in 1 .. Len(q) + 1 /\ k \in 1 .. Len(q) + 1
    BY <1>7
  <2>2. CASE k < p
    <3>1. r[j] = q[j] /\ r[k] = q[k] /\ j \in DOMAIN q /\ k \in DOMAIN q
      BY <1>1, <1>4, <1>6, <2>1, <2>2
    <3> QED BY <3>1 DEF Ordered
  <2>3. CASE k = p
    <3>1. r[j] = q[j] /\ q[j].at <= e.at
      BY <1>1, <1>4, <1>5, <1>6, <2>1, <2>3
    <3> QED BY <1>6, <2>3, <3>1
  <2>4. CASE k > p
    <3>1. r[k] = q[k - 1] /\ e.at < q[k - 1].at /\ k - 1 \in DOMAIN q
      BY <1>1, <1>4, <1>5, <1>8, <2>1, <2>4
    <3>2. CASE j < p
      <4>1. r[j] = q[j] /\ q[j].at <= e.at /\ j \in DOMAIN q
        BY <1>1, <1>4, <1>5, <1>6, <2>1, <3>2
      <4> QED BY <1>1, <3>1, <4>1
    <3>3. CASE j = p
      BY <1>1, <1>6, <3>1, <3>3
    <3>4. CASE j > p
      <4>1. r[j] = q[j - 1] /\ j - 1 \in DOMAIN q /\ j - 1 < k - 1
        BY <1>1, <1>4, <1>8, <2>1, <3>4
      <4> QED BY <3>1, <4>1 DEF Ordered
    <3> QED BY <1>4, <2>1, <3>2, <3>3, <3>4
  <2> QED BY <1>4, <2>1, <2>2, <2>3, <2>4
<1>10. AddEvent(q, e) = r
  BY DEF AddEvent, r, p, S
<1>11. Inserted(q, e, r, p)
  BY <1>6, <1>7 DEF Inserted
<1> QED BY <1>4, <1>6, <1>9, <1>10, <1>11

\* What add_event() does to the events of every downtime.
LEMMA Added ==
  ASSUME NEW q \in Seq(Event), NEW e \in Event, Ordered(q)
  PROVE  /\ \A k \in DOMAIN AddEvent(q, e) :
              AddEvent(q, e)[k] = e \/ \E j \in DOMAIN q : AddEvent(q, e)[k] = q[j]
         /\ \A i, t : HasAt(q, i, t) => HasAt(AddEvent(q, e), i, t)
         /\ \A i : Of(e, i) => HasAt(AddEvent(q, e), i, e.at)
         /\ \A i : HasNone(q, i) /\ ~Of(e, i) => HasNone(AddEvent(q, e), i)
         /\ \A i : HasNone(q, i) => HasOne(AddEvent(q, e), i)
         /\ \A i : HasOne(q, i) /\ ~Of(e, i) => HasOne(AddEvent(q, e), i)
<1> DEFINE r == AddEvent(q, e)
<1>1. PICK p \in 1 .. Len(q) + 1 : Inserted(q, e, r, p)
  BY AddEventFacts
<1> HIDE DEF r
<1>2. Len(q) \in Nat /\ DOMAIN q = 1 .. Len(q) /\ DOMAIN r = 1 .. Len(q) + 1 /\ r[p] = e
  BY <1>1, LenProperties DEF Inserted
<1> DEFINE back(k) == IF k < p THEN k ELSE k - 1
<1>3. ASSUME NEW k \in DOMAIN r, k # p PROVE back(k) \in DOMAIN q /\ r[k] = q[back(k)]
  <2>1. CASE k < p
    <3>1. k \in 1 .. p - 1 /\ k \in DOMAIN q
      BY <1>2, <2>1
    <3> QED BY <1>1, <2>1, <3>1 DEF Inserted
  <2>2. CASE ~(k < p)
    <3>1. k - 1 \in p .. Len(q) /\ (k - 1) + 1 = k /\ k - 1 \in DOMAIN q
      BY <1>2, <1>3, <2>2
    <3> QED BY <1>1, <2>2, <3>1 DEF Inserted
  <2> QED BY <2>1, <2>2
<1>4. ASSUME NEW j \in DOMAIN r, NEW k \in DOMAIN r, j # p, k # p, back(j) = back(k)
      PROVE  j = k
  BY <1>2, <1>4
<1> HIDE DEF back
<1>5. ASSUME NEW j \in DOMAIN q PROVE \E k \in DOMAIN r : r[k] = q[j]
  <2>1. CASE j < p
    <3>1. j \in 1 .. p - 1 /\ j \in DOMAIN r
      BY <1>2, <2>1
    <3> QED BY <1>1, <3>1 DEF Inserted
  <2>2. CASE ~(j < p)
    <3>1. j \in p .. Len(q) /\ j + 1 \in DOMAIN r
      BY <1>2, <2>2
    <3> QED BY <1>1, <3>1 DEF Inserted
  <2> QED BY <2>1, <2>2
<1>6. \A k \in DOMAIN r : r[k] = e \/ \E j \in DOMAIN q : r[k] = q[j]
  BY <1>2, <1>3
<1>7. ASSUME NEW i, NEW t, HasAt(q, i, t) PROVE HasAt(r, i, t)
  BY <1>5, <1>7 DEF HasAt
<1>8. ASSUME NEW i, Of(e, i) PROVE HasAt(r, i, e.at)
  BY <1>2, <1>8 DEF HasAt
<1>9. ASSUME NEW i, HasNone(q, i), ~Of(e, i) PROVE HasNone(r, i)
  BY <1>6, <1>9 DEF HasNone
<1>10. ASSUME NEW i, HasNone(q, i) PROVE HasOne(r, i)
  <2>1. ASSUME NEW k \in DOMAIN r, Of(r[k], i) PROVE k = p
    BY <1>3, <1>10, <2>1 DEF HasNone
  <2> QED BY <2>1 DEF HasOne
<1>11. ASSUME NEW i, HasOne(q, i), ~Of(e, i) PROVE HasOne(r, i)
  <2> SUFFICES ASSUME NEW j \in DOMAIN r, NEW k \in DOMAIN r, Of(r[j], i), Of(r[k], i)
               PROVE  j = k
    BY DEF HasOne
  <2>1. j # p /\ k # p
    BY <1>2, <1>11
  <2>2. /\ back(j) \in DOMAIN q /\ Of(q[back(j)], i)
        /\ back(k) \in DOMAIN q /\ Of(q[back(k)], i)
    BY <1>3, <2>1
  <2>3. back(j) = back(k)
    BY <1>11, <2>2 DEF HasOne
  <2> QED BY <1>4, <2>1, <2>3
<1> QED BY <1>6, <1>7, <1>8, <1>9, <1>10, <1>11 DEF r

\* What taking the first event does to them.
LEMMA Popped ==
  ASSUME NEW q \in Seq(Event), Ordered(q), q # <<>>
  PROVE  /\ Tail(q) \in Seq(Event) /\ Ordered(Tail(q)) /\ Head(q) \in Event
         /\ \A k \in DOMAIN q : Head(q).at <= q[k].at
         /\ \E k \in DOMAIN q : Head(q) = q[k]
         /\ \A k \in DOMAIN Tail(q) : \E j \in DOMAIN q : Tail(q)[k] = q[j]
         /\ \A i, t : HasAt(q, i, t) /\ ~Of(Head(q), i) => HasAt(Tail(q), i, t)
         /\ \A i : HasOne(q, i) => HasOne(Tail(q), i)
         /\ \A i : HasOne(q, i) /\ Of(Head(q), i) => HasNone(Tail(q), i)
         /\ \A i, t : HasOne(q, i) /\ Of(Head(q), i) /\ HasAt(q, i, t) => Head(q).at = t
<1> DEFINE h == Head(q)
           r == Tail(q)
<1>1. /\ h \in Event /\ r \in Seq(Event) /\ h = q[1] /\ DOMAIN r = 1 .. Len(q) - 1
      /\ DOMAIN q = 1 .. Len(q) /\ \A k \in 1 .. Len(q) - 1 : r[k] = q[k + 1]
  BY HeadTail
<1>2. Len(q) \in Nat \ {0} /\ 1 \in DOMAIN q
  BY <1>1, EmptySeq, LenProperties
<1> HIDE DEF h, r
<1>3. ASSUME NEW k \in DOMAIN r PROVE k + 1 \in DOMAIN q /\ r[k] = q[k + 1] /\ k \in Nat
  BY <1>1, <1>2
<1>4. ASSUME NEW k \in DOMAIN q, k # 1 PROVE k - 1 \in DOMAIN r /\ r[k - 1] = q[k]
  <2>1. k - 1 \in 1 .. Len(q) - 1 /\ (k - 1) + 1 = k
    BY <1>1, <1>2, <1>4
  <2> QED BY <1>1, <2>1
<1>5. Ordered(r)
  <2> SUFFICES ASSUME NEW j \in DOMAIN r, NEW k \in DOMAIN r, j < k PROVE r[j].at <= r[k].at
    BY DEF Ordered
  <2>1. j + 1 < k + 1
    BY <1>3
  <2> QED BY <1>3, <2>1 DEF Ordered
<1>6. ASSUME NEW k \in DOMAIN q PROVE h.at <= q[k].at
  <2>1. CASE k = 1
    BY <1>1, <2>1, EventFields
  <2>2. CASE k # 1
    <3>1. 1 < k
      BY <1>1, <1>2, <2>2
    <3> QED BY <1>1, <1>2, <3>1 DEF Ordered
  <2> QED BY <2>1, <2>2
<1>7. ASSUME NEW i, NEW t, HasAt(q, i, t), ~Of(h, i) PROVE HasAt(r, i, t)
  <2>1. PICK k \in DOMAIN q : Of(q[k], i) /\ q[k].at = t
    BY <1>7 DEF HasAt
  <2>2. k # 1
    BY <1>1, <1>7, <2>1
  <2> QED BY <1>4, <2>1, <2>2 DEF HasAt
<1>8. ASSUME NEW i, HasOne(q, i) PROVE HasOne(r, i)
  <2> SUFFICES ASSUME NEW j \in DOMAIN r, NEW k \in DOMAIN r, Of(r[j], i), Of(r[k], i)
               PROVE  j = k
    BY DEF HasOne
  <2>1. j + 1 = k + 1
    BY <1>3, <1>8 DEF HasOne
  <2> QED BY <1>3, <2>1
<1>9. ASSUME NEW i, HasOne(q, i), Of(h, i) PROVE HasNone(r, i)
  <2> SUFFICES ASSUME NEW k \in DOMAIN r, Of(r[k], i) PROVE FALSE
    BY DEF HasNone
  <2>1. k + 1 = 1
    BY <1>1, <1>2, <1>3, <1>9 DEF HasOne
  <2> QED BY <1>1, <1>2, <2>1
<1>10. ASSUME NEW i, NEW t, HasOne(q, i), Of(h, i), HasAt(q, i, t) PROVE h.at = t
  BY <1>1, <1>2, <1>10 DEF HasOne, HasAt
<1>11. \A k \in DOMAIN r : \E j \in DOMAIN q : r[k] = q[j]
  BY <1>3
<1> QED BY <1>1, <1>2, <1>5, <1>6, <1>7, <1>8, <1>9, <1>10, <1>11 DEF h, r

LEMMA ConsTwo ==
  ASSUME NEW S, NEW t \in Seq(S), NEW f \in S, NEW g \in S
  PROVE  <<f, g>> \o t = Cons(f, Cons(g, t))
<1> DEFINE u == Cons(g, t)
<1>1. /\ u \in Seq(S) /\ Len(u) = Len(t) + 1 /\ Len(t) \in Nat /\ u[1] = g
      /\ \A k \in 1 .. Len(t) : u[k + 1] = t[k]
  BY ConsFacts
<1> HIDE DEF u
<1> DEFINE v == Cons(f, u)
<1>2. /\ v \in Seq(S) /\ Len(v) = Len(u) + 1 /\ v[1] = f
      /\ \A k \in 1 .. Len(u) : v[k + 1] = u[k]
  <2>1. ASSUME NEW u1 \in Seq(S)
        PROVE  /\ Cons(f, u1) \in Seq(S) /\ Len(Cons(f, u1)) = Len(u1) + 1
               /\ Cons(f, u1)[1] = f /\ \A k \in 1 .. Len(u1) : Cons(f, u1)[k + 1] = u1[k]
    BY ConsFacts
  <2>2. u \in Seq(S)
    BY <1>1
  <2> QED BY ONLY <2>1, <2>2
<1> HIDE DEF v
<1>3. <<f, g>> \in Seq(S) /\ Len(<<f, g>>) = 2 /\ <<f, g>>[1] = f /\ <<f, g>>[2] = g
  OBVIOUS
<1> DEFINE w == <<f, g>> \o t
<1>4. /\ w \in Seq(S) /\ Len(w) = Len(<<f, g>>) + Len(t)
      /\ \A i \in 1 .. Len(<<f, g>>) + Len(t) :
           w[i] = IF i <= Len(<<f, g>>) THEN <<f, g>>[i] ELSE t[i - Len(<<f, g>>)]
  BY <1>3, ConcatProperties
<1> HIDE DEF w
<1>5. ASSUME NEW i \in 1 .. Len(w) PROVE w[i] = v[i]
  <2>1. CASE i = 1
    BY <1>1, <1>2, <1>3, <1>4, <2>1
  <2>2. CASE i = 2
    <3>1. w[2] = g /\ v[1 + 1] = u[1] /\ 1 + 1 = 2
      BY <1>1, <1>2, <1>3, <1>4, <2>2
    <3> QED BY <1>1, <2>2, <3>1
  <2>3. CASE i > 2
    <3>1. i - 2 \in 1 .. Len(t) /\ (i - 2) + 1 = i - 1 /\ (i - 1) + 1 = i /\ i - 1 \in 1 .. Len(u)
      BY <1>1, <1>3, <1>4, <2>3
    <3>2. w[i] = t[i - 2]
      BY <1>1, <1>3, <1>4, <2>3
    <3>3. v[i] = u[i - 1] /\ u[i - 1] = t[i - 2]
      BY <1>1, <1>2, <3>1
    <3> QED BY <3>2, <3>3
  <2>4. i = 1 \/ i = 2 \/ i > 2
    BY <1>1, <1>3, <1>4
  <2> QED BY <2>1, <2>2, <2>3, <2>4
<1>6. Len(w) = Len(v)
  BY <1>1, <1>2, <1>3, <1>4
<1>7. w = v
  BY <1>2, <1>4, <1>5, <1>6, SeqEqual
<1> QED BY <1>7 DEF u, v, w

-----------------------------------------------------------------------------
(* The calls in progress *)

Frames(I) ==
  [op : {"handle"}, id : I] \cup [op : {"each", "cancel"}, ids : SUBSET I]
    \cup [op : {"stop"}, id : I, scan : {1, 2}]

\* The downtimes that a call is about.
Mentions(f) == IF f.op \in {"handle", "stop"} THEN {f.id} ELSE f.ids

LEMMA FrameFields ==
  ASSUME NEW I, NEW f \in Frames(I)
  PROVE  /\ f.op \in {"handle", "each", "cancel", "stop"} /\ Mentions(f) \subseteq I
         /\ f.op \in {"handle", "stop"} => f.id \in I /\ Mentions(f) = {f.id}
         /\ f.op \in {"each", "cancel"} => f.ids \in SUBSET I /\ Mentions(f) = f.ids
         /\ f.op = "stop" => f.scan \in {1, 2}
<1>1. CASE f \in [op : {"handle"}, id : I]
  BY <1>1 DEF Mentions
<1>2. CASE f \in [op : {"each", "cancel"}, ids : SUBSET I]
  BY <1>2 DEF Mentions
<1>3. CASE f \in [op : {"stop"}, id : I, scan : {1, 2}]
  BY <1>3 DEF Mentions
<1> QED BY <1>1, <1>2, <1>3 DEF Frames

LEMMA CallFields ==
  ASSUME NEW I, NEW i \in I
  PROVE  Call(i) \in Frames(I) /\ Call(i).op = "handle" /\ Call(i).id = i /\ Mentions(Call(i)) = {i}
  BY DEF Call, Frames, Mentions

LEMMA EachFields ==
  ASSUME NEW I, NEW X \in SUBSET I
  PROVE  Each(X) \in Frames(I) /\ Each(X).op = "each" /\ Mentions(Each(X)) = X
  BY DEF Each, Frames, Mentions

LEMMA CancelFields ==
  ASSUME NEW I, NEW X \in SUBSET I
  PROVE  Cancel(X) \in Frames(I) /\ Cancel(X).op = "cancel" /\ Mentions(Cancel(X)) = X
  BY DEF Cancel, Frames, Mentions

LEMMA StopFields ==
  ASSUME NEW I, NEW i \in I, NEW n \in {1, 2}
  PROVE  Stop(i, n) \in Frames(I) /\ Stop(i, n).op = "stop" /\ Stop(i, n).id = i
         /\ Mentions(Stop(i, n)) = {i}
  BY DEF Stop, Frames, Mentions

\* A call about other downtimes stays one when one of them is gone.
LEMMA FrameWithout ==
  ASSUME NEW I, NEW f \in Frames(I), NEW J, Mentions(f) \subseteq J
  PROVE  f \in Frames(J)
<1>1. CASE f \in [op : {"handle"}, id : I]
  BY <1>1 DEF Mentions, Frames
<1>2. CASE f \in [op : {"each", "cancel"}, ids : SUBSET I]
  BY <1>2 DEF Mentions, Frames
<1>3. CASE f \in [op : {"stop"}, id : I, scan : {1, 2}]
  BY <1>3 DEF Mentions, Frames
<1> QED BY <1>1, <1>2, <1>3 DEF Frames

\* Some call of s, of one of the kinds, is about i.
Among(s, kinds, i) == \E j \in DOMAIN s : s[j].op \in kinds /\ i \in Mentions(s[j])

LEMMA AmongEmpty == \A kinds, i : ~Among(<<>>, kinds, i)
  BY DEF Among

LEMMA AmongCons ==
  ASSUME NEW S, NEW t \in Seq(S), NEW f \in S, NEW kinds, NEW i
  PROVE  Among(Cons(f, t), kinds, i) <=> (f.op \in kinds /\ i \in Mentions(f)) \/ Among(t, kinds, i)
<1> DEFINE s == Cons(f, t)
<1>1. /\ Len(t) \in Nat /\ DOMAIN s = 1 .. Len(t) + 1 /\ DOMAIN t = 1 .. Len(t)
      /\ s[1] = f /\ \A k \in 1 .. Len(t) : s[k + 1] = t[k]
  BY ConsFacts
<1> HIDE DEF s
<1>2. ASSUME Among(s, kinds, i) PROVE (f.op \in kinds /\ i \in Mentions(f)) \/ Among(t, kinds, i)
  <2>1. PICK j \in DOMAIN s : s[j].op \in kinds /\ i \in Mentions(s[j])
    BY <1>2 DEF Among
  <2>2. CASE j = 1
    BY <1>1, <2>1, <2>2
  <2>3. CASE j # 1
    <3>1. j - 1 \in DOMAIN t /\ j - 1 \in 1 .. Len(t) /\ (j - 1) + 1 = j
      BY <1>1, <2>3
    <3>2. s[j] = t[j - 1]
      BY <1>1, <3>1
    <3> QED BY <2>1, <3>1, <3>2 DEF Among
  <2> QED BY <2>2, <2>3
<1>3. ASSUME f.op \in kinds /\ i \in Mentions(f) PROVE Among(s, kinds, i)
  <2>1. 1 \in DOMAIN s
    BY <1>1
  <2> QED BY <1>1, <1>3, <2>1 DEF Among
<1>4. ASSUME Among(t, kinds, i) PROVE Among(s, kinds, i)
  <2>1. PICK j \in DOMAIN t : t[j].op \in kinds /\ i \in Mentions(t[j])
    BY <1>4 DEF Among
  <2>2. j + 1 \in DOMAIN s /\ s[j + 1] = t[j]
    BY <1>1
  <2> QED BY <2>1, <2>2 DEF Among
<1> QED BY <1>2, <1>3, <1>4 DEF s

\* The call f may be made inside the call g: it is about other downtimes, that
\* were triggered by later ones, and inside a stop by that one at the earliest.
On(D, f, g) ==
  /\ f.op # "cancel" /\ g.op \in {"each", "stop"}
  /\ \A x \in Mentions(f), y \in Mentions(g) : x # y /\ D[y].trigger <= D[x].trigger
  /\ g.op = "stop" => \A x \in Mentions(f) : g.id <= D[x].trigger

\* handle() is called for a triggered downtime when its parent is in effect, a
\* loop goes through downtimes of one parent, and a stop is of a downtime in
\* effect.
Sound(D, f) ==
  /\ f.op # "cancel" => \A x \in Mentions(f) : D[x].trigger # 0 =>
       D[x].trigger \in DOMAIN D /\ D[D[x].trigger].inEffect
  /\ f.op = "each" => \A x, y \in Mentions(f) : D[x].trigger = D[y].trigger
  /\ f.op = "stop" => D[f.id].inEffect

Disciplined(D, s) ==
  /\ \A j \in DOMAIN s : Sound(D, s[j])
  /\ \A i, j \in DOMAIN s : i < j => On(D, s[i], s[j])

\* f may be the innermost call on top of t.
Fits(D, f, t) == Sound(D, f) /\ \A j \in DOMAIN t : On(D, f, t[j])

LEMMA DisciplinedCons ==
  ASSUME NEW D, NEW S, NEW t \in Seq(S), NEW f \in S
  PROVE  Disciplined(D, Cons(f, t)) <=> Disciplined(D, t) /\ Fits(D, f, t)
<1> DEFINE s == Cons(f, t)
<1>1. /\ Len(t) \in Nat /\ DOMAIN s = 1 .. Len(t) + 1 /\ DOMAIN t = 1 .. Len(t)
      /\ s[1] = f /\ \A k \in 1 .. Len(t) : s[k + 1] = t[k]
  BY ConsFacts
<1> HIDE DEF s
<1>2. ASSUME NEW j \in DOMAIN t
      PROVE  j + 1 \in DOMAIN s /\ s[j + 1] = t[j] /\ 1 < j + 1 /\ j \in Nat
  BY <1>1
<1>3. ASSUME NEW j \in DOMAIN s, j # 1 PROVE j - 1 \in DOMAIN t /\ s[j] = t[j - 1] /\ j \in Nat
  <2>1. j - 1 \in 1 .. Len(t) /\ (j - 1) + 1 = j
    BY <1>1, <1>3
  <2> QED BY <1>1, <2>1
<1>4. 1 \in DOMAIN s
  BY <1>1
<1>5. ASSUME Disciplined(D, s) PROVE Disciplined(D, t) /\ Fits(D, f, t)
  <2>1. \A j \in DOMAIN t : Sound(D, t[j])
    BY <1>2, <1>5 DEF Disciplined
  <2>2. ASSUME NEW i \in DOMAIN t, NEW j \in DOMAIN t, i < j PROVE On(D, t[i], t[j])
    <3>1. i + 1 < j + 1
      BY <1>2, <2>2
    <3> QED BY <1>2, <1>5, <3>1 DEF Disciplined
  <2>3. Fits(D, f, t)
    BY <1>1, <1>2, <1>4, <1>5 DEF Disciplined, Fits
  <2> QED BY <2>1, <2>2, <2>3 DEF Disciplined
<1>6. ASSUME Disciplined(D, t), Fits(D, f, t) PROVE Disciplined(D, s)
  <2>1. ASSUME NEW j \in DOMAIN s PROVE Sound(D, s[j])
    BY <1>1, <1>3, <1>6 DEF Disciplined, Fits
  <2>2. ASSUME NEW i \in DOMAIN s, NEW j \in DOMAIN s, i < j PROVE On(D, s[i], s[j])
    <3>1. j # 1
      BY <1>1, <2>2
    <3>2. CASE i = 1
      BY <1>1, <1>3, <1>6, <3>1, <3>2 DEF Fits
    <3>3. CASE i # 1
      <4>1. i - 1 < j - 1
        BY <1>3, <2>2, <3>1, <3>3
      <4> QED BY <1>3, <1>6, <3>1, <3>3, <4>1 DEF Disciplined
    <3> QED BY <3>2, <3>3
  <2> QED BY <2>1, <2>2 DEF Disciplined
<1> QED BY <1>5, <1>6 DEF s

\* No other call is about a downtime of the innermost one.
LEMMA FitsApart ==
  ASSUME NEW D, NEW f, NEW t, Fits(D, f, t), NEW x \in Mentions(f)
  PROVE  \A kinds : ~Among(t, kinds, x)
  BY DEF Fits, On, Among

\* The downtimes E that replace D keep their triggers, stay in effect, and keep
\* their parents.
Keeps(D, E) ==
  /\ DOMAIN E \subseteq DOMAIN D
  /\ \A i \in DOMAIN E :
       /\ E[i].trigger = D[i].trigger /\ (D[i].inEffect => E[i].inEffect)
       /\ D[i].trigger \in DOMAIN D => D[i].trigger \in DOMAIN E

LEMMA DisciplinedKept ==
  ASSUME NEW D, NEW E, Keeps(D, E), NEW t \in Seq(Frames(DOMAIN E)), Disciplined(D, t)
  PROVE  Disciplined(E, t)
<1>1. \A j \in DOMAIN t : t[j] \in Frames(DOMAIN E)
  BY ElementOfSeq, LenProperties
<1>2. \A j \in DOMAIN t : Mentions(t[j]) \subseteq DOMAIN E
  BY <1>1, FrameFields
<1>3. \A j \in DOMAIN t : t[j].op = "stop" => t[j].id \in DOMAIN E
  BY <1>1, FrameFields
<1>4. ASSUME NEW j \in DOMAIN t PROVE Sound(E, t[j])
  <2>1. Sound(D, t[j])
    BY DEF Disciplined
  <2>2. ASSUME t[j].op # "cancel", NEW x \in Mentions(t[j]), E[x].trigger # 0
        PROVE  E[x].trigger \in DOMAIN E /\ E[E[x].trigger].inEffect
    <3>1. x \in DOMAIN E /\ D[x].trigger = E[x].trigger
      BY <1>2 DEF Keeps
    <3>2. D[x].trigger \in DOMAIN D /\ D[D[x].trigger].inEffect
      BY <2>1, <2>2, <3>1 DEF Sound
    <3> QED BY <3>1, <3>2 DEF Keeps
  <2>3. ASSUME t[j].op = "each", NEW x \in Mentions(t[j]), NEW y \in Mentions(t[j])
        PROVE  E[x].trigger = E[y].trigger
    BY <1>2, <2>1, <2>3 DEF Sound, Keeps
  <2>4. ASSUME t[j].op = "stop" PROVE E[t[j].id].inEffect
    BY <1>3, <2>1, <2>4 DEF Sound, Keeps
  <2> QED BY <2>2, <2>3, <2>4 DEF Sound
<1>5. ASSUME NEW i \in DOMAIN t, NEW j \in DOMAIN t, i < j PROVE On(E, t[i], t[j])
  <2>1. On(D, t[i], t[j])
    BY <1>5 DEF Disciplined
  <2>2. \A x \in Mentions(t[i]) \cup Mentions(t[j]) : E[x].trigger = D[x].trigger
    BY <1>2 DEF Keeps
  <2> QED BY <2>1, <2>2 DEF On
<1> QED BY <1>4, <1>5 DEF Disciplined

\* The same for the position of a new call.
LEMMA OnKept ==
  ASSUME NEW D, NEW E, Keeps(D, E), NEW f \in Frames(DOMAIN E), NEW t \in Seq(Frames(DOMAIN E)),
         \A j \in DOMAIN t : On(D, f, t[j])
  PROVE  \A j \in DOMAIN t : On(E, f, t[j])
<1>1. \A j \in DOMAIN t : t[j] \in Frames(DOMAIN E)
  BY ElementOfSeq, LenProperties
<1>2. Mentions(f) \subseteq DOMAIN E /\ \A j \in DOMAIN t : Mentions(t[j]) \subseteq DOMAIN E
  BY <1>1, FrameFields
<1> SUFFICES ASSUME NEW j \in DOMAIN t PROVE On(E, f, t[j])
  OBVIOUS
<1>3. \A x \in Mentions(f) \cup Mentions(t[j]) : E[x].trigger = D[x].trigger
  BY <1>2 DEF Keeps
<1> QED BY <1>3 DEF On

\* Calls about downtimes that are still there.
LEMMA FramesKept ==
  ASSUME NEW I, NEW J, NEW t \in Seq(Frames(I)), \A x \in I \ J : \A kinds : ~Among(t, kinds, x)
  PROVE  t \in Seq(Frames(J))
<1>1. Len(t) \in Nat /\ DOMAIN t = 1 .. Len(t) /\ \A j \in DOMAIN t : t[j] \in Frames(I)
  BY ElementOfSeq, LenProperties
<1>2. ASSUME NEW j \in DOMAIN t PROVE t[j] \in Frames(J)
  <2>1. Mentions(t[j]) \subseteq I
    BY <1>1, FrameFields
  <2>2. ASSUME NEW x \in Mentions(t[j]) PROVE x \in J
    <3>1. Among(t, {t[j].op}, x)
      BY <2>2 DEF Among
    <3> QED BY <2>1, <3>1
  <2> QED BY <1>1, <2>2, FrameWithout
<1>3. t = [j \in 1 .. Len(t) |-> t[j]]
  BY <1>1
<1> QED BY <1>1, <1>2, <1>3, IsASeq

\* One call, and none.
LEMMA OneFrame ==
  ASSUME NEW D, NEW f \in Frames(DOMAIN D), Sound(D, f)
  PROVE  /\ <<f>> = Cons(f, <<>>) /\ <<f>> \in Seq(Frames(DOMAIN D)) /\ Disciplined(D, <<f>>)
         /\ \A kinds, i : Among(<<f>>, kinds, i) <=> f.op \in kinds /\ i \in Mentions(f)
<1>1. /\ <<f>> \in Seq(Frames(DOMAIN D)) /\ DOMAIN <<f>> = {1} /\ <<f>>[1] = f
      /\ <<f>> = <<f>> \o <<>>
  OBVIOUS
<1>2. Disciplined(D, <<f>>)
  <2>1. \A j \in DOMAIN <<f>> : Sound(D, <<f>>[j])
    BY <1>1
  <2>2. \A i, j \in DOMAIN <<f>> : ~(i < j)
    BY <1>1
  <2> QED BY <2>1, <2>2 DEF Disciplined
<1> DEFINE s == <<f>>
<1>3. DOMAIN s = {1} /\ s[1] = f
  BY <1>1
<1> HIDE DEF s
<1>4. \A kinds, i : Among(s, kinds, i) <=> f.op \in kinds /\ i \in Mentions(f)
  BY <1>3 DEF Among
<1> QED BY <1>1, <1>2, <1>4 DEF Cons, s

LEMMA NoFrame ==
  ASSUME NEW D
  PROVE  <<>> \in Seq(Frames(DOMAIN D)) /\ Disciplined(D, <<>>)
  BY DEF Disciplined

-----------------------------------------------------------------------------
(* The inductive invariant *)

Record(i) ==
  [obj : Object, start : Nat, end : Nat, fixed : BOOLEAN, duration : Nat \ {0},
   trigger : 0 .. i - 1, inEffect : BOOLEAN, startFlex : BOOLEAN, incremented : BOOLEAN]

\* The types, with integers for the counters.
Types ==
  /\ now \in 1 .. MaxTime /\ state \in [Object -> {"ok", "soft", "hard"}]
  /\ depth \in [Object -> Int] /\ pending \in [Object -> Int]
  /\ lastId \in 0 .. MaxDowntimes /\ Ids \subseteq 1 .. lastId
  /\ \A i \in Ids : downtimes[i] \in Record(i) /\ downtimes[i].start < downtimes[i].end
  /\ events \in Seq(Event) /\ Ordered(events) /\ stack \in Seq(Frames(Ids))
  /\ up \in BOOLEAN /\ checks \in 0 .. MaxChecks /\ restarts \in 0 .. MaxRestarts

\* A triggered downtime is in effect within its parent, or it is about to be
\* cancelled because its parent was.
Within(D, s) ==
  \A c \in DOMAIN D : D[c].trigger # 0 /\ D[c].inEffect =>
    \/ D[c].trigger \in DOMAIN D /\ D[D[c].trigger].inEffect
    \/ Among(s, {"cancel"}, c)

\* An id that was not given yet since the last restart has only events that are
\* due, and a triggered downtime has an event only when it is in effect.
Known(D, q, n, t) ==
  \A k \in DOMAIN q : q[k].kind = "scheduled" =>
    /\ q[k].id > n => q[k].at < t
    /\ q[k].id \in DOMAIN D /\ D[q[k].id].trigger # 0 => D[q[k].id].inEffect

Core ==
  /\ Types /\ Disciplined(downtimes, stack)
  /\ Within(downtimes, stack) /\ Known(downtimes, events, lastId, now)

\* What is counted by depth and by pending.
Active(D, s, o) ==
  {i \in DOMAIN D : ~Among(s, {"stop"}, i) /\ D[i].obj = o /\ D[i].inEffect}

Awaiting(D, s, o) ==
  {i \in DOMAIN D : /\ ~Among(s, {"stop"}, i) /\ D[i].obj = o
                    /\ ~D[i].fixed /\ D[i].incremented}

Counted ==
  \A o \in Object : /\ depth[o] = Cardinality(Active(downtimes, stack, o))
                    /\ Cardinality(Awaiting(downtimes, stack, o)) <= pending[o]

\* A fixed downtime d, of id i, that nothing triggers waits for one event: the one
\* that starts it, then the one that ends it; or that event is being handled.
FixedKept(d, s, q, t, i) ==
  d.fixed /\ d.trigger = 0 =>
    /\ HasOne(q, i) /\ ~Among(s, {"each"}, i)
    /\ Among(s, {"handle", "stop"}, i) =>
         HasNone(q, i) /\ (IF d.inEffect THEN d.end < t ELSE d.start <= t)
    /\ ~Among(s, {"handle", "stop"}, i) =>
         /\ d.inEffect => d.start <= t
         /\ HasAt(q, i, IF d.inEffect THEN d.end + 1 ELSE d.start)

\* A flexible downtime that nothing triggers, that has not started and that is not
\* about to be handled was counted as waiting or still has its first event; in the
\* first case its object has no hard problem in the window.
FlexKept(d, s, q, t, hard, i) ==
  ~d.fixed /\ d.trigger = 0 =>
    /\ Among(s, {"handle", "each"}, i) \/ d.incremented => d.start <= t
    /\ NotBefore(q, i, d.start)
    /\ ~d.inEffect /\ ~Among(s, {"handle", "each"}, i) =>
         /\ d.incremented \/ HasAt(q, i, d.start)
         /\ ~(d.incremented /\ t <= d.end /\ hard)

Windows ==
  \A i \in Ids :
    /\ FixedKept(downtimes[i], stack, events, now, i)
    /\ FlexKept(downtimes[i], stack, events, now, state[downtimes[i].obj] = "hard", i)

Inv == Core /\ Counted /\ Windows

-----------------------------------------------------------------------------
(* The choices of the code *)

LEMMA RecordFields ==
  ASSUME Types, NEW i \in Ids
  PROVE  /\ i \in Nat \ {0} /\ i <= lastId /\ downtimes[i] \in Record(i)
         /\ downtimes[i].obj \in Object /\ downtimes[i].start \in Nat /\ downtimes[i].end \in Nat
         /\ downtimes[i].start < downtimes[i].end /\ downtimes[i].fixed \in BOOLEAN
         /\ downtimes[i].duration \in Nat \ {0} /\ downtimes[i].trigger \in 0 .. i - 1
         /\ downtimes[i].inEffect \in BOOLEAN /\ downtimes[i].incremented \in BOOLEAN
<1>1. /\ i \in Nat \ {0} /\ i <= lastId /\ downtimes[i] \in Record(i)
      /\ downtimes[i].start < downtimes[i].end
  <2>1. i \in 1 .. lastId /\ lastId \in 0 .. MaxDowntimes /\ MaxDowntimes \in Nat
    BY DowntimeAssumption DEF Types
  <2>2. i \in Nat \ {0} /\ i <= lastId
    BY <2>1
  <2> QED BY <2>2 DEF Types
<1> QED BY <1>1 DEF Record

\* The loops find a first downtime when there is one.
LEMMA FirstFacts ==
  ASSUME Types, NEW X \in SUBSET Ids, X # {}
  PROVE  First(X) \in X
<1> DEFINE starts == {downtimes[c].start : c \in X}
<1>1. \A c \in X : c \in Nat /\ downtimes[c].start \in Nat
  BY RecordFields
<1>2. starts \subseteq Nat /\ starts # {}
  BY <1>1
<1>3. PICK m \in starts : \A y \in starts : m <= y
  <2> HIDE DEF starts
  <2> QED BY <1>2, Least
<1> DEFINE Y == {c \in X : downtimes[c].start = m}
<1>4. Y \subseteq Nat /\ Y # {}
  BY <1>1, <1>3
<1>5. PICK c \in Y : \A d \in Y : c <= d
  <2> HIDE DEF Y
  <2> QED BY <1>4, Least
<1>6. c \in X /\ downtimes[c].start = m
  BY <1>5
<1>7. ASSUME NEW d \in X \ {c}
      PROVE  \/ downtimes[c].start < downtimes[d].start
             \/ downtimes[c].start = downtimes[d].start /\ c < d
  <2>1. m <= downtimes[d].start /\ downtimes[d].start \in Nat /\ m \in Nat /\ d \in Nat /\ c \in Nat
    BY <1>1, <1>2, <1>3, <1>6
  <2>2. CASE downtimes[d].start = m
    <3>1. c <= d
      BY <1>5, <2>2
    <3> QED BY <1>6, <2>1, <2>2, <3>1
  <2>3. CASE downtimes[d].start # m
    BY <1>6, <2>1, <2>3
  <2> QED BY <2>2, <2>3
<1> QED BY <1>6, <1>7 DEF First

\* initialize_downtime_data() keeps a set of downtimes, and of the ones that nothing
\* triggers those that are not stale.
LEMMA ValidFacts ==
  /\ Valid \subseteq Ids
  /\ \A i \in Ids : downtimes[i].trigger = 0 /\ i \notin Valid => Stale(i)
<1> DEFINE F(s) == {i \in Ids : ~Stale(i) /\ downtimes[i].trigger \in s \cup {0}}
           M == {i \in Ids : \A s \in SUBSET Ids : F(s) \subseteq s => i \in s}
<1>1. M \in SUBSET Ids /\ F(M) \in SUBSET Ids
  OBVIOUS
<1>2. \A s, t \in SUBSET Ids : s \subseteq t => F(s) \subseteq F(t)
  OBVIOUS
<1>3. \A s \in SUBSET Ids : F(s) \subseteq s => M \subseteq s
  OBVIOUS
<1>4. \A i \in Ids : (\A s \in SUBSET Ids : F(s) \subseteq s => i \in s) => i \in M
  OBVIOUS
<1> HIDE DEF F, M
<1>5. F(M) \subseteq M
  <2>1. ASSUME NEW i \in F(M), NEW s \in SUBSET Ids, F(s) \subseteq s PROVE i \in s
    BY <1>1, <1>2, <1>3, <2>1
  <2> QED BY <1>1, <1>4, <2>1
<1>6. M \subseteq F(M)
  BY <1>1, <1>2, <1>3, <1>5
<1>7. M = F(M)
  BY <1>5, <1>6
<1>8. \E s \in SUBSET Ids : s = {i \in Ids : ~Stale(i) /\ downtimes[i].trigger \in s \cup {0}}
  BY <1>1, <1>7 DEF F
<1>9. /\ Valid \in SUBSET Ids
      /\ Valid = {i \in Ids : ~Stale(i) /\ downtimes[i].trigger \in Valid \cup {0}}
  BY <1>8 DEF Valid
<1> QED BY <1>9

\* The last id that was loaded.
LEMMA LargestFacts ==
  ASSUME NEW n \in Nat, NEW V \in SUBSET (1 .. n), V # {}
  PROVE  /\ (CHOOSE i \in V : \A j \in V : j <= i) \in V
         /\ \A j \in V : j <= (CHOOSE i \in V : \A k \in V : k <= i)
<1> DEFINE B == {b \in 0 .. n : \A j \in V : j <= b}
<1>1. B \subseteq Nat /\ n \in B
  OBVIOUS
<1>2. PICK b \in B : \A y \in B : b <= y
  <2> HIDE DEF B
  <2> QED BY <1>1, Least
<1>3. b \in V
  <2> SUFFICES ASSUME b \notin V PROVE FALSE
    OBVIOUS
  <2>1. b \in 0 .. n /\ \A j \in V : j < b
    BY <1>2
  <2>2. b # 0
    <3>1. PICK j \in V : TRUE
      OBVIOUS
    <3>2. j \in 1 .. n /\ j < b
      BY <2>1
    <3> QED BY <3>2
  <2>3. b - 1 \in B
    BY <2>1, <2>2
  <2> QED BY <1>2, <2>1, <2>3
<1>4. \E i \in V : \A j \in V : j <= i
  BY <1>2, <1>3
<1> QED BY <1>4

-----------------------------------------------------------------------------
(* What the steps do to the downtimes and to the calls *)

\* E is D with other flags for id.
Touched(D, E, id) ==
  /\ DOMAIN E = DOMAIN D /\ \A j \in DOMAIN D \ {id} : E[j] = D[j]
  /\ E[id] \in Record(id) /\ E[id].obj = D[id].obj /\ E[id].start = D[id].start
  /\ E[id].end = D[id].end /\ E[id].fixed = D[id].fixed /\ E[id].trigger = D[id].trigger

WithIncremented(D, id) == [D EXCEPT ![id].incremented = TRUE]

LEMMA TouchedIncremented ==
  ASSUME NEW D, NEW id \in DOMAIN D, D[id] \in Record(id), NEW E, E = WithIncremented(D, id)
  PROVE  Touched(D, E, id) /\ E[id].incremented /\ E[id].inEffect = D[id].inEffect
<1>1. DOMAIN E = DOMAIN D /\ \A j \in DOMAIN D \ {id} : E[j] = D[j]
  BY DEF WithIncremented
<1>2. E[id] = [D[id] EXCEPT !.incremented = TRUE]
  BY DEF WithIncremented
<1>3. ASSUME NEW r \in Record(id), NEW s, s = [r EXCEPT !.incremented = TRUE]
      PROVE  /\ s \in Record(id) /\ s.obj = r.obj /\ s.start = r.start /\ s.end = r.end
             /\ s.fixed = r.fixed /\ s.trigger = r.trigger /\ s.incremented
             /\ s.inEffect = r.inEffect
  BY ONLY <1>3 DEF Record
<1>4. /\ E[id] \in Record(id) /\ E[id].obj = D[id].obj /\ E[id].start = D[id].start
      /\ E[id].end = D[id].end /\ E[id].fixed = D[id].fixed /\ E[id].trigger = D[id].trigger
      /\ E[id].incremented /\ E[id].inEffect = D[id].inEffect
  BY <1>2, <1>3
<1> QED BY <1>1, <1>4 DEF Touched

WithInEffect(D, id) == [D EXCEPT ![id].inEffect = TRUE]

LEMMA TouchedInEffect ==
  ASSUME NEW D, NEW id \in DOMAIN D, D[id] \in Record(id), NEW E, E = WithInEffect(D, id)
  PROVE  Touched(D, E, id) /\ E[id].inEffect /\ E[id].incremented = D[id].incremented
<1>1. DOMAIN E = DOMAIN D /\ \A j \in DOMAIN D \ {id} : E[j] = D[j]
  BY DEF WithInEffect
<1>2. E[id] = [D[id] EXCEPT !.inEffect = TRUE]
  BY DEF WithInEffect
<1>3. ASSUME NEW r \in Record(id), NEW s, s = [r EXCEPT !.inEffect = TRUE]
      PROVE  /\ s \in Record(id) /\ s.obj = r.obj /\ s.start = r.start /\ s.end = r.end
             /\ s.fixed = r.fixed /\ s.trigger = r.trigger /\ s.inEffect
             /\ s.incremented = r.incremented
  BY ONLY <1>3 DEF Record
<1>4. /\ E[id] \in Record(id) /\ E[id].obj = D[id].obj /\ E[id].start = D[id].start
      /\ E[id].end = D[id].end /\ E[id].fixed = D[id].fixed /\ E[id].trigger = D[id].trigger
      /\ E[id].inEffect /\ E[id].incremented = D[id].incremented
  BY <1>2, <1>3
<1> QED BY <1>1, <1>4 DEF Touched

LEMMA TouchedKeeps ==
  ASSUME NEW D, NEW E, NEW id \in DOMAIN D, Touched(D, E, id), D[id].inEffect => E[id].inEffect
  PROVE  Keeps(D, E)
  BY DEF Touched, Keeps

\* E is D without id, which triggers nothing that is left.
LEMMA RemovedKeeps ==
  ASSUME NEW D, NEW id, NEW E, E = [c \in DOMAIN D \ {id} |-> D[c]],
         \A c \in DOMAIN D : D[c].trigger # id
  PROVE  Keeps(D, E)
  BY DEF Keeps

\* The innermost call.
LEMMA TopFacts ==
  ASSUME Core, NEW op, Top(op)
  PROVE  /\ Head(stack) \in Frames(Ids) /\ Tail(stack) \in Seq(Frames(Ids))
         /\ stack = Cons(Head(stack), Tail(stack)) /\ Head(stack).op = op /\ up
         /\ Disciplined(downtimes, Tail(stack)) /\ Fits(downtimes, Head(stack), Tail(stack))
         /\ \A kinds, i : Among(stack, kinds, i) <=>
              (op \in kinds /\ i \in Mentions(Head(stack))) \/ Among(Tail(stack), kinds, i)
         /\ \A kinds, x : x \in Mentions(Head(stack)) => ~Among(Tail(stack), kinds, x)
<1> DEFINE f == Head(stack)
           t == Tail(stack)
<1>1. stack # <<>> /\ f.op = op /\ up /\ stack \in Seq(Frames(Ids)) /\ Disciplined(downtimes, stack)
  BY DEF Core, Types, Top
<1>2. f \in Frames(Ids) /\ t \in Seq(Frames(Ids)) /\ stack = Cons(f, t)
  BY <1>1, HeadTail
<1> HIDE DEF f, t
<1>3. Disciplined(downtimes, t) /\ Fits(downtimes, f, t)
  BY <1>1, <1>2, DisciplinedCons
<1>4. ASSUME NEW kinds, NEW i
      PROVE  Among(stack, kinds, i) <=> (op \in kinds /\ i \in Mentions(f)) \/ Among(t, kinds, i)
  <2>1. Among(Cons(f, t), kinds, i) <=>
          (f.op \in kinds /\ i \in Mentions(f)) \/ Among(t, kinds, i)
    BY <1>2, AmongCons
  <2> QED BY <1>1, <1>2, <2>1
<1>5. \A kinds, x : x \in Mentions(f) => ~Among(t, kinds, x)
  BY <1>3, FitsApart
<1> QED BY <1>1, <1>2, <1>3, <1>4, <1>5 DEF f, t

\* The calls in progress when the innermost one, f, is replaced by g or by g and h.
LEMMA PushOne ==
  ASSUME NEW D, NEW t \in Seq(Frames(DOMAIN D)), Disciplined(D, t),
         NEW g \in Frames(DOMAIN D), Fits(D, g, t)
  PROVE  /\ <<g>> \o t = Cons(g, t) /\ Cons(g, t) \in Seq(Frames(DOMAIN D))
         /\ Disciplined(D, Cons(g, t))
         /\ \A kinds, i : Among(Cons(g, t), kinds, i) <=>
              (g.op \in kinds /\ i \in Mentions(g)) \/ Among(t, kinds, i)
<1>1. Cons(g, t) \in Seq(Frames(DOMAIN D))
  BY ConsFacts
<1>2. Disciplined(D, Cons(g, t))
  BY DisciplinedCons
<1>3. ASSUME NEW kinds, NEW i
      PROVE  Among(Cons(g, t), kinds, i) <=>
               (g.op \in kinds /\ i \in Mentions(g)) \/ Among(t, kinds, i)
  BY AmongCons
<1> QED BY <1>1, <1>2, <1>3 DEF Cons

LEMMA PushTwo ==
  ASSUME NEW D, NEW t \in Seq(Frames(DOMAIN D)), Disciplined(D, t),
         NEW h \in Frames(DOMAIN D), Fits(D, h, t),
         NEW g \in Frames(DOMAIN D), Sound(D, g), On(D, g, h), \A j \in DOMAIN t : On(D, g, t[j])
  PROVE  /\ <<g, h>> \o t = Cons(g, Cons(h, t)) /\ Cons(g, Cons(h, t)) \in Seq(Frames(DOMAIN D))
         /\ Disciplined(D, Cons(g, Cons(h, t)))
         /\ \A kinds, i : Among(Cons(g, Cons(h, t)), kinds, i) <=>
              \/ g.op \in kinds /\ i \in Mentions(g)
              \/ h.op \in kinds /\ i \in Mentions(h)
              \/ Among(t, kinds, i)
<1> DEFINE u == Cons(h, t)
<1>1. /\ u \in Seq(Frames(DOMAIN D)) /\ Disciplined(D, u)
      /\ \A kinds, i : Among(u, kinds, i) <=>
              (h.op \in kinds /\ i \in Mentions(h)) \/ Among(t, kinds, i)
  BY PushOne
<1>2. Fits(D, g, u)
  <2>1. /\ Len(t) \in Nat /\ DOMAIN u = 1 .. Len(t) + 1 /\ DOMAIN t = 1 .. Len(t) /\ u[1] = h
        /\ \A k \in 1 .. Len(t) : u[k + 1] = t[k]
    BY ConsFacts
  <2> HIDE DEF u
  <2>2. ASSUME NEW j \in DOMAIN u PROVE On(D, g, u[j])
    <3>1. CASE j = 1
      BY <2>1, <3>1
    <3>2. CASE j # 1
      <4>1. j - 1 \in 1 .. Len(t) /\ (j - 1) + 1 = j
        BY <2>1, <3>2
      <4>2. u[j] = t[j - 1] /\ j - 1 \in DOMAIN t
        BY <2>1, <4>1
      <4> QED BY <4>2
    <3> QED BY <3>1, <3>2
  <2> QED BY <2>2 DEF Fits
<1>3. <<g, h>> \o t = Cons(g, u)
  BY ConsTwo
<1> HIDE DEF u
<1>4. Cons(g, u) \in Seq(Frames(DOMAIN D)) /\ Disciplined(D, Cons(g, u))
  BY <1>1, <1>2, PushOne
<1>5. \A kinds, i : Among(Cons(g, u), kinds, i) <=>
              (g.op \in kinds /\ i \in Mentions(g)) \/ Among(u, kinds, i)
  BY <1>1, <1>2, PushOne
<1> QED BY <1>1, <1>3, <1>4, <1>5 DEF u

\* The downtimes E that replace D keep their triggers and stay in effect.
Shrinks(D, E) ==
  /\ DOMAIN E \subseteq DOMAIN D
  /\ \A i \in DOMAIN E : E[i].trigger = D[i].trigger /\ (D[i].inEffect => E[i].inEffect)

LEMMA KnownStep ==
  ASSUME NEW D, NEW E, Shrinks(D, E), NEW n \in Nat, NEW t \in Nat, NEW u \in Nat, t <= u,
         NEW q \in Seq(Event), NEW r \in Seq(Event), Known(D, q, n, t), NEW e \in Event,
         \A k \in DOMAIN r : r[k] = e \/ \E j \in DOMAIN q : r[k] = q[j],
         e.kind = "scheduled" =>
           e.id <= n /\ (e.id \in DOMAIN E /\ E[e.id].trigger # 0 => E[e.id].inEffect)
  PROVE  Known(E, r, n, u)
<1> SUFFICES ASSUME NEW k \in DOMAIN r, r[k].kind = "scheduled"
             PROVE  /\ r[k].id > n => r[k].at < u
                    /\ r[k].id \in DOMAIN E /\ E[r[k].id].trigger # 0 => E[r[k].id].inEffect
  BY DEF Known
<1>1. CASE r[k] = e
  BY <1>1, EventFields
<1>2. CASE \E j \in DOMAIN q : r[k] = q[j]
  <2>1. PICK j \in DOMAIN q : r[k] = q[j]
    BY <1>2
  <2>2. q[j] \in Event /\ q[j].at \in Nat
    BY ElementOfSeq, LenProperties, EventFields
  <2>3. /\ q[j].id > n => q[j].at < t
        /\ q[j].id \in DOMAIN D /\ D[q[j].id].trigger # 0 => D[q[j].id].inEffect
    BY <2>1 DEF Known
  <2> QED BY <2>1, <2>2, <2>3 DEF Shrinks
<1> QED BY <1>1, <1>2

LEMMA WithinStep ==
  ASSUME NEW D, NEW E, Keeps(D, E), NEW s, NEW u, Within(D, s),
         \A c \in DOMAIN E : E[c].inEffect /\ ~D[c].inEffect /\ D[c].trigger # 0 =>
           D[c].trigger \in DOMAIN D /\ D[D[c].trigger].inEffect,
         \A c \in DOMAIN E : Among(s, {"cancel"}, c) => Among(u, {"cancel"}, c)
  PROVE  Within(E, u)
<1> SUFFICES ASSUME NEW c \in DOMAIN E, E[c].trigger # 0, E[c].inEffect,
                    ~Among(u, {"cancel"}, c)
             PROVE  E[c].trigger \in DOMAIN E /\ E[E[c].trigger].inEffect
  BY DEF Within
<1>1. c \in DOMAIN D /\ D[c].trigger # 0 /\ E[c].trigger = D[c].trigger
  BY DEF Keeps
<1>2. D[c].trigger \in DOMAIN D /\ D[D[c].trigger].inEffect
  <2>1. CASE D[c].inEffect
    BY <1>1, <2>1 DEF Within
  <2>2. CASE ~D[c].inEffect
    BY <1>1, <2>2
  <2> QED BY <2>1, <2>2
<1> QED BY <1>1, <1>2 DEF Keeps

LEMMA TouchedRecords ==
  ASSUME Types, NEW id \in Ids, NEW E, Touched(downtimes, E, id)
  PROVE  /\ DOMAIN E = Ids
         /\ \A i \in DOMAIN E : E[i] \in Record(i) /\ E[i].start < E[i].end
<1>1. DOMAIN E = Ids
  BY DEF Touched, Ids
<1>2. ASSUME NEW i \in Ids PROVE E[i] \in Record(i) /\ E[i].start < E[i].end
  <2>1. CASE i = id
    BY <2>1 DEF Touched, Types
  <2>2. CASE i # id
    <3>1. E[i] = downtimes[i]
      BY <2>2 DEF Touched, Ids
    <3> QED BY <3>1 DEF Types
  <2> QED BY <2>1, <2>2
<1> QED BY <1>1, <1>2

\* handle() up to its loop, for the downtime id.
Doing(id) ==
  /\ Top("handle") /\ id = Head(stack).id
  /\ UNCHANGED <<now, state, lastId, up, checks, restarts>>

DoesWait(id) == Doing(id) /\ Waits(downtimes[id]) /\ Wait(id, downtimes[id])

DoesStop(id) == Doing(id) /\ downtimes[id].inEffect /\ BeginStop(id, downtimes[id])

DoesStart(id) == /\ Doing(id) /\ ~Waits(downtimes[id]) /\ ~downtimes[id].inEffect
                 /\ Start(id, downtimes[id])

LEMMA HandleCases ==
  ASSUME Handle
  PROVE  \E id : DoesWait(id) \/ DoesStop(id) \/ DoesStart(id)
<1> DEFINE id == Head(stack).id
<1>1. Doing(id)
  BY DEF Handle, Doing
<1>2. CASE Waits(downtimes[id])
  <2>1. Wait(id, downtimes[id])
    BY <1>2 DEF Handle
  <2> QED BY <1>1, <1>2, <2>1 DEF DoesWait
<1>3. CASE ~Waits(downtimes[id]) /\ downtimes[id].inEffect
  <2>1. BeginStop(id, downtimes[id])
    BY <1>3 DEF Handle
  <2> QED BY <1>1, <1>3, <2>1 DEF DoesStop
<1>4. CASE ~Waits(downtimes[id]) /\ ~downtimes[id].inEffect
  <2>1. Start(id, downtimes[id])
    BY <1>4 DEF Handle
  <2> QED BY <1>1, <1>4, <2>1 DEF DoesStart
<1> QED BY <1>2, <1>3, <1>4

LEMMA DoingFacts ==
  ASSUME Core, NEW id, Doing(id)
  PROVE  /\ id \in Ids /\ Mentions(Head(stack)) = {id}
         /\ downtimes[id].trigger # 0 =>
              downtimes[id].trigger \in Ids /\ downtimes[downtimes[id].trigger].inEffect
         /\ \A kinds : Among(stack, kinds, id) <=> "handle" \in kinds
         /\ \A kinds : ~Among(Tail(stack), kinds, id)
         /\ \A kinds, i : i # id => (Among(stack, kinds, i) <=> Among(Tail(stack), kinds, i))
<1>1. Top("handle") /\ id = Head(stack).id
  BY DEF Doing
<1>2. /\ Head(stack) \in Frames(Ids) /\ Head(stack).op = "handle"
      /\ Fits(downtimes, Head(stack), Tail(stack))
      /\ \A kinds, i : Among(stack, kinds, i) <=>
              ("handle" \in kinds /\ i \in Mentions(Head(stack))) \/ Among(Tail(stack), kinds, i)
      /\ \A kinds, x : x \in Mentions(Head(stack)) => ~Among(Tail(stack), kinds, x)
  BY <1>1, TopFacts
<1>3. id \in Ids /\ Mentions(Head(stack)) = {id}
  BY <1>1, <1>2, FrameFields
<1>4. downtimes[id].trigger # 0 =>
        downtimes[id].trigger \in Ids /\ downtimes[downtimes[id].trigger].inEffect
  BY <1>2, <1>3 DEF Fits, Sound, Ids
<1> QED BY <1>2, <1>3, <1>4

-----------------------------------------------------------------------------
(* The core of the invariant, and what each step does to the calls *)

LEMMA WaitCore ==
  ASSUME Core, NEW id, DoesWait(id)
  PROVE  /\ Core' /\ Touched(downtimes, downtimes', id) /\ downtimes'[id].incremented
         /\ downtimes'[id].inEffect = downtimes[id].inEffect
         /\ Expire(downtimes[id].end + 1) \in Event
         /\ \A kinds, i : Among(stack', kinds, i) <=> i # id /\ Among(stack, kinds, i)
<1>1. /\ Doing(id) /\ events' = AddEvent(events, Expire(downtimes[id].end + 1))
      /\ downtimes' = [downtimes EXCEPT ![id].incremented = TRUE] /\ stack' = Tail(stack)
      /\ depth' = depth /\ pending' = [pending EXCEPT ![downtimes[id].obj] = @ + 1]
      /\ UNCHANGED <<now, state, lastId, up, checks, restarts>>
  BY DEF DoesWait, Wait, Doing
<1>2. /\ id \in Ids /\ Top("handle")
      /\ \A kinds : ~Among(Tail(stack), kinds, id)
      /\ \A kinds, i : i # id => (Among(stack, kinds, i) <=> Among(Tail(stack), kinds, i))
      /\ \A kinds : Among(stack, kinds, id) <=> "handle" \in kinds
  BY <1>1, DoingFacts DEF Doing
<1>3. Tail(stack) \in Seq(Frames(Ids)) /\ Disciplined(downtimes, Tail(stack))
  BY <1>2, TopFacts
<1>4. Types /\ Within(downtimes, stack) /\ Known(downtimes, events, lastId, now)
  BY DEF Core
<1>5. downtimes[id] \in Record(id) /\ downtimes[id].end \in Nat /\ downtimes[id].obj \in Object
  BY <1>2, <1>4, RecordFields
<1>6. /\ Touched(downtimes, downtimes', id) /\ downtimes'[id].incremented
      /\ downtimes'[id].inEffect = downtimes[id].inEffect
  <2>1. id \in DOMAIN downtimes
    BY <1>2 DEF Ids
  <2>2. downtimes' = WithIncremented(downtimes, id)
    BY <1>1 DEF WithIncremented
  <2> QED BY <1>5, <2>1, <2>2, TouchedIncremented
<1>7. Keeps(downtimes, downtimes')
  BY <1>2, <1>6, TouchedKeeps DEF Ids
<1>8. Ids' = Ids /\ \A i \in Ids' : downtimes'[i] \in Record(i) /\ downtimes'[i].start < downtimes'[i].end
  BY <1>2, <1>4, <1>6, TouchedRecords DEF Ids
<1>9. Expire(downtimes[id].end + 1) \in Event /\ Expire(downtimes[id].end + 1).kind = "expire"
  BY <1>5, ExpireFields
<1>10. events \in Seq(Event) /\ Ordered(events)
  BY <1>4 DEF Types
<1>11. events' \in Seq(Event) /\ Ordered(events')
  BY <1>1, <1>9, <1>10, AddEventFacts
<1>12. Types'
  <2>1. pending' \in [Object -> Int]
    BY <1>1, <1>4, <1>5 DEF Types
  <2>2. stack' \in Seq(Frames(Ids'))
    BY <1>1, <1>3, <1>8
  <2> QED BY <1>1, <1>4, <1>8, <1>11, <2>1, <2>2 DEF Types
<1>13. Disciplined(downtimes', stack')
  <2>1. Tail(stack) \in Seq(Frames(DOMAIN downtimes'))
    BY <1>3, <1>8 DEF Ids
  <2> QED BY <1>1, <1>3, <1>7, <2>1, DisciplinedKept
<1>14. \A kinds, i : Among(stack', kinds, i) <=> i # id /\ Among(stack, kinds, i)
  BY <1>1, <1>2
<1>15. Within(downtimes', stack')
  <2>1. ~Among(stack, {"cancel"}, id)
    BY <1>2
  <2>2. \A c \in DOMAIN downtimes' : Among(stack, {"cancel"}, c) => Among(stack', {"cancel"}, c)
    BY <1>14, <2>1
  <2>3. \A c \in DOMAIN downtimes' : downtimes'[c].inEffect => downtimes[c].inEffect
    BY <1>6 DEF Touched
  <2> QED BY <1>4, <1>7, <2>2, <2>3, WithinStep
<1>16. Known(downtimes', events', lastId', now')
  <2>1. \A k \in DOMAIN events' : events'[k] = Expire(downtimes[id].end + 1)
                                    \/ \E j \in DOMAIN events : events'[k] = events[j]
    BY <1>1, <1>9, <1>10, Added
  <2>2. Shrinks(downtimes, downtimes')
    BY <1>7 DEF Keeps, Shrinks
  <2>3. lastId \in Nat /\ now \in Nat /\ now <= now
    BY <1>4, DowntimeAssumption DEF Types
  <2>4. Known(downtimes', events', lastId, now)
    BY <1>4, <1>9, <1>10, <1>11, <2>1, <2>2, <2>3, KnownStep
  <2> QED BY <1>1, <2>4
<1> QED BY <1>6, <1>9, <1>12, <1>13, <1>14, <1>15, <1>16 DEF Core

LEMMA StopCore ==
  ASSUME Core, NEW id, DoesStop(id)
  PROVE  /\ Core' /\ downtimes' = downtimes /\ events' = events
         /\ \A kinds : Among(stack', kinds, id) <=> "stop" \in kinds
         /\ \A kinds, i : i # id => (Among(stack', kinds, i) <=> Among(stack, kinds, i))
<1>1. /\ Doing(id) /\ downtimes[id].inEffect
      /\ stack' = <<Stop(id, 1)>> \o Tail(stack) /\ pending' = Uncounted(downtimes[id])
      /\ depth' = [depth EXCEPT ![downtimes[id].obj] = @ - 1]
      /\ UNCHANGED <<downtimes, events, now, state, lastId, up, checks, restarts>>
  BY DEF DoesStop, BeginStop, Doing
<1>2. /\ id \in Ids /\ Top("handle") /\ Mentions(Head(stack)) = {id}
      /\ \A kinds : ~Among(Tail(stack), kinds, id)
      /\ \A kinds, i : i # id => (Among(stack, kinds, i) <=> Among(Tail(stack), kinds, i))
      /\ \A kinds : Among(stack, kinds, id) <=> "handle" \in kinds
  BY <1>1, DoingFacts DEF Doing
<1>3. /\ Tail(stack) \in Seq(Frames(Ids)) /\ Disciplined(downtimes, Tail(stack))
      /\ Fits(downtimes, Head(stack), Tail(stack)) /\ Head(stack).op = "handle"
  BY <1>2, TopFacts
<1>4. Types /\ Within(downtimes, stack) /\ Known(downtimes, events, lastId, now)
  BY DEF Core
<1> DEFINE g == Stop(id, 1)
<1>5. g \in Frames(Ids) /\ g.op = "stop" /\ g.id = id /\ Mentions(g) = {id}
  BY <1>2, StopFields
<1> HIDE DEF g
<1>6. Fits(downtimes, g, Tail(stack))
  <2>1. Sound(downtimes, g)
    BY <1>1, <1>2, <1>3, <1>5 DEF Fits, Sound
  <2>2. \A j \in DOMAIN Tail(stack) : On(downtimes, g, Tail(stack)[j])
    BY <1>2, <1>3, <1>5 DEF Fits, On
  <2> QED BY <2>1, <2>2 DEF Fits
<1> DEFINE t == Tail(stack)
<1> HIDE DEF t
<1>7. /\ stack' = Cons(g, t) /\ stack' \in Seq(Frames(Ids)) /\ Disciplined(downtimes, stack')
      /\ \A kinds, i : Among(stack', kinds, i) <=>
              (g.op \in kinds /\ i \in Mentions(g)) \/ Among(t, kinds, i)
  <2>1. stack' = <<g>> \o t
    BY <1>1 DEF g, t
  <2>2. /\ t \in Seq(Frames(DOMAIN downtimes)) /\ Disciplined(downtimes, t)
        /\ g \in Frames(DOMAIN downtimes) /\ Fits(downtimes, g, t)
    BY <1>3, <1>5, <1>6 DEF Ids, t
  <2>3. /\ <<g>> \o t = Cons(g, t) /\ Cons(g, t) \in Seq(Frames(DOMAIN downtimes))
        /\ Disciplined(downtimes, Cons(g, t))
        /\ \A kinds, i : Among(Cons(g, t), kinds, i) <=>
              (g.op \in kinds /\ i \in Mentions(g)) \/ Among(t, kinds, i)
    BY <2>2, PushOne
  <2> QED BY <2>1, <2>3 DEF Ids
<1>8. \A kinds : Among(stack', kinds, id) <=> "stop" \in kinds
  BY <1>2, <1>5, <1>7 DEF t
<1>9. \A kinds, i : i # id => (Among(stack', kinds, i) <=> Among(stack, kinds, i))
  BY <1>2, <1>5, <1>7 DEF t
<1>10. downtimes[id].obj \in Object
  BY <1>2, <1>4, RecordFields
<1>11. Types'
  <2>1. depth' \in [Object -> Int]
    BY <1>1, <1>4, <1>10 DEF Types
  <2>2. pending' \in [Object -> Int]
    BY <1>1, <1>4, <1>10 DEF Types, Uncounted
  <2>3. stack' \in Seq(Frames(Ids')) /\ Ids' = Ids
    BY <1>1, <1>7 DEF Ids
  <2> QED BY <1>1, <1>4, <2>1, <2>2, <2>3 DEF Types
<1>12. Within(downtimes', stack')
  <2>1. \A c : Among(stack, {"cancel"}, c) => Among(stack', {"cancel"}, c)
    BY <1>2, <1>9
  <2> QED BY <1>1, <1>4, <2>1 DEF Within
<1>13. Disciplined(downtimes', stack') /\ Known(downtimes', events', lastId', now')
  BY <1>1, <1>4, <1>7
<1> QED BY <1>1, <1>8, <1>9, <1>11, <1>12, <1>13 DEF Core

\* A call for downtimes that id triggers fits where a call for id does.
LEMMA ChildrenOn ==
  ASSUME Types, NEW id \in Ids, NEW f \in Frames(Ids), Mentions(f) = {id},
         NEW t \in Seq(Frames(Ids)), \A j \in DOMAIN t : On(downtimes, f, t[j]),
         NEW g \in Frames(Ids), g.op # "cancel", Mentions(g) \subseteq Children(id)
  PROVE  \A j \in DOMAIN t : On(downtimes, g, t[j])
<1> SUFFICES ASSUME NEW j \in DOMAIN t PROVE On(downtimes, g, t[j])
  OBVIOUS
<1>1. t[j] \in Frames(Ids)
  BY ElementOfSeq, LenProperties
<1>2. \A y \in Mentions(t[j]) : y \in Ids /\ downtimes[y].trigger \in Nat
  BY <1>1, FrameFields, RecordFields
<1>3. t[j].op = "stop" => t[j].id \in Nat
  BY <1>1, FrameFields, RecordFields
<1>4. id \in Nat /\ downtimes[id].trigger \in Nat /\ downtimes[id].trigger < id
  BY RecordFields
<1>5. \A x \in Mentions(g) : downtimes[x].trigger = id
  BY DEF Children
<1>6. On(downtimes, f, t[j])
  OBVIOUS
<1>7. \A y \in Mentions(t[j]) : downtimes[y].trigger <= downtimes[id].trigger
  BY <1>6 DEF On
<1>8. t[j].op = "stop" => t[j].id <= downtimes[id].trigger
  BY <1>6 DEF On
<1>9. ASSUME NEW x \in Mentions(g), NEW y \in Mentions(t[j])
      PROVE  x # y /\ downtimes[y].trigger <= downtimes[x].trigger
  BY <1>2, <1>4, <1>5, <1>7
<1>10. ASSUME t[j].op = "stop", NEW x \in Mentions(g) PROVE t[j].id <= downtimes[x].trigger
  BY <1>3, <1>4, <1>5, <1>8, <1>10
<1> QED BY <1>6, <1>9, <1>10 DEF On

LEMMA StartCore ==
  ASSUME Core, NEW id, DoesStart(id)
  PROVE  /\ Core' /\ Touched(downtimes, downtimes', id) /\ downtimes'[id].inEffect
         /\ downtimes'[id].incremented = downtimes[id].incremented
         /\ EndTime(downtimes[id]) \in Nat /\ Scheduled(id, EndTime(downtimes[id])) \in Event
         /\ \A kinds : ~Among(stack', kinds, id)
         /\ \A kinds, i : i # id =>
              (Among(stack', kinds, i) <=>
                 ("each" \in kinds /\ i \in Children(id)) \/ Among(stack, kinds, i))
<1> DEFINE e == Scheduled(id, EndTime(downtimes[id]))
           C == Children(id)
           t == Tail(stack)
           f == Head(stack)
<1>1. /\ Doing(id) /\ events' = AddEvent(events, e)
      /\ downtimes' = [downtimes EXCEPT ![id].inEffect = TRUE]
      /\ stack' = (IF C = {} THEN <<>> ELSE <<Each(C)>>) \o t
      /\ pending' = pending /\ depth' = [depth EXCEPT ![downtimes[id].obj] = @ + 1]
      /\ UNCHANGED <<now, state, lastId, up, checks, restarts>>
  BY DEF DoesStart, Start, Doing
<1> HIDE DEF e
<1>2. /\ id \in Ids /\ Top("handle") /\ Mentions(f) = {id}
      /\ downtimes[id].trigger # 0 =>
           downtimes[id].trigger \in Ids /\ downtimes[downtimes[id].trigger].inEffect
      /\ \A kinds : ~Among(t, kinds, id)
      /\ \A kinds, i : i # id => (Among(stack, kinds, i) <=> Among(t, kinds, i))
      /\ \A kinds : Among(stack, kinds, id) <=> "handle" \in kinds
  BY <1>1, DoingFacts DEF Doing
<1>3. /\ t \in Seq(Frames(Ids)) /\ Disciplined(downtimes, t) /\ f \in Frames(Ids)
      /\ Fits(downtimes, f, t)
  BY <1>2, TopFacts
<1>4. Types /\ Within(downtimes, stack) /\ Known(downtimes, events, lastId, now)
  BY DEF Core
<1>5. /\ downtimes[id] \in Record(id) /\ downtimes[id].end \in Nat /\ downtimes[id].obj \in Object
      /\ downtimes[id].duration \in Nat /\ id \in Nat \ {0} /\ id <= lastId
  BY <1>2, <1>4, RecordFields
<1>n. lastId \in Nat /\ now \in Nat /\ now <= now
  BY <1>4, DowntimeAssumption DEF Types
<1>6. Touched(downtimes, downtimes', id) /\ downtimes'[id].inEffect
        /\ downtimes'[id].incremented = downtimes[id].incremented
  <2>1. id \in DOMAIN downtimes
    BY <1>2 DEF Ids
  <2>2. downtimes' = WithInEffect(downtimes, id)
    BY <1>1 DEF WithInEffect
  <2> QED BY <1>5, <2>1, <2>2, TouchedInEffect
<1>7. Keeps(downtimes, downtimes')
  BY <1>2, <1>6, TouchedKeeps DEF Ids
<1>8. Ids' = Ids /\ \A i \in Ids' : downtimes'[i] \in Record(i) /\ downtimes'[i].start < downtimes'[i].end
  BY <1>2, <1>4, <1>6, TouchedRecords DEF Ids
<1>9. EndTime(downtimes[id]) \in Nat
  BY <1>5, <1>n DEF EndTime
<1>e. e \in Event /\ e.id = id
  BY <1>5, <1>9, ScheduledFields DEF e
<1>10. events \in Seq(Event) /\ Ordered(events)
  BY <1>4 DEF Types
<1>11. events' \in Seq(Event) /\ Ordered(events')
  BY <1>1, <1>e, <1>10, AddEventFacts
<1> DEFINE g == Each(C)
<1>12. C \subseteq Ids /\ g \in Frames(Ids) /\ g.op = "each" /\ Mentions(g) = C
  <2>1. C \in SUBSET Ids
    BY DEF Children
  <2> QED BY <2>1, EachFields
<1>13. \A c \in C : c # id /\ downtimes[c].trigger = id
  BY <1>4, <1>12, RecordFields DEF Children
<1> HIDE DEF f, g, t, C
<1>14. \A j \in DOMAIN t : On(downtimes, g, t[j])
  <2>1. \A j \in DOMAIN t : On(downtimes, f, t[j])
    BY <1>3 DEF Fits
  <2>2. Mentions(g) \subseteq Children(id) /\ g.op # "cancel"
    BY <1>12 DEF C
  <2> QED BY <1>2, <1>3, <1>4, <1>12, <2>1, <2>2, ChildrenOn
<1>15. t \in Seq(Frames(DOMAIN downtimes')) /\ Disciplined(downtimes', t)
  <2>1. t \in Seq(Frames(DOMAIN downtimes'))
    BY <1>3, <1>8 DEF Ids
  <2> QED BY <1>3, <1>7, <2>1, DisciplinedKept
<1>16. g \in Frames(DOMAIN downtimes') /\ Fits(downtimes', g, t)
  <2>1. g \in Frames(DOMAIN downtimes')
    BY <1>8, <1>12 DEF Ids
  <2>2. \A j \in DOMAIN t : On(downtimes', g, t[j])
    BY <1>7, <1>14, <1>15, <2>1, OnKept
  <2>3. ASSUME NEW x \in C PROVE downtimes'[x].trigger = id
    BY <1>12, <1>13, <1>6 DEF Touched, Ids
  <2>4. id \in DOMAIN downtimes' /\ downtimes'[id].inEffect
    BY <1>2, <1>6, <1>8 DEF Ids
  <2>5. Sound(downtimes', g)
    BY <1>12, <2>3, <2>4 DEF Sound
  <2> QED BY <2>1, <2>2, <2>5 DEF Fits
<1>17. /\ stack' \in Seq(Frames(Ids')) /\ Disciplined(downtimes', stack')
       /\ \A kinds, i : Among(stack', kinds, i) <=>
              ("each" \in kinds /\ i \in C) \/ Among(t, kinds, i)
  <2>1. CASE C = {}
    <3>1. stack' = t
      BY <1>1, <1>3, <2>1, ConcatEmptySeq
    <3> QED BY <1>15, <2>1, <3>1 DEF Ids
  <2>2. CASE C # {}
    <3>1. stack' = <<g>> \o t
      BY <1>1, <2>2 DEF g
    <3>2. /\ <<g>> \o t = Cons(g, t) /\ Cons(g, t) \in Seq(Frames(DOMAIN downtimes'))
          /\ Disciplined(downtimes', Cons(g, t))
          /\ \A kinds, i : Among(Cons(g, t), kinds, i) <=>
              (g.op \in kinds /\ i \in Mentions(g)) \/ Among(t, kinds, i)
      BY <1>15, <1>16, PushOne
    <3> QED BY <1>12, <3>1, <3>2 DEF Ids
  <2> QED BY <2>1, <2>2
<1>18. /\ \A kinds : ~Among(stack', kinds, id)
       /\ \A kinds, i : i # id =>
              (Among(stack', kinds, i) <=> ("each" \in kinds /\ i \in C) \/ Among(stack, kinds, i))
  BY <1>2, <1>13, <1>17
<1>19. Types'
  <2>1. depth' \in [Object -> Int]
    BY <1>1, <1>4, <1>5 DEF Types
  <2> QED BY <1>1, <1>4, <1>8, <1>11, <1>17, <2>1 DEF Types
<1>20. Within(downtimes', stack')
  <2>1. ~Among(stack, {"cancel"}, id)
    BY <1>2
  <2>2. \A c \in DOMAIN downtimes' : Among(stack, {"cancel"}, c) => Among(stack', {"cancel"}, c)
    BY <1>18, <2>1
  <2>3. \A c \in DOMAIN downtimes' :
          downtimes'[c].inEffect /\ ~downtimes[c].inEffect /\ downtimes[c].trigger # 0 =>
            downtimes[c].trigger \in DOMAIN downtimes /\ downtimes[downtimes[c].trigger].inEffect
    BY <1>2, <1>6 DEF Touched, Ids
  <2> QED BY <1>4, <1>7, <2>2, <2>3, WithinStep
<1>21. Known(downtimes', events', lastId', now')
  <2>1. \A k \in DOMAIN events' : events'[k] = e \/ \E j \in DOMAIN events : events'[k] = events[j]
    BY <1>1, <1>e, <1>10, Added
  <2>2. Shrinks(downtimes, downtimes')
    BY <1>7 DEF Keeps, Shrinks
  <2>3. e.id <= lastId /\ downtimes'[e.id].inEffect
    BY <1>5, <1>6, <1>e
  <2>4. Known(downtimes', events', lastId, now)
    BY <1>4, <1>e, <1>10, <1>11, <1>n, <2>1, <2>2, <2>3, KnownStep
  <2> QED BY <1>1, <2>4
<1> QED BY <1>6, <1>9, <1>e, <1>17, <1>18, <1>19, <1>20, <1>21 DEF Core, C, e

\* The calls about every downtime are the same.
SameCalls(s, u) == \A kinds, i : Among(u, kinds, i) <=> Among(s, kinds, i)

LEMMA SameCore ==
  ASSUME Core, UNCHANGED <<now, state, depth, pending, downtimes, lastId, events, up, checks, restarts>>,
         stack' \in Seq(Frames(Ids)), Disciplined(downtimes, stack'),
         \A c : Among(stack, {"cancel"}, c) => Among(stack', {"cancel"}, c)
  PROVE  Core'
<1>1. Ids' = Ids
  BY DEF Ids
<1>2. Types'
  BY <1>1 DEF Core, Types
<1>3. Within(downtimes', stack')
  BY DEF Core, Within
<1>4. Disciplined(downtimes', stack') /\ Known(downtimes', events', lastId', now')
  BY DEF Core
<1> QED BY <1>2, <1>3, <1>4 DEF Core

LEMMA EachCore ==
  ASSUME Core, HandleEach
  PROVE  /\ Core' /\ downtimes' = downtimes /\ events' = events
         /\ UNCHANGED <<now, state, depth, pending>>
         /\ \/ SameCalls(stack, stack')
            \/ \E c \in Ids :
                 /\ \A kinds : Among(stack, kinds, c) <=> "each" \in kinds
                 /\ \A kinds : Among(stack', kinds, c) <=> "handle" \in kinds
                 /\ \A kinds, i : i # c => (Among(stack', kinds, i) <=> Among(stack, kinds, i))
<1> DEFINE f == Head(stack)
           t == Tail(stack)
           X == f.ids
<1>1. /\ Top("each")
      /\ stack' = IF X = {} THEN t ELSE <<Call(First(X)), Each(X \ {First(X)})>> \o t
      /\ UNCHANGED <<now, state, depth, pending, downtimes, lastId, events, up, checks, restarts>>
  BY DEF HandleEach
<1>2. /\ f \in Frames(Ids) /\ t \in Seq(Frames(Ids)) /\ f.op = "each"
      /\ Disciplined(downtimes, t) /\ Fits(downtimes, f, t)
      /\ \A kinds, i : Among(stack, kinds, i) <=>
              ("each" \in kinds /\ i \in Mentions(f)) \/ Among(t, kinds, i)
      /\ \A kinds, x : x \in Mentions(f) => ~Among(t, kinds, x)
  BY <1>1, TopFacts
<1>3. X \in SUBSET Ids /\ Mentions(f) = X
  BY <1>2, FrameFields
<1>4. Types
  BY DEF Core
<1> HIDE DEF f, t, X
<1>5. CASE X = {}
  <2>1. stack' = t
    BY <1>1, <1>5
  <2>2. SameCalls(stack, stack')
    BY <1>2, <1>3, <1>5, <2>1 DEF SameCalls
  <2>3. \A c : Among(stack, {"cancel"}, c) => Among(stack', {"cancel"}, c)
    BY <2>2 DEF SameCalls
  <2>4. Core'
    BY <1>1, <1>2, <2>1, <2>3, SameCore
  <2> QED BY <1>1, <2>2, <2>4
<1>6. CASE X # {}
  <2> DEFINE c == First(X)
             g == Call(c)
             h == Each(X \ {c})
  <2>1. c \in X /\ c \in Ids
    BY <1>3, <1>4, <1>6, FirstFacts
  <2>2. stack' = <<g, h>> \o t
    BY <1>1, <1>6
  <2> HIDE DEF c
  <2>3. g \in Frames(Ids) /\ g.op = "handle" /\ Mentions(g) = {c}
    BY <2>1, CallFields
  <2>4. h \in Frames(Ids) /\ h.op = "each" /\ Mentions(h) = X \ {c}
    <3>1. X \ {c} \in SUBSET Ids
      BY <1>3
    <3> QED BY <3>1, EachFields
  <2> HIDE DEF g, h
  <2>5. Sound(downtimes, f) /\ \A j \in DOMAIN t : On(downtimes, f, t[j])
    BY <1>2 DEF Fits
  <2>6. Fits(downtimes, h, t)
    <3>1. Sound(downtimes, h)
      BY <1>2, <1>3, <2>4, <2>5 DEF Sound
    <3>2. \A j \in DOMAIN t : On(downtimes, h, t[j])
      BY <1>3, <2>4, <2>5 DEF On
    <3> QED BY <3>1, <3>2 DEF Fits
  <2>7. Sound(downtimes, g)
    BY <1>2, <1>3, <2>1, <2>3, <2>5 DEF Sound
  <2>8. \A j \in DOMAIN t : On(downtimes, g, t[j])
    BY <1>3, <2>1, <2>3, <2>5 DEF On
  <2>9. On(downtimes, g, h)
    <3>1. \A y \in X \ {c} : y \in Ids /\ downtimes[y].trigger \in Nat
      BY <1>3, <1>4, RecordFields
    <3>2. \A y \in X \ {c} : downtimes[y].trigger = downtimes[c].trigger
      BY <1>2, <1>3, <2>1, <2>5 DEF Sound
    <3> QED BY <2>3, <2>4, <3>1, <3>2 DEF On
  <2>10. /\ stack' \in Seq(Frames(Ids)) /\ Disciplined(downtimes, stack')
         /\ \A kinds, i : Among(stack', kinds, i) <=>
              \/ "handle" \in kinds /\ i = c
              \/ "each" \in kinds /\ i \in X \ {c}
              \/ Among(t, kinds, i)
    <3>1. /\ t \in Seq(Frames(DOMAIN downtimes)) /\ g \in Frames(DOMAIN downtimes)
          /\ h \in Frames(DOMAIN downtimes)
      BY <1>2, <2>3, <2>4 DEF Ids
    <3>2. /\ <<g, h>> \o t = Cons(g, Cons(h, t))
          /\ Cons(g, Cons(h, t)) \in Seq(Frames(DOMAIN downtimes))
          /\ Disciplined(downtimes, Cons(g, Cons(h, t)))
          /\ \A kinds, i : Among(Cons(g, Cons(h, t)), kinds, i) <=>
              \/ g.op \in kinds /\ i \in Mentions(g)
              \/ h.op \in kinds /\ i \in Mentions(h)
              \/ Among(t, kinds, i)
      BY <1>2, <2>6, <2>7, <2>8, <2>9, <3>1, PushTwo
    <3> QED BY <2>2, <2>3, <2>4, <3>2 DEF Ids
  <2>11. \A kinds : ~Among(t, kinds, c)
    BY <1>2, <1>3, <2>1
  <2>12. /\ \A kinds : Among(stack, kinds, c) <=> "each" \in kinds
         /\ \A kinds : Among(stack', kinds, c) <=> "handle" \in kinds
         /\ \A kinds, i : i # c => (Among(stack', kinds, i) <=> Among(stack, kinds, i))
    BY <1>2, <1>3, <2>1, <2>10, <2>11
  <2>13. \A i : Among(stack, {"cancel"}, i) => Among(stack', {"cancel"}, i)
    BY <2>12
  <2>14. Core'
    BY <1>1, <2>10, <2>13, SameCore
  <2> QED BY <1>1, <2>1, <2>12, <2>14
<1> QED BY <1>5, <1>6

LEMMA StopStepCore ==
  ASSUME Core, HandleStop
  PROVE  /\ Core' /\ events' = events /\ UNCHANGED <<now, state, depth, pending>>
         /\ \/ downtimes' = downtimes /\ SameCalls(stack, stack')
            \/ /\ downtimes' = downtimes
               /\ \E c \in Ids :
                    /\ downtimes[c].trigger # 0 /\ \A kinds : ~Among(stack, kinds, c)
                    /\ \A kinds : Among(stack', kinds, c) <=> "handle" \in kinds
                    /\ \A kinds, i : i # c => (Among(stack', kinds, i) <=> Among(stack, kinds, i))
            \/ \E id \in Ids :
                 /\ downtimes' = [c \in Ids \ {id} |-> downtimes[c]] /\ downtimes[id].inEffect
                 /\ \A kinds : Among(stack, kinds, id) <=> "stop" \in kinds
                 /\ \A kinds : ~Among(stack', kinds, id)
                 /\ \A kinds, i : i # id => (Among(stack', kinds, i) <=> Among(stack, kinds, i))
<1> DEFINE f == Head(stack)
           t == Tail(stack)
           id == f.id
           C == Children(id)
<1>1. /\ Top("stop") /\ StopStep(f)
      /\ UNCHANGED <<now, state, depth, pending, lastId, events, up, checks, restarts>>
  BY DEF HandleStop
<1>2. /\ f \in Frames(Ids) /\ t \in Seq(Frames(Ids)) /\ f.op = "stop"
      /\ Disciplined(downtimes, t) /\ Fits(downtimes, f, t)
      /\ \A kinds, i : Among(stack, kinds, i) <=>
              ("stop" \in kinds /\ i \in Mentions(f)) \/ Among(t, kinds, i)
      /\ \A kinds, x : x \in Mentions(f) => ~Among(t, kinds, x)
  BY <1>1, TopFacts
<1>3. id \in Ids /\ Mentions(f) = {id} /\ f.scan \in {1, 2}
  BY <1>2, FrameFields
<1>4. Types /\ Within(downtimes, stack) /\ Known(downtimes, events, lastId, now)
  BY DEF Core
<1>5. C \in SUBSET Ids
  BY DEF Children
<1>6. \/ C # {} /\ stack' = <<Call(First(C)), Stop(id, 3 - f.scan)>> \o t /\ downtimes' = downtimes
      \/ C = {} /\ stack' = <<Stop(id, 2)>> \o t /\ downtimes' = downtimes
      \/ C = {} /\ stack' = t /\ downtimes' = [c \in Ids \ {id} |-> downtimes[c]]
  BY <1>1 DEF StopStep
<1>c. \A c \in C : c \in Ids /\ c # id /\ downtimes[c].trigger = id
  BY <1>4, <1>5, RecordFields DEF Children
<1>s. Sound(downtimes, f) /\ \A j \in DOMAIN t : On(downtimes, f, t[j])
  BY <1>2 DEF Fits
<1>i. id \in Nat \ {0} /\ downtimes[id].trigger \in Nat /\ downtimes[id].trigger < id
  BY <1>3, <1>4, RecordFields
<1>e. downtimes[id].inEffect
  BY <1>2, <1>s DEF Sound
<1>7. ASSUME NEW h \in Frames(Ids), h.op = "stop", h.id = id, Mentions(h) = {id}
      PROVE  Fits(downtimes, h, t)
  <2>1. Sound(downtimes, h)
    BY <1>2, <1>3, <1>7, <1>s DEF Sound
  <2>2. \A j \in DOMAIN t : On(downtimes, h, t[j])
    BY <1>3, <1>7, <1>s DEF On
  <2> QED BY <2>1, <2>2 DEF Fits
<1> HIDE DEF f, t, C, id
<1>8. CASE C # {} /\ stack' = <<Call(First(C)), Stop(id, 3 - f.scan)>> \o t /\ downtimes' = downtimes
  <2> DEFINE c == First(C)
             g == Call(c)
             h == Stop(id, 3 - f.scan)
  <2>1. c \in C
    BY <1>4, <1>5, <1>8, FirstFacts
  <2>2. stack' = <<g, h>> \o t
    BY <1>8
  <2> HIDE DEF c
  <2>3. g \in Frames(Ids) /\ g.op = "handle" /\ Mentions(g) = {c}
    BY <1>c, <2>1, CallFields
  <2>4. h \in Frames(Ids) /\ h.op = "stop" /\ h.id = id /\ Mentions(h) = {id}
    <3>1. 3 - f.scan \in {1, 2}
      BY <1>3
    <3> QED BY <1>3, <3>1, StopFields
  <2> HIDE DEF g, h
  <2>5. Fits(downtimes, h, t)
    BY <1>7, <2>4
  <2>6. Sound(downtimes, g)
    BY <1>3, <1>c, <1>e, <2>1, <2>3 DEF Sound, Ids
  <2>7. \A j \in DOMAIN t : On(downtimes, g, t[j])
    <3>1. Mentions(g) \subseteq Children(id) /\ g.op # "cancel"
      BY <2>1, <2>3 DEF C
    <3> QED BY <1>2, <1>3, <1>4, <1>s, <2>3, <3>1, ChildrenOn
  <2>8. On(downtimes, g, h)
    BY <1>c, <1>i, <2>1, <2>3, <2>4 DEF On
  <2>9. /\ stack' \in Seq(Frames(Ids)) /\ Disciplined(downtimes, stack')
        /\ \A kinds, i : Among(stack', kinds, i) <=>
              \/ "handle" \in kinds /\ i = c
              \/ "stop" \in kinds /\ i = id
              \/ Among(t, kinds, i)
    <3>1. /\ t \in Seq(Frames(DOMAIN downtimes)) /\ g \in Frames(DOMAIN downtimes)
          /\ h \in Frames(DOMAIN downtimes)
      BY <1>2, <2>3, <2>4 DEF Ids
    <3>2. /\ <<g, h>> \o t = Cons(g, Cons(h, t))
          /\ Cons(g, Cons(h, t)) \in Seq(Frames(DOMAIN downtimes))
          /\ Disciplined(downtimes, Cons(g, Cons(h, t)))
          /\ \A kinds, i : Among(Cons(g, Cons(h, t)), kinds, i) <=>
              \/ g.op \in kinds /\ i \in Mentions(g)
              \/ h.op \in kinds /\ i \in Mentions(h)
              \/ Among(t, kinds, i)
      BY <1>2, <2>5, <2>6, <2>7, <2>8, <3>1, PushTwo
    <3> QED BY <2>2, <2>3, <2>4, <3>2 DEF Ids
  <2>10. \A kinds : ~Among(t, kinds, c)
    <3>1. Fits(downtimes, g, t) /\ c \in Mentions(g)
      BY <2>3, <2>6, <2>7 DEF Fits
    <3> QED BY <3>1, FitsApart
  <2>11. /\ \A kinds : ~Among(stack, kinds, c)
         /\ \A kinds : Among(stack', kinds, c) <=> "handle" \in kinds
         /\ \A kinds, i : i # c => (Among(stack', kinds, i) <=> Among(stack, kinds, i))
    BY <1>2, <1>3, <1>c, <2>1, <2>9, <2>10
  <2>12. \A i : Among(stack, {"cancel"}, i) => Among(stack', {"cancel"}, i)
    BY <2>11
  <2>13. Core'
    BY <1>1, <1>8, <2>9, <2>12, SameCore
  <2>14. c \in Ids /\ downtimes[c].trigger # 0
    BY <1>c, <1>i, <2>1
  <2> QED BY <1>1, <1>8, <2>11, <2>13, <2>14
<1>9. CASE C = {} /\ stack' = <<Stop(id, 2)>> \o t /\ downtimes' = downtimes
  <2> DEFINE h == Stop(id, 2)
  <2>1. h \in Frames(Ids) /\ h.op = "stop" /\ h.id = id /\ Mentions(h) = {id}
    BY <1>3, StopFields
  <2>2. stack' = <<h>> \o t
    BY <1>9
  <2> HIDE DEF h
  <2>3. /\ t \in Seq(Frames(DOMAIN downtimes)) /\ h \in Frames(DOMAIN downtimes)
        /\ Fits(downtimes, h, t)
    BY <1>2, <1>7, <2>1 DEF Ids
  <2>4. /\ <<h>> \o t = Cons(h, t) /\ Cons(h, t) \in Seq(Frames(DOMAIN downtimes))
        /\ Disciplined(downtimes, Cons(h, t))
        /\ \A kinds, i : Among(Cons(h, t), kinds, i) <=>
              (h.op \in kinds /\ i \in Mentions(h)) \/ Among(t, kinds, i)
    BY <1>2, <2>3, PushOne
  <2>5. stack' \in Seq(Frames(Ids)) /\ Disciplined(downtimes, stack') /\ SameCalls(stack, stack')
    <3>1. stack' = Cons(h, t)
      BY <2>2, <2>4
    <3>2. SameCalls(stack, stack')
      BY <1>2, <1>3, <2>1, <2>4, <3>1 DEF SameCalls
    <3> QED BY <2>4, <3>1, <3>2 DEF Ids
  <2>6. \A i : Among(stack, {"cancel"}, i) => Among(stack', {"cancel"}, i)
    BY <2>5 DEF SameCalls
  <2>7. Core'
    BY <1>1, <1>9, <2>5, <2>6, SameCore
  <2> QED BY <1>1, <1>9, <2>5, <2>7
<1>10. CASE C = {} /\ stack' = t /\ downtimes' = [c \in Ids \ {id} |-> downtimes[c]]
  <2>1. Keeps(downtimes, downtimes')
    <3>1. \A c \in DOMAIN downtimes : downtimes[c].trigger # id
      BY <1>10 DEF C, Children, Ids
    <3> QED BY <1>10, <3>1, RemovedKeeps DEF Ids
  <2>2. Ids' = Ids \ {id} /\ \A c \in Ids' : downtimes'[c] = downtimes[c]
    BY <1>10 DEF Ids
  <2>3. t \in Seq(Frames(Ids'))
    <3>1. \A x \in Ids \ (Ids \ {id}) : \A kinds : ~Among(t, kinds, x)
      BY <1>2, <1>3
    <3> QED BY <1>2, <2>2, <3>1, FramesKept
  <2>4. Disciplined(downtimes', stack')
    BY <1>2, <1>10, <2>1, <2>3, DisciplinedKept DEF Ids
  <2>5. /\ \A kinds : Among(stack, kinds, id) <=> "stop" \in kinds
        /\ \A kinds : ~Among(stack', kinds, id)
        /\ \A kinds, i : i # id => (Among(stack', kinds, i) <=> Among(stack, kinds, i))
    BY <1>2, <1>3, <1>10
  <2>6. Within(downtimes', stack')
    <3>1. \A c \in DOMAIN downtimes' : downtimes'[c].inEffect => downtimes[c].inEffect
      BY <2>2 DEF Ids
    <3>2. \A c \in DOMAIN downtimes' : Among(stack, {"cancel"}, c) => Among(stack', {"cancel"}, c)
      BY <2>5
    <3> QED BY <1>4, <2>1, <3>1, <3>2, WithinStep
  <2>7. Known(downtimes', events', lastId', now')
    BY <1>1, <1>4, <2>2 DEF Known, Ids
  <2>8. Types'
    BY <1>1, <1>4, <1>10, <2>2, <2>3 DEF Types
  <2> QED BY <1>1, <1>3, <1>10, <1>e, <2>4, <2>5, <2>6, <2>7, <2>8 DEF Core
<1> QED BY <1>6, <1>8, <1>9, <1>10

\* Between two steps of the loop.
LEMMA IdleFacts ==
  ASSUME Core, Idle
  PROVE  stack = <<>> /\ up /\ \A kinds, i : ~Among(stack, kinds, i)
  BY AmongEmpty DEF Idle

LEMMA CancelCore ==
  ASSUME Core, NEW X \in SUBSET Ids, CancelDowntimes(X)
  PROVE  /\ Core' /\ downtimes' = downtimes /\ events' = events
         /\ UNCHANGED <<now, state, depth, pending>>
         /\ \A kinds, i : ~Among(stack, kinds, i)
         /\ \A kinds, i : Among(stack', kinds, i) => "cancel" \in kinds
<1>1. /\ Idle /\ stack' = <<Cancel(X)>>
      /\ UNCHANGED <<now, state, depth, pending, downtimes, lastId, events, up, checks, restarts>>
  BY DEF CancelDowntimes, Open
<1>2. \A kinds, i : ~Among(stack, kinds, i)
  BY <1>1, IdleFacts
<1> DEFINE g == Cancel(X)
<1>3. g \in Frames(Ids) /\ g.op = "cancel" /\ Mentions(g) = X
  BY CancelFields
<1>4. stack' = <<g>>
  BY <1>1
<1> HIDE DEF g
<1>5. Sound(downtimes, g)
  BY <1>3 DEF Sound
<1>6. /\ <<g>> \in Seq(Frames(DOMAIN downtimes)) /\ Disciplined(downtimes, <<g>>)
      /\ \A kinds, i : Among(<<g>>, kinds, i) <=> g.op \in kinds /\ i \in Mentions(g)
  BY <1>3, <1>5, OneFrame DEF Ids
<1>7. stack' \in Seq(Frames(Ids)) /\ Disciplined(downtimes, stack')
  BY <1>4, <1>6 DEF Ids
<1>8. Core'
  BY <1>1, <1>2, <1>7, SameCore
<1>9. \A kinds, i : Among(stack', kinds, i) => "cancel" \in kinds
  BY <1>3, <1>4, <1>6
<1> QED BY <1>1, <1>2, <1>8, <1>9

LEMMA UnscheduleCore ==
  ASSUME Core, Unschedule
  PROVE  /\ Core' /\ events' = events /\ UNCHANGED <<now, state>>
         /\ \A kinds, i : Among(stack, kinds, i) => "cancel" \in kinds
         /\ \A kinds, i : Among(stack', kinds, i) => "cancel" \in kinds
         /\ \/ UNCHANGED <<downtimes, depth, pending>>
            \/ \E id \in Ids :
                 /\ downtimes' = [c \in Ids \ {id} |-> downtimes[c]]
                 /\ depth' = Uncovered(downtimes[id])
                 /\ pending' = [pending EXCEPT ![downtimes[id].obj] =
                      IF ~downtimes[id].fixed /\ downtimes[id].incremented THEN @ - 1 ELSE @]
<1> DEFINE f == Head(stack)
           t == Tail(stack)
           X == f.ids \cap Ids
           id == First(X)
           C == Children(id)
<1>1. /\ Top("cancel") /\ UNCHANGED <<now, state, lastId, events, up, checks, restarts>>
      /\ \/ X = {} /\ stack' = t /\ UNCHANGED <<depth, pending, downtimes>>
         \/ /\ X # {} /\ stack' = <<Cancel((X \ {id}) \cup C)>> \o t
            /\ downtimes' = [c \in Ids \ {id} |-> downtimes[c]]
            /\ depth' = Uncovered(downtimes[id])
            /\ pending' = [pending EXCEPT ![downtimes[id].obj] =
                 IF ~downtimes[id].fixed /\ downtimes[id].incremented THEN @ - 1 ELSE @]
  BY DEF Unschedule
<1>2. /\ f \in Frames(Ids) /\ t \in Seq(Frames(Ids)) /\ f.op = "cancel" /\ Fits(downtimes, f, t)
      /\ \A kinds, i : Among(stack, kinds, i) <=>
              ("cancel" \in kinds /\ i \in Mentions(f)) \/ Among(t, kinds, i)
  BY <1>1, TopFacts
<1>3. f.ids \in SUBSET Ids /\ Mentions(f) = f.ids
  BY <1>2, FrameFields
<1>4. Types /\ Within(downtimes, stack) /\ Known(downtimes, events, lastId, now)
  BY DEF Core
<1> HIDE DEF f, t
<1>5. t = <<>> /\ \A kinds, i : ~Among(t, kinds, i)
  <2>1. \A j \in DOMAIN t : FALSE
    BY <1>2 DEF Fits, On
  <2>2. DOMAIN t = 1 .. Len(t) /\ Len(t) \in Nat
    BY <1>2, LenProperties
  <2>3. Len(t) = 0
    <3>1. 1 \notin DOMAIN t
      BY <2>1
    <3> QED BY <2>2, <3>1
  <2>4. t = <<>>
    BY <1>2, <2>3, EmptySeq
  <2> QED BY <2>4, AmongEmpty
<1>6. \A kinds, i : Among(stack, kinds, i) <=> "cancel" \in kinds /\ i \in X
  BY <1>2, <1>3, <1>5
<1>7. X \in SUBSET Ids
  OBVIOUS
<1> HIDE DEF X
<1>8. CASE X = {} /\ stack' = t /\ UNCHANGED <<depth, pending, downtimes>>
  <2>1. stack' \in Seq(Frames(Ids)) /\ Disciplined(downtimes, stack')
    BY <1>5, <1>8, NoFrame DEF Ids
  <2>2. \A c : Among(stack, {"cancel"}, c) => Among(stack', {"cancel"}, c)
    BY <1>6, <1>8
  <2>3. Core'
    BY <1>1, <1>8, <2>1, <2>2, SameCore
  <2> QED BY <1>1, <1>5, <1>6, <1>8, <2>3
<1>9. CASE /\ X # {} /\ stack' = <<Cancel((X \ {id}) \cup C)>> \o t
           /\ downtimes' = [c \in Ids \ {id} |-> downtimes[c]]
           /\ depth' = Uncovered(downtimes[id])
           /\ pending' = [pending EXCEPT ![downtimes[id].obj] =
                 IF ~downtimes[id].fixed /\ downtimes[id].incremented THEN @ - 1 ELSE @]
  <2> DEFINE Y == (X \ {id}) \cup C
             g == Cancel(Y)
  <2>1. id \in X /\ id \in Ids
    BY <1>4, <1>7, <1>9, FirstFacts
  <2> HIDE DEF id
  <2>2. \A c \in C : c \in Ids /\ c # id /\ downtimes[c].trigger = id
    BY <1>4, RecordFields DEF Children
  <2>3. Ids' = Ids \ {id} /\ \A c \in Ids' : downtimes'[c] = downtimes[c]
    BY <1>9 DEF Ids
  <2>4. Y \in SUBSET Ids'
    BY <1>7, <2>2, <2>3
  <2>5. g \in Frames(Ids') /\ g.op = "cancel" /\ Mentions(g) = Y
    BY <2>4, CancelFields
  <2>6. stack' = <<g>>
    <3>1. stack' = <<g>> \o <<>>
      BY <1>5, <1>9
    <3> HIDE DEF g
    <3> QED BY <3>1
  <2> HIDE DEF g
  <2>7. Sound(downtimes', g)
    BY <2>5 DEF Sound
  <2>8. /\ stack' \in Seq(Frames(Ids')) /\ Disciplined(downtimes', stack')
        /\ \A kinds, i : Among(stack', kinds, i) <=> "cancel" \in kinds /\ i \in Y
    <3>1. /\ <<g>> \in Seq(Frames(DOMAIN downtimes')) /\ Disciplined(downtimes', <<g>>)
          /\ \A kinds, i : Among(<<g>>, kinds, i) <=> g.op \in kinds /\ i \in Mentions(g)
      BY <2>5, <2>7, OneFrame DEF Ids
    <3> QED BY <2>5, <2>6, <3>1 DEF Ids
  <2>9. downtimes[id].obj \in Object
    BY <1>4, <2>1, RecordFields
  <2>10. Types'
    <3>1. depth' \in [Object -> Int]
      BY <1>4, <1>9, <2>9 DEF Types, Uncovered
    <3>2. pending' \in [Object -> Int]
      BY <1>4, <1>9, <2>9 DEF Types
    <3> QED BY <1>1, <1>4, <2>3, <2>8, <3>1, <3>2 DEF Types
  <2>11. Within(downtimes', stack')
    <3> SUFFICES ASSUME NEW c \in Ids', downtimes'[c].trigger # 0, downtimes'[c].inEffect,
                        ~Among(stack', {"cancel"}, c)
                 PROVE  /\ downtimes'[c].trigger \in Ids'
                        /\ downtimes'[downtimes'[c].trigger].inEffect
      BY DEF Within, Ids
    <3>1. c \in Ids /\ c # id /\ downtimes'[c] = downtimes[c] /\ c \notin Y
      BY <2>3, <2>8
    <3>2. c \notin X /\ c \notin C
      BY <3>1
    <3>3. ~Among(stack, {"cancel"}, c)
      BY <1>6, <3>2
    <3>4. downtimes[c].trigger \in Ids /\ downtimes[downtimes[c].trigger].inEffect
      BY <1>4, <3>1, <3>3 DEF Within, Ids
    <3>5. downtimes[c].trigger # id
      BY <3>1, <3>2 DEF Children
    <3> QED BY <2>3, <3>1, <3>4, <3>5
  <2>12. Known(downtimes', events', lastId', now')
    BY <1>1, <1>4, <2>3 DEF Known, Ids
  <2>13. Core'
    BY <2>8, <2>10, <2>11, <2>12 DEF Core
  <2> QED BY <1>1, <1>6, <1>9, <2>1, <2>8, <2>13
<1> QED BY <1>1, <1>8, <1>9

LEMMA RunEventCore ==
  ASSUME Core, RunEvent
  PROVE  /\ Core' /\ UNCHANGED <<now, state, depth, pending>>
         /\ \A kinds, i : ~Among(stack, kinds, i)
         /\ events # <<>> /\ events' = Tail(events) /\ Head(events).at <= now
         /\ \/ /\ Head(events).kind = "expire" /\ \A kinds, i : ~Among(stack', kinds, i)
               /\ downtimes' = [c \in {i \in Ids : ~Expired(downtimes[i])} |-> downtimes[c]]
            \/ /\ Head(events).kind = "scheduled" /\ downtimes' = downtimes
               /\ \A kinds, i : Among(stack', kinds, i) <=>
                    "handle" \in kinds /\ i \in Ids /\ i = Head(events).id
<1> DEFINE e == Head(events)
<1>1. /\ Idle /\ Due /\ events' = Tail(events)
      /\ UNCHANGED <<now, state, depth, pending, lastId, up, checks, restarts>>
      /\ \/ /\ e.kind = "expire" /\ stack' = stack
            /\ downtimes' = [c \in {i \in Ids : ~Expired(downtimes[i])} |-> downtimes[c]]
         \/ /\ e.kind # "expire" /\ downtimes' = downtimes
            /\ stack' = IF e.id \in Ids THEN <<Call(e.id)>> ELSE <<>>
  BY DEF RunEvent
<1>2. stack = <<>> /\ up /\ \A kinds, i : ~Among(stack, kinds, i)
  BY <1>1, IdleFacts
<1>3. events # <<>> /\ e.at <= now
  BY <1>1 DEF Due
<1>4. Types /\ Within(downtimes, stack) /\ Known(downtimes, events, lastId, now)
  BY DEF Core
<1>5. events \in Seq(Event) /\ Ordered(events)
  BY <1>4 DEF Types
<1>6. /\ Tail(events) \in Seq(Event) /\ Ordered(Tail(events)) /\ e \in Event
      /\ \A k \in DOMAIN Tail(events) : \E j \in DOMAIN events : Tail(events)[k] = events[j]
      /\ \E k \in DOMAIN events : e = events[k]
  BY <1>3, <1>5, Popped
<1>7. e.kind \in {"expire", "scheduled"}
  BY <1>6, EventFields
<1> HIDE DEF e
<1>n. lastId \in Nat /\ now \in Nat /\ now <= now
  BY <1>4, DowntimeAssumption DEF Types
<1>k. ASSUME NEW E, Shrinks(downtimes, E) PROVE Known(E, events', lastId', now')
  <2> DEFINE x == Expire(0)
  <2>1. x \in Event /\ x.kind = "expire"
    BY ExpireFields
  <2> HIDE DEF x
  <2>2. \A k \in DOMAIN events' : events'[k] = x \/ \E j \in DOMAIN events : events'[k] = events[j]
    BY <1>1, <1>6
  <2>3. events' \in Seq(Event)
    BY <1>1, <1>6
  <2>4. Known(E, events', lastId, now)
    BY <1>4, <1>5, <1>k, <1>n, <2>1, <2>2, <2>3, KnownStep
  <2> QED BY <1>1, <2>4
<1>8. CASE /\ e.kind = "expire" /\ stack' = stack
           /\ downtimes' = [c \in {i \in Ids : ~Expired(downtimes[i])} |-> downtimes[c]]
  <2>1. /\ Ids' = {i \in Ids : ~Expired(downtimes[i])}
        /\ \A c \in Ids' : downtimes'[c] = downtimes[c]
    BY <1>8 DEF Ids
  <2>2. Shrinks(downtimes, downtimes')
    BY <2>1 DEF Shrinks, Ids
  <2>3. stack' \in Seq(Frames(Ids')) /\ Disciplined(downtimes', stack')
    BY <1>2, <1>8, NoFrame DEF Ids
  <2>4. Types'
    BY <1>1, <1>4, <1>6, <2>1, <2>3 DEF Types
  <2>5. Within(downtimes', stack')
    <3> SUFFICES ASSUME NEW c \in Ids', downtimes'[c].trigger # 0, downtimes'[c].inEffect
                 PROVE  /\ downtimes'[c].trigger \in Ids'
                        /\ downtimes'[downtimes'[c].trigger].inEffect
      BY DEF Within, Ids
    <3>1. c \in Ids /\ downtimes'[c] = downtimes[c]
      BY <2>1
    <3>2. downtimes[c].trigger \in Ids /\ downtimes[downtimes[c].trigger].inEffect
      BY <1>2, <1>4, <3>1 DEF Within, Ids
    <3>3. downtimes[c].trigger \in Ids'
      BY <2>1, <3>2 DEF Expired
    <3> QED BY <2>1, <3>1, <3>2, <3>3
  <2>6. Core'
    BY <1>k, <2>2, <2>3, <2>4, <2>5 DEF Core
  <2> QED BY <1>1, <1>2, <1>3, <1>8, <2>6 DEF e
<1>9. CASE /\ e.kind # "expire" /\ downtimes' = downtimes
           /\ stack' = IF e.id \in Ids THEN <<Call(e.id)>> ELSE <<>>
  <2>1. e.kind = "scheduled" /\ Ids' = Ids
    BY <1>7, <1>9 DEF Ids
  <2>2. Shrinks(downtimes, downtimes')
    BY <1>9 DEF Shrinks
  <2>3. /\ stack' \in Seq(Frames(Ids)) /\ Disciplined(downtimes, stack')
        /\ \A kinds, i : Among(stack', kinds, i) <=> "handle" \in kinds /\ i \in Ids /\ i = e.id
    <3>1. CASE e.id \in Ids
      <4> DEFINE g == Call(e.id)
      <4>1. g \in Frames(Ids) /\ g.op = "handle" /\ Mentions(g) = {e.id}
        BY <3>1, CallFields
      <4>2. stack' = <<g>>
        BY <1>9, <3>1
      <4> HIDE DEF g
      <4>3. ASSUME downtimes[e.id].trigger # 0
            PROVE  /\ downtimes[e.id].trigger \in Ids
                   /\ downtimes[downtimes[e.id].trigger].inEffect
        <5>1. downtimes[e.id].inEffect
          BY <1>4, <1>6, <2>1, <3>1, <4>3 DEF Known, Ids
        <5> QED BY <1>2, <1>4, <3>1, <4>3, <5>1 DEF Within, Ids
      <4>4. Sound(downtimes, g)
        BY <4>1, <4>3 DEF Sound, Ids
      <4>5. /\ <<g>> \in Seq(Frames(DOMAIN downtimes)) /\ Disciplined(downtimes, <<g>>)
            /\ \A kinds, i : Among(<<g>>, kinds, i) <=> g.op \in kinds /\ i \in Mentions(g)
        BY <4>1, <4>4, OneFrame DEF Ids
      <4>6. stack' \in Seq(Frames(Ids)) /\ Disciplined(downtimes, stack')
        BY <4>2, <4>5 DEF Ids
      <4>7. ASSUME NEW kinds, NEW i
            PROVE  Among(stack', kinds, i) <=> "handle" \in kinds /\ i \in Ids /\ i = e.id
        BY <3>1, <4>1, <4>2, <4>5
      <4> QED BY <4>6, <4>7
    <3>2. CASE e.id \notin Ids
      <4>1. stack' = <<>>
        BY <1>9, <3>2
      <4> QED BY <3>2, <4>1, NoFrame, AmongEmpty DEF Ids
    <3> QED BY <3>1, <3>2
  <2>4. Types'
    BY <1>1, <1>4, <1>6, <1>9, <2>1, <2>3 DEF Types
  <2>5. Within(downtimes', stack')
    BY <1>2, <1>4, <1>9 DEF Within
  <2>6. Core'
    BY <1>9, <1>k, <2>2, <2>3, <2>4, <2>5 DEF Core
  <2> QED BY <1>1, <1>2, <1>3, <1>9, <2>1, <2>3, <2>6 DEF e
<1> QED BY <1>1, <1>8, <1>9

LEMMA TickCore ==
  ASSUME Core, Tick
  PROVE  /\ Core' /\ UNCHANGED <<state, depth, pending, downtimes, events, stack>>
         /\ now' = now + 1 /\ \A kinds, i : ~Among(stack, kinds, i)
<1>1. /\ Idle /\ now < MaxTime /\ now' = now + 1
      /\ UNCHANGED <<state, depth, pending, downtimes, lastId, events, stack, up, checks, restarts>>
  BY DEF Tick
<1>2. \A kinds, i : ~Among(stack, kinds, i)
  BY <1>1, IdleFacts
<1>3. now \in 1 .. MaxTime /\ MaxTime \in Nat /\ lastId \in Nat
  BY DowntimeAssumption DEF Core, Types
<1>4. Types'
  <2>1. now' \in 1 .. MaxTime /\ Ids' = Ids
    BY <1>1, <1>3 DEF Ids
  <2> QED BY <1>1, <2>1 DEF Core, Types
<1>5. Known(downtimes, events, lastId, now + 1)
  <2> DEFINE x == Expire(0)
             u == now + 1
  <2>1. x \in Event /\ x.kind = "expire"
    BY ExpireFields
  <2>2. Shrinks(downtimes, downtimes)
    BY DEF Shrinks
  <2>3. now \in Nat /\ u \in Nat /\ now <= u
    BY <1>3
  <2> HIDE DEF x, u
  <2>4. events \in Seq(Event) /\ Known(downtimes, events, lastId, now)
    BY DEF Core, Types
  <2>5. Known(downtimes, events, lastId, u)
    BY <1>3, <2>1, <2>2, <2>3, <2>4, KnownStep
  <2> QED BY <2>5 DEF u
<1> QED BY <1>1, <1>2, <1>4, <1>5 DEF Core

\* Only the flag start_flex is different.
SameRecord(d, e) ==
  /\ e.obj = d.obj /\ e.start = d.start /\ e.end = d.end /\ e.fixed = d.fixed
  /\ e.trigger = d.trigger /\ e.inEffect = d.inEffect /\ e.incremented = d.incremented

LEMMA CheckCore ==
  ASSUME Core, NEW o \in Object, NEW s \in {"ok", "soft", "hard"}, CheckResult(o, s)
  PROVE  /\ Core' /\ UNCHANGED <<now, depth, pending, events>> /\ Ids' = Ids
         /\ state' = [state EXCEPT ![o] = s]
         /\ \A i \in Ids : SameRecord(downtimes[i], downtimes'[i])
         /\ \A kinds, i : ~Among(stack, kinds, i)
         /\ \A kinds, i : Among(stack', kinds, i) <=>
              "each" \in kinds /\ LooksForFlexible(o, s) /\ i \in Startable(o)
<1> DEFINE X == IF LooksForFlexible(o, s) THEN Startable(o) ELSE {}
<1>1. /\ Idle /\ checks < MaxChecks /\ checks' = checks + 1 /\ state' = [state EXCEPT ![o] = s]
      /\ downtimes' = [i \in Ids |-> [downtimes[i] EXCEPT !.startFlex = @ \/ i \in X]]
      /\ stack' = IF X = {} THEN <<>> ELSE <<Each(X)>>
      /\ UNCHANGED <<now, depth, pending, lastId, events, up, restarts>>
  BY DEF CheckResult, Open
<1>2. stack = <<>> /\ up /\ \A kinds, i : ~Among(stack, kinds, i)
  BY <1>1, IdleFacts
<1>3. Types /\ Within(downtimes, stack) /\ Known(downtimes, events, lastId, now)
  BY DEF Core
<1>4. \A i \in X : i \in Ids /\ downtimes[i].trigger = 0
  BY DEF Startable
<1>5. \A i : i \in X <=> LooksForFlexible(o, s) /\ i \in Startable(o)
  OBVIOUS
<1> HIDE DEF X
<1>6. Ids' = Ids
  BY <1>1 DEF Ids
<1>7. ASSUME NEW i \in Ids
      PROVE  SameRecord(downtimes[i], downtimes'[i]) /\ downtimes'[i] \in Record(i)
  <2>1. downtimes[i] \in Record(i)
    BY <1>3 DEF Types
  <2> DEFINE b == downtimes[i].startFlex \/ i \in X
  <2>2. b \in BOOLEAN
    OBVIOUS
  <2>3. downtimes'[i] = [downtimes[i] EXCEPT !.startFlex = b]
    BY <1>1
  <2> HIDE DEF b
  <2>4. ASSUME NEW r \in Record(i), NEW v, v = [r EXCEPT !.startFlex = b]
        PROVE  SameRecord(r, v) /\ v \in Record(i)
    BY ONLY <2>2, <2>4 DEF Record, SameRecord
  <2> QED BY <2>1, <2>3, <2>4
<1>8. \A i \in Ids' : downtimes'[i] \in Record(i) /\ downtimes'[i].start < downtimes'[i].end
  BY <1>3, <1>6, <1>7 DEF Types, SameRecord
<1>9. /\ stack' \in Seq(Frames(Ids')) /\ Disciplined(downtimes', stack')
      /\ \A kinds, i : Among(stack', kinds, i) <=> "each" \in kinds /\ i \in X
  <2>1. CASE X = {}
    <3>1. stack' = <<>>
      BY <1>1, <2>1
    <3> QED BY <2>1, <3>1, NoFrame, AmongEmpty DEF Ids
  <2>2. CASE X # {}
    <3> DEFINE g == Each(X)
    <3>1. g \in Frames(Ids') /\ g.op = "each" /\ Mentions(g) = X
      <4>1. X \in SUBSET Ids'
        BY <1>4, <1>6
      <4> QED BY <4>1, EachFields
    <3>2. stack' = <<g>>
      BY <1>1, <2>2
    <3> HIDE DEF g
    <3>3. \A x \in X : downtimes'[x].trigger = 0
      BY <1>4, <1>7 DEF SameRecord
    <3>4. Sound(downtimes', g)
      BY <3>1, <3>3 DEF Sound
    <3>5. /\ <<g>> \in Seq(Frames(DOMAIN downtimes')) /\ Disciplined(downtimes', <<g>>)
          /\ \A kinds, i : Among(<<g>>, kinds, i) <=> g.op \in kinds /\ i \in Mentions(g)
      BY <3>1, <3>4, OneFrame DEF Ids
    <3>6. stack' \in Seq(Frames(Ids')) /\ Disciplined(downtimes', stack')
      BY <3>2, <3>5 DEF Ids
    <3>7. ASSUME NEW kinds, NEW i
          PROVE  Among(stack', kinds, i) <=> "each" \in kinds /\ i \in X
      BY <3>1, <3>2, <3>5
    <3> QED BY <3>6, <3>7
  <2> QED BY <2>1, <2>2
<1>10. Types'
  <2>1. state' \in [Object -> {"ok", "soft", "hard"}]
    BY <1>1, <1>3 DEF Types
  <2>2. checks' \in 0 .. MaxChecks
    BY <1>1, <1>3, DowntimeAssumption DEF Types
  <2> QED BY <1>1, <1>3, <1>6, <1>8, <1>9, <2>1, <2>2 DEF Types
<1>11. Within(downtimes', stack')
  <2>1. \A c \in Ids : downtimes'[c].trigger = downtimes[c].trigger
                         /\ downtimes'[c].inEffect = downtimes[c].inEffect
    BY <1>7 DEF SameRecord
  <2> QED BY <1>2, <1>3, <1>6, <2>1 DEF Within, Ids
<1>12. Known(downtimes', events', lastId', now')
  <2>1. \A c \in Ids : downtimes'[c].trigger = downtimes[c].trigger
                         /\ downtimes'[c].inEffect = downtimes[c].inEffect
    BY <1>7 DEF SameRecord
  <2> QED BY <1>1, <1>3, <1>6, <2>1 DEF Known, Ids
<1>13. Core'
  BY <1>9, <1>10, <1>11, <1>12 DEF Core
<1>14. ASSUME NEW kinds, NEW i
       PROVE  Among(stack', kinds, i) <=>
                "each" \in kinds /\ LooksForFlexible(o, s) /\ i \in Startable(o)
  BY <1>5, <1>9
<1> QED BY <1>1, <1>2, <1>6, <1>7, <1>13, <1>14

\* A new id has no events.
LEMMA NewIdHasNone ==
  ASSUME Core, Open, NEW i \in Nat, i > lastId
  PROVE  HasNone(events, i)
<1>1. events \in Seq(Event) /\ Ordered(events) /\ Known(downtimes, events, lastId, now)
  BY DEF Core, Types
<1>2. ASSUME NEW k \in DOMAIN events, Of(events[k], i) PROVE FALSE
  <2>1. events # <<>> /\ events[k] \in Event
    BY <1>1, <1>2, EmptySeq, LenProperties, ElementOfSeq
  <2>2. Head(events).at >= now /\ Head(events).at <= events[k].at /\ Head(events) \in Event
    BY <1>1, <2>1, Popped DEF Open
  <2>3. events[k].at < now
    BY <1>1, <1>2 DEF Known, Of
  <2>4. events[k].at \in Nat /\ Head(events).at \in Nat /\ now \in Nat
    BY <2>1, <2>2, EventFields, DowntimeAssumption DEF Core, Types
  <2> QED BY <2>2, <2>3, <2>4
<1> QED BY <1>2 DEF HasNone

LEMMA ScheduleCore ==
  ASSUME Core, NEW q \in Requests, NEW p \in Ids \cup {0}, Schedule(q, p)
  PROVE  /\ Core' /\ UNCHANGED <<now, state, depth, pending, stack>>
         /\ \A kinds, i : ~Among(stack, kinds, i)
         /\ Ids \subseteq Ids' /\ \A i \in Ids : downtimes'[i] = downtimes[i] /\ i <= lastId
         /\ \A i \in Ids' \ Ids :
              /\ i \in Nat \ {0} /\ i > lastId /\ HasNone(events, i)
              /\ ~downtimes'[i].inEffect /\ ~downtimes'[i].incremented
              /\ downtimes'[i].trigger = 0 => i = lastId + 1
         /\ \/ events' = events /\ \A i \in Ids' \ Ids : downtimes'[i].trigger # 0
            \/ /\ lastId + 1 \in Ids' \ Ids
               /\ events' = AddEvent(events, Scheduled(lastId + 1, downtimes'[lastId + 1].start))
<1> DEFINE id == lastId + 1
           det == SetToSeq(Detectors[q.obj])
           last == id + Len(det)
<1>1. /\ Open /\ q.start < q.end /\ last <= MaxDowntimes /\ lastId' = last
      /\ downtimes' = [i \in Ids \cup id .. last |->
                        CASE i < id -> downtimes[i]
                          [] i = id -> NewDowntime(q, q.obj, p)
                          [] i > id -> NewDowntime(q, det[i - id], id)]
      /\ events' = IF p = 0 THEN AddEvent(events, Scheduled(id, q.start)) ELSE events
      /\ UNCHANGED <<now, state, depth, pending, stack, up, checks, restarts>>
  BY DEF Schedule
<1>2. stack = <<>> /\ \A kinds, i : ~Among(stack, kinds, i)
  BY <1>1, IdleFacts DEF Open
<1>3. Types /\ Within(downtimes, stack) /\ Known(downtimes, events, lastId, now)
  BY DEF Core
<1>4. /\ q.obj \in Object /\ q.start \in Nat /\ q.end \in Nat /\ q.fixed \in BOOLEAN
      /\ q.duration \in Nat \ {0}
  <2>1. q \in Request
    BY DowntimeAssumption
  <2> QED BY <2>1 DEF Request
<1>5. det \in Seq(Object)
  <2>1. IsFiniteSet(Detectors[q.obj]) /\ Detectors[q.obj] \subseteq Object
    BY <1>4, DowntimeAssumption
  <2>2. det \in Seq(Detectors[q.obj])
    BY <2>1, SetToSeqType
  <2> HIDE DEF det
  <2> QED BY <2>1, <2>2
<1> HIDE DEF det
<1>n. lastId \in Nat /\ now \in Nat /\ MaxDowntimes \in Nat /\ lastId <= MaxDowntimes
  BY <1>3, DowntimeAssumption DEF Types
<1>6. Len(det) \in Nat /\ last \in Nat /\ lastId < last /\ \A k \in 1 .. Len(det) : det[k] \in Object
  BY <1>5, <1>n, LenProperties, ElementOfSeq
<1>7. \A i \in Ids : i \in Nat \ {0} /\ i <= lastId
  BY <1>3, RecordFields
<1>8. Ids' = Ids \cup id .. last
  BY <1>1 DEF Ids
<1>9. ASSUME NEW i \in Ids PROVE downtimes'[i] = downtimes[i]
  <2>1. i < id /\ i \in Ids \cup id .. last /\ i # id /\ ~(i > id)
    BY <1>7, <1>n
  <2> HIDE DEF id, last
  <2> QED BY <1>1, <2>1
<1>10. downtimes'[id] = NewDowntime(q, q.obj, p)
  <2>1. ~(id < id) /\ id \in Ids \cup id .. last
    BY <1>6, <1>n
  <2> QED BY <1>1, <2>1
<1>11. ASSUME NEW i \in id + 1 .. last
       PROVE  downtimes'[i] = NewDowntime(q, det[i - id], id) /\ det[i - id] \in Object
  <2>1. ~(i < id) /\ i # id /\ i > id /\ i \in Ids \cup id .. last /\ i - id \in 1 .. Len(det)
    BY <1>6, <1>n
  <2> QED BY <1>1, <1>6, <2>1
<1> HIDE DEF id, last
<1>12. ASSUME NEW o \in Object, NEW i \in Nat, NEW x \in 0 .. i - 1
       PROVE  /\ NewDowntime(q, o, x) \in Record(i)
              /\ NewDowntime(q, o, x).start = q.start /\ NewDowntime(q, o, x).end = q.end
              /\ NewDowntime(q, o, x).trigger = x /\ ~NewDowntime(q, o, x).inEffect
              /\ ~NewDowntime(q, o, x).incremented
  BY <1>4 DEF NewDowntime, Record
<1>13. /\ downtimes'[id] \in Record(id) /\ downtimes'[id].start = q.start
       /\ downtimes'[id].end = q.end /\ downtimes'[id].trigger = p
       /\ ~downtimes'[id].inEffect /\ ~downtimes'[id].incremented
  <2>1. p \in 0 .. id - 1 /\ id \in Nat
    BY <1>7, <1>n DEF id
  <2> QED BY <1>4, <1>10, <1>12, <2>1
<1>14. ASSUME NEW i \in id + 1 .. last
       PROVE  /\ downtimes'[i] \in Record(i) /\ downtimes'[i].start = q.start
              /\ downtimes'[i].end = q.end /\ downtimes'[i].trigger = id
              /\ ~downtimes'[i].inEffect /\ ~downtimes'[i].incremented
  <2>1. id \in 0 .. i - 1 /\ i \in Nat
    BY <1>6, <1>n DEF id
  <2> QED BY <1>11, <1>12, <2>1
<1>15. ASSUME NEW i \in Ids' \ Ids
       PROVE  /\ i = id \/ i \in id + 1 .. last
              /\ i \in Nat \ {0} /\ i > lastId
  BY <1>6, <1>8, <1>n DEF id
<1>16. id \in Ids' \ Ids
  BY <1>6, <1>7, <1>8, <1>n DEF id
<1>i. id = lastId + 1 /\ id \in Nat \ {0}
  BY <1>n DEF id
<1>17. ASSUME NEW i \in Ids' \ Ids
       PROVE  /\ downtimes'[i] \in Record(i) /\ downtimes'[i].start = q.start
              /\ downtimes'[i].end = q.end /\ ~downtimes'[i].inEffect
              /\ ~downtimes'[i].incremented
              /\ i # id => downtimes'[i].trigger = id
  BY <1>13, <1>14, <1>15
<1>18. \A i \in Ids' : downtimes'[i] \in Record(i) /\ downtimes'[i].start < downtimes'[i].end
  BY <1>1, <1>3, <1>9, <1>17 DEF Types
<1>19. \A i \in Ids' \ Ids : HasNone(events, i)
  BY <1>1, <1>15, NewIdHasNone
<1> DEFINE e == Scheduled(id, q.start)
<1>20. e \in Event /\ e.id = id /\ e.at = q.start /\ e.kind = "scheduled"
  BY <1>4, <1>i, ScheduledFields DEF Of
<1> HIDE DEF e
<1>21. events \in Seq(Event) /\ Ordered(events)
  BY <1>3 DEF Types
<1>22. /\ events' \in Seq(Event) /\ Ordered(events')
       /\ \A k \in DOMAIN events' :
            (p = 0 /\ events'[k] = e) \/ \E j \in DOMAIN events : events'[k] = events[j]
  <2>1. CASE p = 0
    <3>1. events' = AddEvent(events, e)
      BY <1>1, <2>1 DEF e
    <3> QED BY <1>20, <1>21, <2>1, <3>1, AddEventFacts, Added
  <2>2. CASE p # 0
    BY <1>1, <1>21, <2>2
  <2> QED BY <2>1, <2>2
<1>23. Types'
  <2>1. lastId' \in 0 .. MaxDowntimes /\ Ids' \subseteq 1 .. lastId'
    <3>1. \A i \in id .. last : i \in 1 .. last
      BY <1>6, <1>i
    <3>2. \A i \in Ids : i \in 1 .. last
      BY <1>6, <1>7, <1>n
    <3> QED BY <1>1, <1>6, <1>8, <1>n, <3>1, <3>2
  <2>2. stack' \in Seq(Frames(Ids'))
    BY <1>1, <1>2
  <2> QED BY <1>1, <1>3, <1>18, <1>22, <2>1, <2>2 DEF Types
<1>24. Disciplined(downtimes', stack')
  BY <1>1, <1>2, NoFrame
<1>25. Within(downtimes', stack')
  <2> SUFFICES ASSUME NEW c \in Ids', downtimes'[c].trigger # 0, downtimes'[c].inEffect
               PROVE  /\ downtimes'[c].trigger \in Ids'
                      /\ downtimes'[downtimes'[c].trigger].inEffect
    BY DEF Within, Ids
  <2>1. c \in Ids /\ downtimes'[c] = downtimes[c]
    BY <1>9, <1>17
  <2>2. downtimes[c].trigger \in Ids /\ downtimes[downtimes[c].trigger].inEffect
    BY <1>2, <1>3, <2>1 DEF Within, Ids
  <2> QED BY <1>8, <1>9, <2>1, <2>2
<1>26. Known(downtimes', events', lastId', now')
  <2> SUFFICES ASSUME NEW k \in DOMAIN events', events'[k].kind = "scheduled"
               PROVE  /\ events'[k].id > lastId' => events'[k].at < now
                      /\ events'[k].id \in Ids' /\ downtimes'[events'[k].id].trigger # 0
                           => downtimes'[events'[k].id].inEffect
    BY <1>1 DEF Known, Ids
  <2>1. CASE p = 0 /\ events'[k] = e
    <3>1. events'[k].id = id /\ downtimes'[id].trigger = 0 /\ ~(id > lastId')
      BY <1>1, <1>6, <1>13, <1>20, <1>i, <1>n, <2>1
    <3> QED BY <3>1
  <2>2. CASE \E j \in DOMAIN events : events'[k] = events[j]
    <3>1. PICK j \in DOMAIN events : events'[k] = events[j]
      BY <2>2
    <3>2. /\ events[j].id > lastId => events[j].at < now
          /\ events[j].id \in Ids /\ downtimes[events[j].id].trigger # 0
               => downtimes[events[j].id].inEffect
      BY <1>3, <3>1 DEF Known, Ids
    <3>3. events[j].id \notin Ids' \ Ids
      BY <1>19, <3>1 DEF HasNone, Of
    <3>4. events[j].id \in Nat
      <4>1. events[j] \in Event
        BY <1>21, LenProperties, ElementOfSeq
      <4> QED BY <3>1, <4>1, EventFields
    <3>5. events[j].id > lastId' => events[j].id > lastId
      BY <1>1, <1>6, <1>n, <3>4
    <3> QED BY <1>9, <3>1, <3>2, <3>3, <3>5
  <2> QED BY <1>22, <2>1, <2>2
<1>27. \A i \in Ids' \ Ids : downtimes'[i].trigger = 0 => i = lastId + 1
  BY <1>17, <1>i
<1>28. \/ events' = events /\ \A i \in Ids' \ Ids : downtimes'[i].trigger # 0
       \/ /\ lastId + 1 \in Ids' \ Ids
          /\ events' = AddEvent(events, Scheduled(lastId + 1, downtimes'[lastId + 1].start))
  <2>1. CASE p = 0
    <3>1. events' = AddEvent(events, Scheduled(id, downtimes'[id].start))
      BY <1>1, <1>13, <2>1
    <3> QED BY <1>16, <1>i, <3>1
  <2>2. CASE p # 0
    <3>1. events' = events
      BY <1>1, <2>2
    <3>2. \A i \in Ids' \ Ids : downtimes'[i].trigger # 0
      BY <1>13, <1>17, <1>i, <2>2
    <3> QED BY <3>1, <3>2
  <2> QED BY <2>1, <2>2
<1>29. Core'
  BY <1>23, <1>24, <1>25, <1>26 DEF Core
<1> QED BY <1>1, <1>2, <1>7, <1>8, <1>9, <1>15, <1>17, <1>19, <1>27, <1>28, <1>29

\* The events that register_downtime() schedules when the downtimes are loaded.
LEMMA RegisterFacts ==
  ASSUME Types, Register
  PROVE  /\ events' \in Seq(Event) /\ Ordered(events')
         /\ \A k \in DOMAIN events' :
              /\ events'[k].id \in Ids /\ downtimes[events'[k].id].trigger = 0
              /\ events'[k].at = downtimes[events'[k].id].start
         /\ \A i \in Ids : downtimes[i].trigger = 0 => HasAt(events', i, downtimes[i].start)
         /\ \A i : HasOne(events', i)
<1> DEFINE n == Cardinality(Untriggered)
<1>1. PICK ids \in [1 .. n -> Untriggered] :
        /\ Untriggered = {ids[k] : k \in DOMAIN ids}
        /\ \A j, k \in DOMAIN ids : j < k =>
             \/ downtimes[ids[j]].start < downtimes[ids[k]].start
             \/ downtimes[ids[j]].start = downtimes[ids[k]].start /\ ids[j] < ids[k]
        /\ events' = [k \in DOMAIN ids |-> Scheduled(ids[k], downtimes[ids[k]].start)]
  BY DEF Register
<1>2. Untriggered \subseteq Ids /\ \A i \in Untriggered : downtimes[i].trigger = 0
  BY DEF Untriggered
<1>3. n \in Nat
  <2>1. IsFiniteSet(1 .. lastId) /\ Untriggered \in SUBSET (1 .. lastId)
    <3>1. lastId \in Int /\ 1 \in Int
      BY DowntimeAssumption DEF Types
    <3> QED BY <1>2, <3>1, FS_Interval DEF Types
  <2> QED BY <2>1, FS_Subset, FS_CardinalityType
<1> HIDE DEF n
<1>4. DOMAIN ids = 1 .. n /\ DOMAIN events' = 1 .. n
  BY <1>1
<1>5. ASSUME NEW k \in 1 .. n
      PROVE  /\ ids[k] \in Ids /\ ids[k] \in Nat \ {0} /\ downtimes[ids[k]].start \in Nat
             /\ downtimes[ids[k]].trigger = 0
             /\ events'[k] = Scheduled(ids[k], downtimes[ids[k]].start)
             /\ events'[k] \in Event /\ events'[k].id = ids[k]
             /\ events'[k].at = downtimes[ids[k]].start /\ Of(events'[k], ids[k])
             /\ \A i : Of(events'[k], i) => i = ids[k]
  <2>1. ids[k] \in Ids /\ downtimes[ids[k]].trigger = 0
    BY <1>1, <1>2
  <2>2. ids[k] \in Nat \ {0} /\ downtimes[ids[k]].start \in Nat
    BY <2>1, RecordFields
  <2>3. events'[k] = Scheduled(ids[k], downtimes[ids[k]].start)
    BY <1>1, <1>4
  <2>4. /\ Scheduled(ids[k], downtimes[ids[k]].start) \in Event
        /\ Of(Scheduled(ids[k], downtimes[ids[k]].start), ids[k])
        /\ Scheduled(ids[k], downtimes[ids[k]].start).at = downtimes[ids[k]].start
        /\ Scheduled(ids[k], downtimes[ids[k]].start).id = ids[k]
        /\ \A j : Of(Scheduled(ids[k], downtimes[ids[k]].start), j) => j = ids[k]
    BY <2>2, ScheduledFields
  <2> QED BY <2>1, <2>2, <2>3, <2>4
<1>6. events' \in Seq(Event)
  <2>1. events' = [k \in 1 .. n |-> events'[k]]
    BY <1>1, <1>4
  <2>2. \A k \in 1 .. n : events'[k] \in Event
    BY <1>5
  <2> QED BY <1>3, <2>1, <2>2, IsASeq
<1>7. Ordered(events')
  <2> SUFFICES ASSUME NEW j \in 1 .. n, NEW k \in 1 .. n, j < k
               PROVE  events'[j].at <= events'[k].at
    BY <1>4 DEF Ordered
  <2>1. \/ downtimes[ids[j]].start < downtimes[ids[k]].start
        \/ downtimes[ids[j]].start = downtimes[ids[k]].start
    BY <1>1, <1>4
  <2> QED BY <1>5, <2>1
<1>8. ASSUME NEW i \in Ids, downtimes[i].trigger = 0 PROVE HasAt(events', i, downtimes[i].start)
  <2>1. i \in Untriggered
    BY <1>8 DEF Untriggered
  <2>2. PICK k \in 1 .. n : i = ids[k]
    BY <1>1, <1>4, <2>1
  <2> QED BY <1>4, <1>5, <2>2 DEF HasAt
<1>9. ASSUME NEW i PROVE HasOne(events', i)
  <2> SUFFICES ASSUME NEW j \in 1 .. n, NEW k \in 1 .. n, Of(events'[j], i), Of(events'[k], i)
               PROVE  j = k
    BY <1>4 DEF HasOne
  <2>1. ids[j] = i /\ ids[k] = i
    BY <1>5
  <2>2. i \in Nat /\ downtimes[i].start \in Nat
    BY <1>5, <2>1
  <2>3. j < k => downtimes[i].start < downtimes[i].start \/ i < i
    BY <1>1, <1>4, <2>1
  <2>4. k < j => downtimes[i].start < downtimes[i].start \/ i < i
    BY <1>1, <1>4, <2>1
  <2> QED BY <1>3, <2>2, <2>3, <2>4
<1> QED BY <1>4, <1>5, <1>6, <1>7, <1>8, <1>9

LEMMA RestartCore ==
  ASSUME Core, Restart
  PROVE  /\ Core' /\ UNCHANGED <<now, state, stack>>
         /\ depth' = [o \in Object |-> 0] /\ pending' = [o \in Object |-> 0]
         /\ \A kinds, i : ~Among(stack, kinds, i)
         /\ \/ /\ Ids' = Valid
               /\ \A i \in Ids' : /\ ~downtimes'[i].inEffect /\ ~downtimes'[i].incremented
                                  /\ downtimes'[i].start = downtimes[i].start
                                  /\ downtimes'[i].trigger = downtimes[i].trigger
               /\ \A k \in DOMAIN events' : events'[k].at = downtimes[events'[k].id].start
               /\ \A i \in Ids : downtimes[i].trigger = 0 => HasAt(events', i, downtimes[i].start)
               /\ \A i : HasOne(events', i)
            \/ Ids' = {} /\ ~up'
<1>1. /\ Idle /\ restarts < MaxRestarts /\ restarts' = restarts + 1
      /\ depth' = [o \in Object |-> 0] /\ pending' = [o \in Object |-> 0]
      /\ UNCHANGED <<now, state, stack, checks>>
  BY DEF Restart
<1>2. stack = <<>> /\ up /\ \A kinds, i : ~Among(stack, kinds, i)
  BY <1>1, IdleFacts
<1>3. Types /\ Known(downtimes, events, lastId, now)
  BY DEF Core
<1>n. lastId \in Nat /\ now \in Nat /\ MaxDowntimes \in Nat /\ lastId <= MaxDowntimes
  BY <1>3, DowntimeAssumption DEF Types
<1>4. /\ restarts' \in 0 .. MaxRestarts /\ depth' \in [Object -> Int] /\ pending' \in [Object -> Int]
      /\ stack' \in Seq(Frames(Ids')) /\ Disciplined(downtimes', stack')
  <2>1. restarts' \in 0 .. MaxRestarts
    BY <1>1, <1>3, DowntimeAssumption DEF Types
  <2>2. depth' \in [Object -> Int] /\ pending' \in [Object -> Int]
    BY <1>1
  <2> QED BY <1>1, <1>2, <2>1, <2>2, NoFrame
<1>5. CASE Loadable
  <2>1. /\ downtimes' = [i \in Valid |->
              [downtimes[i] EXCEPT !.inEffect = FALSE, !.startFlex = FALSE, !.incremented = FALSE]]
        /\ Register /\ up' = up
        /\ lastId' = IF Valid = {} THEN 0 ELSE CHOOSE i \in Valid : \A j \in Valid : j <= i
    BY <1>5 DEF Restart
  <2>2. /\ Valid \subseteq Ids
        /\ \A i \in Ids : downtimes[i].trigger = 0 /\ i \notin Valid => downtimes[i].end < now
    BY ValidFacts DEF Stale
  <2>3. /\ events' \in Seq(Event) /\ Ordered(events')
        /\ \A k \in DOMAIN events' :
             /\ events'[k].id \in Ids /\ downtimes[events'[k].id].trigger = 0
             /\ events'[k].at = downtimes[events'[k].id].start
        /\ \A i \in Ids : downtimes[i].trigger = 0 => HasAt(events', i, downtimes[i].start)
        /\ \A i : HasOne(events', i)
    BY <1>3, <2>1, RegisterFacts
  <2> DEFINE V == Valid
  <2> HIDE DEF V
  <2>4. Ids' = Valid
    BY <2>1 DEF Ids
  <2>5. ASSUME NEW i \in Valid
        PROVE  /\ downtimes'[i] \in Record(i) /\ downtimes'[i].start < downtimes'[i].end
               /\ ~downtimes'[i].inEffect /\ ~downtimes'[i].incremented
               /\ downtimes'[i].start = downtimes[i].start
               /\ downtimes'[i].trigger = downtimes[i].trigger
    <3>1. downtimes[i] \in Record(i) /\ downtimes[i].start < downtimes[i].end
      BY <1>3, <2>2 DEF Types
    <3>2. downtimes'[i] =
            [downtimes[i] EXCEPT !.inEffect = FALSE, !.startFlex = FALSE, !.incremented = FALSE]
      BY <2>1
    <3>3. ASSUME NEW r \in Record(i), NEW v,
                 v = [r EXCEPT !.inEffect = FALSE, !.startFlex = FALSE, !.incremented = FALSE]
          PROVE  /\ v \in Record(i) /\ v.start = r.start /\ v.end = r.end /\ v.trigger = r.trigger
                 /\ ~v.inEffect /\ ~v.incremented
      BY ONLY <3>3 DEF Record
    <3> QED BY <3>1, <3>2, <3>3
  <2>6. lastId' \in 0 .. MaxDowntimes /\ Valid \subseteq 1 .. lastId'
    <3>1. V \in SUBSET (1 .. lastId)
      BY <1>3, <2>2 DEF Types, V
    <3>2. CASE Valid = {}
      BY <1>n, <2>1, <3>2
    <3>3. CASE Valid # {}
      <4> DEFINE m == CHOOSE i \in V : \A j \in V : j <= i
      <4>1. m \in V /\ \A j \in V : j <= m
        BY <1>n, <3>1, <3>3, LargestFacts DEF V
      <4>2. lastId' = m
        BY <2>1, <3>3 DEF V
      <4> HIDE DEF m
      <4>3. m \in 0 .. MaxDowntimes /\ V \subseteq 1 .. m
        BY <1>n, <3>1, <4>1
      <4> QED BY <4>2, <4>3 DEF V
    <3> QED BY <3>2, <3>3
  <2>7. Types'
    BY <1>1, <1>3, <1>4, <2>1, <2>3, <2>4, <2>5, <2>6 DEF Types
  <2>8. Within(downtimes', stack')
    BY <2>4, <2>5 DEF Within, Ids
  <2>9. Known(downtimes', events', lastId', now')
    <3> SUFFICES ASSUME NEW k \in DOMAIN events', events'[k].kind = "scheduled"
                 PROVE  /\ events'[k].id > lastId' => events'[k].at < now
                        /\ ~(events'[k].id \in Ids' /\ downtimes'[events'[k].id].trigger # 0)
      BY <1>1 DEF Known, Ids
    <3> DEFINE i == events'[k].id
    <3>1. i \in Ids /\ downtimes[i].trigger = 0 /\ events'[k].at = downtimes[i].start
      BY <2>3
    <3> HIDE DEF i
    <3>2. i \in Ids' => downtimes'[i].trigger = 0
      BY <2>4, <2>5, <3>1
    <3>3. ASSUME i > lastId' PROVE downtimes[i].start < now
      <4>1. i \notin Valid
        <5> SUFFICES ASSUME i \in Valid PROVE FALSE
          OBVIOUS
        <5>1. i \in 1 .. lastId' /\ lastId' \in Int
          BY <2>6
        <5> QED BY <3>3, <5>1
      <4>2. downtimes[i].end < now
        BY <2>2, <3>1, <4>1
      <4> QED BY <1>3, <1>n, <3>1, <4>2, RecordFields
    <3> QED BY <3>1, <3>2, <3>3 DEF i
  <2>10. Core'
    BY <1>4, <2>7, <2>8, <2>9 DEF Core
  <2>11. \A k \in DOMAIN events' : events'[k].at = downtimes[events'[k].id].start
    BY <2>3
  <2>12. \A i \in Ids' : /\ ~downtimes'[i].inEffect /\ ~downtimes'[i].incremented
                         /\ downtimes'[i].start = downtimes[i].start
                         /\ downtimes'[i].trigger = downtimes[i].trigger
    BY <2>4, <2>5
  <2> QED BY <1>1, <1>2, <2>3, <2>4, <2>10, <2>11, <2>12
<1>6. CASE ~Loadable
  <2>1. up' = FALSE /\ downtimes' = <<>> /\ events' = <<>> /\ lastId' = lastId
    BY <1>6 DEF Restart
  <2>2. Ids' = {} /\ DOMAIN events' = {}
    BY <2>1 DEF Ids
  <2>3. Types'
    <3>1. events' \in Seq(Event) /\ Ordered(events')
      BY <2>1, <2>2 DEF Ordered
    <3> QED BY <1>1, <1>3, <1>4, <2>1, <2>2, <3>1 DEF Types
  <2>4. Within(downtimes', stack') /\ Known(downtimes', events', lastId', now')
    BY <2>2 DEF Within, Known, Ids
  <2>5. Core'
    BY <1>4, <2>3, <2>4 DEF Core
  <2> QED BY <1>1, <1>2, <2>1, <2>2, <2>5
<1> QED BY <1>5, <1>6

\* The steps, with the three outcomes of handle().
LEMMA StepCases ==
  ASSUME Next
  PROVE  \/ \E q \in Requests, p \in Ids \cup {0} : Schedule(q, p)
         \/ \E X \in SUBSET Ids : CancelDowntimes(X)
         \/ \E o \in Object, s \in {"ok", "soft", "hard"} : CheckResult(o, s)
         \/ \E id : DoesWait(id)
         \/ \E id : DoesStop(id)
         \/ \E id : DoesStart(id)
         \/ HandleEach \/ HandleStop \/ Unschedule \/ RunEvent \/ Restart \/ Tick
<1>1. CASE \E q \in Requests, p \in Ids \cup {0} : Schedule(q, p)
  BY <1>1
<1>2. CASE \E i \in Ids : CancelDowntimes({i})
  <2>1. PICK i \in Ids : CancelDowntimes({i})
    BY <1>2
  <2>2. {i} \in SUBSET Ids
    OBVIOUS
  <2>3. \E X \in SUBSET Ids : CancelDowntimes(X)
    BY <2>1, <2>2
  <2> QED BY <2>3
<1>3. CASE \E o \in Object : CancelDowntimes({i \in Ids : downtimes[i].obj = o})
  <2>1. PICK o \in Object : CancelDowntimes({i \in Ids : downtimes[i].obj = o})
    BY <1>3
  <2>2. {i \in Ids : downtimes[i].obj = o} \in SUBSET Ids
    OBVIOUS
  <2>3. \E X \in SUBSET Ids : CancelDowntimes(X)
    BY <2>1, <2>2
  <2> QED BY <2>3
<1>4. CASE \E o \in Checked, s \in {"ok", "soft", "hard"} : CheckResult(o, s)
  <2>1. PICK o \in Checked, s \in {"ok", "soft", "hard"} : CheckResult(o, s)
    BY <1>4
  <2>2. o \in Object
    BY DowntimeAssumption
  <2>3. \E x \in Object, s1 \in {"ok", "soft", "hard"} : CheckResult(x, s1)
    BY <2>1, <2>2
  <2> QED BY <2>3
<1>5. CASE Handle
  BY <1>5, HandleCases
<1> QED BY <1>1, <1>2, <1>3, <1>4, <1>5 DEF Next, MainLoop

LEMMA InitCore == Init => Core
<1> SUFFICES ASSUME Init PROVE Core
  OBVIOUS
<1>1. /\ Ids = {} /\ DOMAIN events = {} /\ stack = <<>> /\ events = <<>>
  BY DEF Init, Ids
<1>2. events \in Seq(Event) /\ Ordered(events)
  BY <1>1 DEF Ordered
<1>3. stack \in Seq(Frames(Ids)) /\ Disciplined(downtimes, stack)
  BY <1>1, NoFrame DEF Ids
<1>4. /\ now \in 1 .. MaxTime /\ lastId \in 0 .. MaxDowntimes /\ checks \in 0 .. MaxChecks
      /\ restarts \in 0 .. MaxRestarts
  BY DowntimeAssumption DEF Init
<1>5. /\ state \in [Object -> {"ok", "soft", "hard"}] /\ depth \in [Object -> Int]
      /\ pending \in [Object -> Int] /\ up \in BOOLEAN
  BY DEF Init
<1>6. Types
  BY <1>1, <1>2, <1>3, <1>4, <1>5 DEF Types
<1>7. Within(downtimes, stack) /\ Known(downtimes, events, lastId, now)
  BY <1>1 DEF Within, Known, Ids
<1> QED BY <1>3, <1>6, <1>7 DEF Core

LEMMA NextCore == Core /\ [Next]_vars => Core'
<1> SUFFICES ASSUME Core, [Next]_vars PROVE Core'
  OBVIOUS
<1>1. CASE UNCHANGED vars
  <2>1. Ids' = Ids
    BY <1>1 DEF vars, Ids
  <2>2. Types'
    BY <1>1, <2>1 DEF vars, Core, Types
  <2> QED BY <1>1, <2>2 DEF vars, Core
<1>2. CASE Next
  BY <1>2, StepCases, ScheduleCore, CancelCore, CheckCore, WaitCore, StopCore, StartCore, EachCore,
     StopStepCore, UnscheduleCore, RunEventCore, RestartCore, TickCore
<1> QED BY <1>1, <1>2

-----------------------------------------------------------------------------
(* The counters *)

LEMMA CountTypes ==
  ASSUME Types, NEW o
  PROVE  /\ IsFiniteSet(Active(downtimes, stack, o)) /\ IsFiniteSet(Awaiting(downtimes, stack, o))
         /\ Cardinality(Active(downtimes, stack, o)) \in 0 .. lastId
         /\ Cardinality(Awaiting(downtimes, stack, o)) \in Nat
<1>1. lastId \in Nat
  BY DowntimeAssumption DEF Types
<1>2. IsFiniteSet(1 .. lastId) /\ Cardinality(1 .. lastId) = lastId
  BY <1>1, FS_Interval
<1>3. /\ Active(downtimes, stack, o) \in SUBSET (1 .. lastId)
      /\ Awaiting(downtimes, stack, o) \in SUBSET (1 .. lastId)
  BY DEF Types, Active, Awaiting, Ids
<1>4. /\ IsFiniteSet(Active(downtimes, stack, o)) /\ IsFiniteSet(Awaiting(downtimes, stack, o))
      /\ Cardinality(Active(downtimes, stack, o)) <= lastId
  BY <1>2, <1>3, FS_Subset
<1>5. /\ Cardinality(Active(downtimes, stack, o)) \in Nat
      /\ Cardinality(Awaiting(downtimes, stack, o)) \in Nat
  BY <1>4, FS_CardinalityType
<1> QED BY <1>1, <1>4, <1>5

\* The sets do not change when the flags, and the downtimes being stopped, do not.
LEMMA SetsSame ==
  ASSUME NEW D, NEW E, NEW s, NEW u, DOMAIN E = DOMAIN D,
         \A i \in DOMAIN D : /\ E[i].obj = D[i].obj /\ E[i].fixed = D[i].fixed
                             /\ E[i].inEffect = D[i].inEffect /\ E[i].incremented = D[i].incremented
                             /\ Among(u, {"stop"}, i) <=> Among(s, {"stop"}, i)
  PROVE  \A o : Active(E, u, o) = Active(D, s, o) /\ Awaiting(E, u, o) = Awaiting(D, s, o)
  BY DEF Active, Awaiting

LEMMA CountsSame ==
  ASSUME Core, Counted, depth' = depth, pending' = pending,
         \A o \in Object : /\ Active(downtimes', stack', o) = Active(downtimes, stack, o)
                           /\ Awaiting(downtimes', stack', o) \subseteq Awaiting(downtimes, stack, o)
  PROVE  Counted'
<1> SUFFICES ASSUME NEW o \in Object
             PROVE  /\ depth'[o] = Cardinality(Active(downtimes', stack', o))
                    /\ Cardinality(Awaiting(downtimes', stack', o)) <= pending'[o]
  BY DEF Counted
<1> DEFINE A == Awaiting(downtimes, stack, o)
           B == Awaiting(downtimes', stack', o)
<1>1. IsFiniteSet(A) /\ Cardinality(A) \in Nat /\ Cardinality(A) <= pending[o] /\ B \in SUBSET A
  BY CountTypes DEF Core, Counted
<1>2. pending[o] \in Int
  BY DEF Core, Types
<1> HIDE DEF A, B
<1>3. IsFiniteSet(B) /\ Cardinality(B) <= Cardinality(A)
  BY <1>1, FS_Subset
<1>4. Cardinality(B) \in Nat
  BY <1>3, FS_CardinalityType
<1>5. Cardinality(B) <= pending[o]
  BY <1>1, <1>2, <1>3, <1>4
<1> QED BY <1>5 DEF Counted, B

\* Sets with one element more or less.
LEMMA OneMore ==
  ASSUME NEW A, IsFiniteSet(A), NEW x
  PROVE  /\ IsFiniteSet(A \cup {x}) /\ Cardinality(A) \in Nat
         /\ Cardinality(A \cup {x}) \in Nat /\ Cardinality(A \cup {x}) <= Cardinality(A) + 1
         /\ x \notin A => Cardinality(A \cup {x}) = Cardinality(A) + 1
<1>1. /\ IsFiniteSet(A \cup {x})
      /\ Cardinality(A \cup {x}) = IF x \in A THEN Cardinality(A) ELSE Cardinality(A) + 1
  BY FS_AddElement
<1>2. Cardinality(A) \in Nat
  BY FS_CardinalityType
<1>3. Cardinality(A \cup {x}) \in Nat
  BY <1>1, FS_CardinalityType
<1>4. CASE x \in A
  BY <1>1, <1>2, <1>3, <1>4
<1>5. CASE x \notin A
  BY <1>1, <1>2, <1>3, <1>5
<1> QED BY <1>4, <1>5

LEMMA OneLess ==
  ASSUME NEW A, IsFiniteSet(A), NEW x
  PROVE  /\ IsFiniteSet(A \ {x}) /\ Cardinality(A) \in Nat /\ Cardinality(A \ {x}) \in Nat
         /\ x \in A => Cardinality(A) > 0 /\ Cardinality(A \ {x}) = Cardinality(A) - 1
         /\ x \notin A => Cardinality(A \ {x}) = Cardinality(A)
<1>1. /\ IsFiniteSet(A \ {x})
      /\ Cardinality(A \ {x}) = IF x \in A THEN Cardinality(A) - 1 ELSE Cardinality(A)
  BY FS_RemoveElement
<1>2. Cardinality(A) \in Nat
  BY FS_CardinalityType
<1>3. Cardinality(A \ {x}) \in Nat
  BY <1>1, FS_CardinalityType
<1>4. CASE x \in A
  <2>1. Cardinality(A \ {x}) = Cardinality(A) - 1
    BY <1>1, <1>4
  <2>2. Cardinality(A) > 0
    BY <1>2, <1>3, <2>1
  <2> QED BY <1>1, <1>2, <1>3, <1>4, <2>1, <2>2
<1>5. CASE x \notin A
  BY <1>1, <1>2, <1>3, <1>5
<1> QED BY <1>4, <1>5

LEMMA WaitCounted ==
  ASSUME Core, Counted, NEW id, DoesWait(id)
  PROVE  Counted'
<1>1. /\ Touched(downtimes, downtimes', id) /\ downtimes'[id].incremented
      /\ downtimes'[id].inEffect = downtimes[id].inEffect
      /\ \A kinds, i : Among(stack', kinds, i) <=> i # id /\ Among(stack, kinds, i)
  BY WaitCore
<1>2. id \in Ids /\ ~Among(stack, {"stop"}, id)
  BY DoingFacts DEF DoesWait
<1> DEFINE x == downtimes[id].obj
<1>3. x \in Object /\ depth' = depth /\ pending' = [pending EXCEPT ![x] = @ + 1]
  BY <1>2, RecordFields DEF Core, DoesWait, Wait
<1> SUFFICES ASSUME NEW o \in Object
             PROVE  /\ depth'[o] = Cardinality(Active(downtimes', stack', o))
                    /\ Cardinality(Awaiting(downtimes', stack', o)) <= pending'[o]
  BY DEF Counted
<1>4. Active(downtimes', stack', o) = Active(downtimes, stack, o)
  BY <1>1, <1>2 DEF Touched, Active
<1> DEFINE A == Awaiting(downtimes, stack, o)
           B == Awaiting(downtimes', stack', o)
<1>5. IsFiniteSet(A) /\ Cardinality(A) \in Nat /\ Cardinality(A) <= pending[o] /\ pending \in [Object -> Int]
  BY CountTypes DEF Core, Counted, Types
<1>6. B \in SUBSET (A \cup {id}) /\ (o # x => B \in SUBSET A)
  BY <1>1, <1>2 DEF Touched, Awaiting
<1> HIDE DEF A, B, x
<1>7. Cardinality(B) <= pending'[o]
  <2>1. CASE o # x
    <3>1. Cardinality(B) <= Cardinality(A) /\ IsFiniteSet(B)
      BY <1>5, <1>6, <2>1, FS_Subset
    <3>2. Cardinality(B) \in Nat
      BY <3>1, FS_CardinalityType
    <3>3. pending'[o] = pending[o] /\ pending[o] \in Int
      BY <1>3, <1>5, <2>1
    <3> QED BY <1>5, <3>1, <3>2, <3>3
  <2>2. CASE o = x
    <3>1. IsFiniteSet(A \cup {id}) /\ Cardinality(A \cup {id}) <= Cardinality(A) + 1
      BY <1>5, OneMore
    <3>2. Cardinality(B) <= Cardinality(A \cup {id}) /\ IsFiniteSet(B)
      BY <1>6, <3>1, FS_Subset
    <3>3. Cardinality(B) \in Nat /\ Cardinality(A \cup {id}) \in Nat
      BY <3>1, <3>2, FS_CardinalityType
    <3>4. pending'[o] = pending[o] + 1 /\ pending[o] \in Int
      BY <1>3, <1>5, <2>2
    <3> QED BY <1>5, <3>1, <3>2, <3>3, <3>4
  <2> QED BY <2>1, <2>2
<1> QED BY <1>3, <1>4, <1>7 DEF Counted, B

LEMMA StartCounted ==
  ASSUME Core, Counted, NEW id, DoesStart(id)
  PROVE  Counted'
<1>1. /\ Touched(downtimes, downtimes', id) /\ downtimes'[id].inEffect
      /\ downtimes'[id].incremented = downtimes[id].incremented
      /\ \A i : Among(stack', {"stop"}, i) <=> i # id /\ Among(stack, {"stop"}, i)
  BY StartCore
<1>2. id \in Ids /\ ~Among(stack, {"stop"}, id) /\ ~downtimes[id].inEffect
  BY DoingFacts DEF DoesStart
<1> DEFINE x == downtimes[id].obj
<1>3. x \in Object /\ pending' = pending /\ depth' = [depth EXCEPT ![x] = @ + 1]
  BY <1>2, RecordFields DEF Core, DoesStart, Start
<1> SUFFICES ASSUME NEW o \in Object
             PROVE  /\ depth'[o] = Cardinality(Active(downtimes', stack', o))
                    /\ Cardinality(Awaiting(downtimes', stack', o)) <= pending'[o]
  BY DEF Counted
<1>4. Awaiting(downtimes', stack', o) = Awaiting(downtimes, stack, o)
  BY <1>1, <1>2 DEF Touched, Awaiting
<1> DEFINE A == Active(downtimes, stack, o)
           B == Active(downtimes', stack', o)
<1>5. IsFiniteSet(A) /\ Cardinality(A) = depth[o] /\ depth \in [Object -> Int]
  BY CountTypes DEF Core, Counted, Types
<1>6. id \notin A
  BY <1>2 DEF Active
<1>7. o # x => B = A
  BY <1>1, <1>2 DEF Touched, Active
<1>8. o = x => B = A \cup {id}
  BY <1>1, <1>2 DEF Touched, Active, Ids
<1> HIDE DEF A, B, x
<1>9. depth'[o] = Cardinality(B)
  <2>1. CASE o # x
    BY <1>3, <1>5, <1>7, <2>1
  <2>2. CASE o = x
    <3>1. depth'[o] = depth[o] + 1
      BY <1>3, <1>5, <2>2
    <3>2. Cardinality(B) = Cardinality(A) + 1
      BY <1>5, <1>6, <1>8, <2>2, OneMore
    <3> QED BY <1>5, <3>1, <3>2
  <2> QED BY <2>1, <2>2
<1>10. Cardinality(Awaiting(downtimes, stack, o)) <= pending[o]
  BY DEF Counted
<1> QED BY <1>3, <1>4, <1>9, <1>10 DEF B

\* The end of a downtime: id is out of what is counted, and the counters that it
\* was in are decremented.
LEMMA LeaveCounted ==
  ASSUME Core, Counted, NEW id \in Ids, ~Among(stack, {"stop"}, id),
         \A o \in Object :
            /\ Active(downtimes', stack', o) = Active(downtimes, stack, o) \ {id}
            /\ Awaiting(downtimes', stack', o) = Awaiting(downtimes, stack, o) \ {id},
         NEW x, x = downtimes[id].obj,
         depth' = [depth EXCEPT ![x] = IF downtimes[id].inEffect THEN @ - 1 ELSE @],
         \/ pending' = Uncounted(downtimes[id])
         \/ pending' = [pending EXCEPT ![x] =
              IF ~downtimes[id].fixed /\ downtimes[id].incremented THEN @ - 1 ELSE @]
  PROVE  Counted'
<1> SUFFICES ASSUME NEW o \in Object
             PROVE  /\ depth'[o] = Cardinality(Active(downtimes', stack', o))
                    /\ Cardinality(Awaiting(downtimes', stack', o)) <= pending'[o]
  BY DEF Counted
<1> DEFINE A == Active(downtimes, stack, o)
           W == Awaiting(downtimes, stack, o)
           on == downtimes[id].inEffect
           waited == ~downtimes[id].fixed /\ downtimes[id].incremented
<1>1. /\ IsFiniteSet(A) /\ IsFiniteSet(W) /\ depth[o] = Cardinality(A) /\ Cardinality(W) <= pending[o]
      /\ depth \in [Object -> Int] /\ pending \in [Object -> Int] /\ x \in Object
  BY CountTypes, RecordFields DEF Core, Counted, Types
<1>2. (id \in A <=> o = x /\ on) /\ (id \in W <=> o = x /\ waited)
  BY DEF Active, Awaiting, Ids
<1>3. /\ depth' = [depth EXCEPT ![x] = IF on THEN @ - 1 ELSE @]
      /\ \/ pending' = [pending EXCEPT ![x] = IF waited /\ @ > 0 THEN @ - 1 ELSE @]
         \/ pending' = [pending EXCEPT ![x] = IF waited THEN @ - 1 ELSE @]
  BY DEF Uncounted
<1>4. Active(downtimes', stack', o) = A \ {id} /\ Awaiting(downtimes', stack', o) = W \ {id}
  OBVIOUS
<1> HIDE DEF A, W, on, waited
<1>5. depth'[o] = Cardinality(A \ {id})
  <2>1. CASE id \in A
    <3>1. depth'[o] = depth[o] - 1
      BY <1>1, <1>2, <1>3, <2>1
    <3> QED BY <1>1, <2>1, <3>1, OneLess
  <2>2. CASE id \notin A
    <3>1. depth'[o] = depth[o]
      BY <1>1, <1>2, <1>3, <2>2
    <3> QED BY <1>1, <2>2, <3>1, OneLess
  <2> QED BY <2>1, <2>2
<1>6. Cardinality(W \ {id}) <= pending'[o]
  <2>1. CASE id \in W
    <3>1. /\ Cardinality(W) \in Nat /\ Cardinality(W) > 0 /\ pending[o] \in Int
          /\ Cardinality(W \ {id}) = Cardinality(W) - 1
      BY <1>1, <2>1, OneLess
    <3>2. pending[o] > 0
      BY <1>1, <3>1
    <3>3. pending'[o] = pending[o] - 1
      BY <1>1, <1>2, <1>3, <2>1, <3>2
    <3> QED BY <1>1, <3>1, <3>3
  <2>2. CASE id \notin W
    <3>1. pending'[o] = pending[o]
      BY <1>1, <1>2, <1>3, <2>2
    <3> QED BY <1>1, <2>2, <3>1, OneLess
  <2> QED BY <2>1, <2>2
<1> QED BY <1>4, <1>5, <1>6

LEMMA StopCounted ==
  ASSUME Core, Counted, NEW id, DoesStop(id)
  PROVE  Counted'
<1>1. /\ downtimes' = downtimes /\ Among(stack', {"stop"}, id)
      /\ \A i : i # id => (Among(stack', {"stop"}, i) <=> Among(stack, {"stop"}, i))
  BY StopCore
<1>2. id \in Ids /\ ~Among(stack, {"stop"}, id) /\ downtimes[id].inEffect
  BY DoingFacts DEF DoesStop
<1>3. \A o \in Object :
            /\ Active(downtimes', stack', o) = Active(downtimes, stack, o) \ {id}
            /\ Awaiting(downtimes', stack', o) = Awaiting(downtimes, stack, o) \ {id}
  BY <1>1, <1>2 DEF Active, Awaiting
<1> DEFINE x == downtimes[id].obj
<1>4. depth' = [depth EXCEPT ![x] = @ - 1] /\ pending' = Uncounted(downtimes[id])
  BY DEF DoesStop, BeginStop
<1>5. depth' = [depth EXCEPT ![x] = IF downtimes[id].inEffect THEN @ - 1 ELSE @]
  BY <1>2, <1>4
<1> QED BY <1>2, <1>3, <1>4, <1>5, LeaveCounted

LEMMA UnscheduleCounted ==
  ASSUME Core, Counted, Unschedule
  PROVE  Counted'
<1>1. /\ \A i : ~Among(stack, {"stop"}, i) /\ ~Among(stack', {"stop"}, i)
      /\ \/ UNCHANGED <<downtimes, depth, pending>>
         \/ \E id \in Ids :
                 /\ downtimes' = [c \in Ids \ {id} |-> downtimes[c]]
                 /\ depth' = Uncovered(downtimes[id])
                 /\ pending' = [pending EXCEPT ![downtimes[id].obj] =
                      IF ~downtimes[id].fixed /\ downtimes[id].incremented THEN @ - 1 ELSE @]
  BY UnscheduleCore
<1>2. CASE UNCHANGED <<downtimes, depth, pending>>
  <2>1. \A o : /\ Active(downtimes', stack', o) = Active(downtimes, stack, o)
               /\ Awaiting(downtimes', stack', o) = Awaiting(downtimes, stack, o)
    BY <1>1, <1>2 DEF Active, Awaiting
  <2> QED BY <1>2, <2>1, CountsSame
<1>3. CASE \E id \in Ids :
                 /\ downtimes' = [c \in Ids \ {id} |-> downtimes[c]]
                 /\ depth' = Uncovered(downtimes[id])
                 /\ pending' = [pending EXCEPT ![downtimes[id].obj] =
                      IF ~downtimes[id].fixed /\ downtimes[id].incremented THEN @ - 1 ELSE @]
  <2>1. PICK id \in Ids :
                 /\ downtimes' = [c \in Ids \ {id} |-> downtimes[c]]
                 /\ depth' = Uncovered(downtimes[id])
                 /\ pending' = [pending EXCEPT ![downtimes[id].obj] =
                      IF ~downtimes[id].fixed /\ downtimes[id].incremented THEN @ - 1 ELSE @]
    BY <1>3
  <2>2. /\ DOMAIN downtimes' = DOMAIN downtimes \ {id}
        /\ \A c \in DOMAIN downtimes' : downtimes'[c] = downtimes[c]
    BY <2>1 DEF Ids
  <2>3. \A o \in Object :
            /\ Active(downtimes', stack', o) = Active(downtimes, stack, o) \ {id}
            /\ Awaiting(downtimes', stack', o) = Awaiting(downtimes, stack, o) \ {id}
    BY <1>1, <2>2 DEF Active, Awaiting
  <2>4. depth' = [depth EXCEPT ![downtimes[id].obj] = IF downtimes[id].inEffect THEN @ - 1 ELSE @]
    BY <2>1 DEF Uncovered
  <2> QED BY <1>1, <2>1, <2>3, <2>4, LeaveCounted
<1> QED BY <1>1, <1>2, <1>3

LEMMA EachCounted ==
  ASSUME Core, Counted, HandleEach
  PROVE  Counted'
<1>1. /\ downtimes' = downtimes /\ depth' = depth /\ pending' = pending
      /\ \A i : Among(stack', {"stop"}, i) <=> Among(stack, {"stop"}, i)
  BY EachCore DEF SameCalls
<1>2. \A o : /\ Active(downtimes', stack', o) = Active(downtimes, stack, o)
             /\ Awaiting(downtimes', stack', o) = Awaiting(downtimes, stack, o)
  BY <1>1, SetsSame
<1> QED BY <1>1, <1>2, CountsSame

LEMMA StopStepCounted ==
  ASSUME Core, Counted, HandleStop
  PROVE  Counted'
<1>1. depth' = depth /\ pending' = pending
  BY StopStepCore
<1>2. CASE downtimes' = downtimes /\ \A i : Among(stack', {"stop"}, i) <=> Among(stack, {"stop"}, i)
  <2>1. \A o : /\ Active(downtimes', stack', o) = Active(downtimes, stack, o)
               /\ Awaiting(downtimes', stack', o) = Awaiting(downtimes, stack, o)
    BY <1>2, SetsSame
  <2> QED BY <1>1, <2>1, CountsSame
<1>3. CASE \E id \in Ids :
                 /\ downtimes' = [c \in Ids \ {id} |-> downtimes[c]]
                 /\ Among(stack, {"stop"}, id)
                 /\ \A i : i # id => (Among(stack', {"stop"}, i) <=> Among(stack, {"stop"}, i))
  <2>1. PICK id \in Ids :
                 /\ downtimes' = [c \in Ids \ {id} |-> downtimes[c]]
                 /\ Among(stack, {"stop"}, id)
                 /\ \A i : i # id => (Among(stack', {"stop"}, i) <=> Among(stack, {"stop"}, i))
    BY <1>3
  <2>2. /\ DOMAIN downtimes' = DOMAIN downtimes \ {id}
        /\ \A c \in DOMAIN downtimes' : downtimes'[c] = downtimes[c]
    BY <2>1 DEF Ids
  <2>3. \A o : /\ Active(downtimes', stack', o) = Active(downtimes, stack, o)
               /\ Awaiting(downtimes', stack', o) = Awaiting(downtimes, stack, o)
    BY <2>1, <2>2 DEF Active, Awaiting
  <2> QED BY <1>1, <2>3, CountsSame
<1> QED BY <1>2, <1>3, StopStepCore DEF SameCalls

LEMMA RunEventCounted ==
  ASSUME Core, Counted, RunEvent
  PROVE  Counted'
<1>1. depth' = depth /\ pending' = pending /\ \A i : ~Among(stack, {"stop"}, i) /\ ~Among(stack', {"stop"}, i)
  BY RunEventCore
<1>2. CASE downtimes' = downtimes
  <2>1. \A o : /\ Active(downtimes', stack', o) = Active(downtimes, stack, o)
               /\ Awaiting(downtimes', stack', o) = Awaiting(downtimes, stack, o)
    BY <1>1, <1>2, SetsSame
  <2> QED BY <1>1, <2>1, CountsSame
<1>3. CASE downtimes' = [c \in {i \in Ids : ~Expired(downtimes[i])} |-> downtimes[c]]
  <2>1. /\ DOMAIN downtimes' \subseteq DOMAIN downtimes
        /\ \A c \in DOMAIN downtimes' : downtimes'[c] = downtimes[c]
    BY <1>3 DEF Ids
  <2>2. \A c \in DOMAIN downtimes : downtimes[c].inEffect => c \in DOMAIN downtimes'
    BY <1>3 DEF Ids, Expired
  <2>3. \A o : Active(downtimes', stack', o) = Active(downtimes, stack, o)
    BY <1>1, <2>1, <2>2 DEF Active
  <2>4. \A o : Awaiting(downtimes', stack', o) \subseteq Awaiting(downtimes, stack, o)
    BY <1>1, <2>1 DEF Awaiting
  <2> QED BY <1>1, <2>3, <2>4, CountsSame
<1> QED BY <1>2, <1>3, RunEventCore

LEMMA CheckCounted ==
  ASSUME Core, Counted, NEW o \in Object, NEW s \in {"ok", "soft", "hard"}, CheckResult(o, s)
  PROVE  Counted'
<1>1. /\ depth' = depth /\ pending' = pending /\ Ids' = Ids
      /\ \A i \in Ids : SameRecord(downtimes[i], downtimes'[i])
      /\ \A i : ~Among(stack, {"stop"}, i) /\ ~Among(stack', {"stop"}, i)
  BY CheckCore
<1>2. \A x : /\ Active(downtimes', stack', x) = Active(downtimes, stack, x)
             /\ Awaiting(downtimes', stack', x) = Awaiting(downtimes, stack, x)
  BY <1>1, SetsSame DEF SameRecord, Ids
<1> QED BY <1>1, <1>2, CountsSame

LEMMA ScheduleCounted ==
  ASSUME Core, Counted, NEW q \in Requests, NEW p \in Ids \cup {0}, Schedule(q, p)
  PROVE  Counted'
<1>1. /\ depth' = depth /\ pending' = pending /\ stack' = stack /\ Ids \subseteq Ids'
      /\ \A i \in Ids : downtimes'[i] = downtimes[i]
      /\ \A i \in Ids' \ Ids : ~downtimes'[i].inEffect /\ ~downtimes'[i].incremented
  BY ScheduleCore
<1>2. \A x : /\ Active(downtimes', stack', x) = Active(downtimes, stack, x)
             /\ Awaiting(downtimes', stack', x) = Awaiting(downtimes, stack, x)
  BY <1>1 DEF Active, Awaiting, Ids
<1> QED BY <1>1, <1>2, CountsSame

LEMMA NoneCounted ==
  ASSUME \A i \in Ids : ~downtimes[i].inEffect /\ ~downtimes[i].incremented,
         depth = [o \in Object |-> 0], pending = [o \in Object |-> 0]
  PROVE  Counted
<1>1. \A o : Active(downtimes, stack, o) = {} /\ Awaiting(downtimes, stack, o) = {}
  BY DEF Active, Awaiting, Ids
<1>2. Cardinality({}) = 0
  BY FS_EmptySet
<1>3. ASSUME NEW o \in Object PROVE depth[o] = 0 /\ pending[o] = 0
  OBVIOUS
<1> QED BY <1>1, <1>2, <1>3 DEF Counted

LEMMA InitCounted == Init => Counted
  BY NoneCounted DEF Init, Ids

LEMMA RestartCounted ==
  ASSUME Core, Restart
  PROVE  Counted'
<1>1. /\ \A i \in Ids' : ~downtimes'[i].inEffect /\ ~downtimes'[i].incremented
      /\ depth' = [o \in Object |-> 0] /\ pending' = [o \in Object |-> 0]
  BY RestartCore
<1>2. \A o : Active(downtimes', stack', o) = {} /\ Awaiting(downtimes', stack', o) = {}
  BY <1>1 DEF Active, Awaiting, Ids
<1>3. Cardinality({}) = 0
  BY FS_EmptySet
<1>4. ASSUME NEW o \in Object PROVE depth'[o] = 0 /\ pending'[o] = 0
  BY <1>1
<1> QED BY <1>2, <1>3, <1>4 DEF Counted

LEMMA CancelCounted ==
  ASSUME Core, Counted, NEW X \in SUBSET Ids, CancelDowntimes(X)
  PROVE  Counted'
<1>1. /\ depth' = depth /\ pending' = pending /\ downtimes' = downtimes
      /\ \A i : Among(stack', {"stop"}, i) <=> Among(stack, {"stop"}, i)
  BY CancelCore DEF CancelDowntimes
<1>2. \A o : /\ Active(downtimes', stack', o) = Active(downtimes, stack, o)
             /\ Awaiting(downtimes', stack', o) = Awaiting(downtimes, stack, o)
  BY <1>1, SetsSame
<1> QED BY <1>1, <1>2, CountsSame

LEMMA TickCounted ==
  ASSUME Core, Counted, Tick
  PROVE  Counted'
<1>1. depth' = depth /\ pending' = pending /\ downtimes' = downtimes /\ stack' = stack
  BY TickCore
<1> QED BY <1>1 DEF Counted

LEMMA NextCounted == Core /\ Counted /\ [Next]_vars => Counted'
<1> SUFFICES ASSUME Core, Counted, [Next]_vars PROVE Counted'
  OBVIOUS
<1>1. CASE UNCHANGED vars
  BY <1>1 DEF vars, Counted
<1>2. CASE Next
  BY <1>2, StepCases, ScheduleCounted, CancelCounted, CheckCounted, WaitCounted, StopCounted,
     StartCounted, EachCounted, StopStepCounted, UnscheduleCounted, RunEventCounted,
     RestartCounted, TickCounted
<1> QED BY <1>1, <1>2

-----------------------------------------------------------------------------
(* The windows *)

\* What is said of the events of i in q holds of those in r.
SameEvents(q, r, i) ==
  /\ HasOne(q, i) => HasOne(r, i)
  /\ HasNone(q, i) => HasNone(r, i)
  /\ \A t : HasAt(q, i, t) => HasAt(r, i, t)
  /\ \A t : NotBefore(q, i, t) => NotBefore(r, i, t)

LEMMA AddedOther ==
  ASSUME NEW q \in Seq(Event), NEW e \in Event, Ordered(q), NEW i, ~Of(e, i)
  PROVE  SameEvents(q, AddEvent(q, e), i)
<1> DEFINE r == AddEvent(q, e)
<1>1. /\ \A k \in DOMAIN r : r[k] = e \/ \E j \in DOMAIN q : r[k] = q[j]
      /\ \A t : HasAt(q, i, t) => HasAt(r, i, t)
  BY Added
<1>2. HasNone(q, i) => HasNone(r, i)
  BY Added
<1>3. HasOne(q, i) => HasOne(r, i)
  BY Added
<1> HIDE DEF r
<1>4. ASSUME NEW t, NotBefore(q, i, t) PROVE NotBefore(r, i, t)
  <2> SUFFICES ASSUME NEW k \in DOMAIN r, Of(r[k], i) PROVE t <= r[k].at
    BY DEF NotBefore
  <2>1. PICK j \in DOMAIN q : r[k] = q[j]
    BY <1>1
  <2> QED BY <1>4, <2>1 DEF NotBefore
<1> QED BY <1>1, <1>2, <1>3, <1>4 DEF SameEvents, r

LEMMA AddedAfter ==
  ASSUME NEW q \in Seq(Event), NEW e \in Event, Ordered(q), NEW i, NEW t, NotBefore(q, i, t), t <= e.at
  PROVE  NotBefore(AddEvent(q, e), i, t)
<1> DEFINE r == AddEvent(q, e)
<1>1. \A k \in DOMAIN r : r[k] = e \/ \E j \in DOMAIN q : r[k] = q[j]
  BY Added
<1> HIDE DEF r
<1>2. ASSUME NEW k \in DOMAIN r, Of(r[k], i) PROVE t <= r[k].at
  <2>1. CASE r[k] = e
    BY <2>1
  <2>2. CASE \E j \in DOMAIN q : r[k] = q[j]
    <3>1. PICK j \in DOMAIN q : r[k] = q[j]
      BY <2>2
    <3> QED BY <1>2, <3>1 DEF NotBefore
  <2> QED BY <1>1, <2>1, <2>2
<1> QED BY <1>2 DEF NotBefore, r

LEMMA PoppedAfter ==
  ASSUME NEW q \in Seq(Event), Ordered(q), q # <<>>, NEW i
  PROVE  /\ \A t : NotBefore(q, i, t) => NotBefore(Tail(q), i, t)
         /\ ~Of(Head(q), i) => SameEvents(q, Tail(q), i)
<1> DEFINE r == Tail(q)
<1>1. /\ \A k \in DOMAIN r : \E j \in DOMAIN q : r[k] = q[j]
      /\ \A t : HasAt(q, i, t) /\ ~Of(Head(q), i) => HasAt(r, i, t)
      /\ HasOne(q, i) => HasOne(r, i)
  BY Popped
<1> HIDE DEF r
<1>2. ASSUME NEW t, NotBefore(q, i, t) PROVE NotBefore(r, i, t)
  <2> SUFFICES ASSUME NEW k \in DOMAIN r, Of(r[k], i) PROVE t <= r[k].at
    BY DEF NotBefore
  <2>1. PICK j \in DOMAIN q : r[k] = q[j]
    BY <1>1
  <2> QED BY <1>2, <2>1 DEF NotBefore
<1>3. HasNone(q, i) => HasNone(r, i)
  BY <1>1 DEF HasNone
<1> QED BY <1>1, <1>2, <1>3 DEF SameEvents, r

\* The calls about i that the windows tell apart.
CallsSame(s, u, i) ==
  /\ Among(u, {"each"}, i) <=> Among(s, {"each"}, i)
  /\ Among(u, {"handle", "stop"}, i) <=> Among(s, {"handle", "stop"}, i)
  /\ Among(u, {"handle", "each"}, i) <=> Among(s, {"handle", "each"}, i)

Kept(d, s, q, t, hard, i) == FixedKept(d, s, q, t, i) /\ FlexKept(d, s, q, t, hard, i)

LEMMA WindowsKept ==
  /\ Windows <=> \A i \in Ids :
                   Kept(downtimes[i], stack, events, now, state[downtimes[i].obj] = "hard", i)
  /\ Windows' <=> \A i \in Ids' :
                    Kept(downtimes'[i], stack', events', now', state'[downtimes'[i].obj] = "hard", i)
  BY DEF Windows, Kept

LEMMA KeptSame ==
  ASSUME NEW d, NEW s, NEW u, NEW q, NEW r, NEW t, NEW hard, NEW i,
         Kept(d, s, q, t, hard, i), d.trigger = 0 => CallsSame(s, u, i), SameEvents(q, r, i)
  PROVE  Kept(d, u, r, t, hard, i)
<1>1. FixedKept(d, u, r, t, i)
  BY DEF Kept, FixedKept, CallsSame, SameEvents
<1>2. FlexKept(d, u, r, t, hard, i)
  BY DEF Kept, FlexKept, CallsSame, SameEvents
<1> QED BY <1>1, <1>2 DEF Kept

LEMMA TriggeredKept ==
  ASSUME NEW d, NEW s, NEW q, NEW t, NEW hard, NEW i, d.trigger # 0
  PROVE  Kept(d, s, q, t, hard, i)
  BY DEF Kept, FixedKept, FlexKept

LEMMA SameSame == \A q, i : SameEvents(q, q, i)
  BY DEF SameEvents

LEMMA WaitWindows ==
  ASSUME Core, Windows, NEW id, DoesWait(id)
  PROVE  Windows'
<1>1. /\ Core' /\ Touched(downtimes, downtimes', id) /\ downtimes'[id].incremented
      /\ downtimes'[id].inEffect = downtimes[id].inEffect
      /\ Expire(downtimes[id].end + 1) \in Event
      /\ \A kinds, i : Among(stack', kinds, i) <=> i # id /\ Among(stack, kinds, i)
  BY WaitCore
<1>2. id \in Ids /\ Among(stack, {"handle", "each"}, id)
  BY DoingFacts DEF DoesWait
<1>3. /\ events' = AddEvent(events, Expire(downtimes[id].end + 1)) /\ now' = now /\ state' = state
      /\ ~downtimes[id].fixed /\ state[downtimes[id].obj] = "ok"
  BY DEF DoesWait, Doing, Wait, Waits
<1>4. events \in Seq(Event) /\ Ordered(events) /\ \A i : ~Of(Expire(downtimes[id].end + 1), i)
  BY <1>2, RecordFields, ExpireFields DEF Core, Types
<1>5. \A i : SameEvents(events, events', i)
  BY <1>1, <1>3, <1>4, AddedOther
<1> SUFFICES ASSUME NEW i \in Ids'
             PROVE  Kept(downtimes'[i], stack', events', now', state'[downtimes'[i].obj] = "hard", i)
  BY WindowsKept
<1>6. i \in Ids /\ Kept(downtimes[i], stack, events, now, state[downtimes[i].obj] = "hard", i)
  BY <1>1, WindowsKept DEF Touched, Ids
<1>7. CASE i # id
  <2>1. downtimes'[i] = downtimes[i] /\ CallsSame(stack, stack', i)
    BY <1>1, <1>6, <1>7 DEF Touched, CallsSame, Ids
  <2> QED BY <1>3, <1>5, <1>6, <2>1, KeptSame
<1>8. CASE i = id
  <2> DEFINE d == downtimes[id]
             e == downtimes'[id]
  <2>1. /\ e.fixed = d.fixed /\ e.trigger = d.trigger /\ e.start = d.start /\ e.obj = d.obj
        /\ e.incremented /\ ~d.fixed /\ state'[e.obj] # "hard"
    BY <1>1, <1>3 DEF Touched
  <2>2. FlexKept(d, stack, events, now, state[d.obj] = "hard", id)
    BY <1>6, <1>8 DEF Kept
  <2> HIDE DEF d, e
  <2>3. FixedKept(e, stack', events', now', id)
    BY <2>1 DEF FixedKept
  <2>4. FlexKept(e, stack', events', now', state'[e.obj] = "hard", id)
    <3>1. d.trigger = 0 => d.start <= now /\ NotBefore(events, id, d.start)
      BY <1>2, <2>1, <2>2 DEF FlexKept
    <3>2. e.trigger = 0 => e.start <= now' /\ NotBefore(events', id, e.start)
      BY <1>3, <1>5, <2>1, <3>1 DEF SameEvents
    <3> QED BY <2>1, <3>2 DEF FlexKept
  <2> QED BY <1>8, <2>3, <2>4 DEF Kept, e
<1> QED BY <1>7, <1>8

LEMMA StopWindows ==
  ASSUME Core, Windows, NEW id, DoesStop(id)
  PROVE  Windows'
<1>1. /\ downtimes' = downtimes /\ events' = events
      /\ \A kinds : Among(stack', kinds, id) <=> "stop" \in kinds
      /\ \A kinds, i : i # id => (Among(stack', kinds, i) <=> Among(stack, kinds, i))
  BY StopCore
<1>2. /\ id \in Ids /\ Among(stack, {"handle", "each"}, id) /\ Among(stack, {"handle", "stop"}, id)
      /\ ~Among(stack, {"each"}, id)
  BY DoingFacts DEF DoesStop
<1>3. now' = now /\ state' = state /\ downtimes[id].inEffect
  BY DEF DoesStop, Doing
<1>4. ASSUME NEW i \in Ids' 
      PROVE  Kept(downtimes'[i], stack', events', now', state'[downtimes'[i].obj] = "hard", i)
  <2>1. i \in Ids /\ Kept(downtimes[i], stack, events, now, state[downtimes[i].obj] = "hard", i)
    BY <1>1, WindowsKept DEF Ids
  <2>2. CASE i # id
    <3>1. CallsSame(stack, stack', i)
      BY <1>1, <2>2 DEF CallsSame
    <3> QED BY <1>1, <1>3, <2>1, <3>1, SameSame, KeptSame
  <2>3. CASE i = id
    <3> DEFINE d == downtimes[id]
               hard == state[d.obj] = "hard"
    <3>1. FixedKept(d, stack, events, now, id) /\ FlexKept(d, stack, events, now, hard, id) /\ d.inEffect
      BY <1>3, <2>1, <2>3 DEF Kept
    <3> HIDE DEF d, hard
    <3>2. /\ ~Among(stack', {"each"}, id) /\ Among(stack', {"handle", "stop"}, id)
          /\ ~Among(stack', {"handle", "each"}, id)
      BY <1>1
    <3>3. FixedKept(d, stack', events, now, id)
      BY <1>2, <3>1, <3>2 DEF FixedKept
    <3>4. FlexKept(d, stack', events, now, hard, id)
      BY <1>2, <3>1, <3>2 DEF FlexKept
    <3> QED BY <1>1, <1>3, <2>3, <3>3, <3>4 DEF Kept, d, hard
  <2> QED BY <2>2, <2>3
<1> QED BY <1>4, WindowsKept

LEMMA StartWindows ==
  ASSUME Core, Windows, NEW id, DoesStart(id)
  PROVE  Windows'
<1> DEFINE ev == Scheduled(id, EndTime(downtimes[id]))
<1>1. /\ Core' /\ Touched(downtimes, downtimes', id) /\ downtimes'[id].inEffect
      /\ downtimes'[id].incremented = downtimes[id].incremented
      /\ EndTime(downtimes[id]) \in Nat /\ ev \in Event
      /\ \A kinds : ~Among(stack', kinds, id)
      /\ \A kinds, i : i # id =>
           (Among(stack', kinds, i) <=>
              ("each" \in kinds /\ i \in Children(id)) \/ Among(stack, kinds, i))
  BY StartCore
<1>2. /\ id \in Ids /\ Among(stack, {"handle", "each"}, id) /\ Among(stack, {"handle", "stop"}, id)
  BY DoingFacts DEF DoesStart
<1>3. now' = now /\ state' = state /\ ~downtimes[id].inEffect /\ events' = AddEvent(events, ev)
  BY DEF DoesStart, Doing, Start
<1>4. /\ events \in Seq(Event) /\ Ordered(events) /\ id \in Nat \ {0} /\ now \in Nat
      /\ downtimes[id].start \in Nat /\ downtimes[id].duration \in Nat
  <2>1. now \in Nat
    BY DowntimeAssumption DEF Core, Types
  <2> QED BY <1>2, <2>1, RecordFields DEF Core, Types
<1>5. /\ ev.at = EndTime(downtimes[id]) /\ Of(ev, id) /\ \A i : Of(ev, i) => i = id
  BY <1>1, <1>4, ScheduledFields
<1>6. EndTime(downtimes[id]) =
        IF downtimes[id].fixed THEN downtimes[id].end + 1 ELSE now + downtimes[id].duration
  BY DEF EndTime
<1> HIDE DEF ev
<1> SUFFICES ASSUME NEW i \in Ids'
             PROVE  Kept(downtimes'[i], stack', events', now', state'[downtimes'[i].obj] = "hard", i)
  BY WindowsKept
<1>7. i \in Ids /\ Kept(downtimes[i], stack, events, now, state[downtimes[i].obj] = "hard", i)
  BY <1>1, WindowsKept DEF Touched, Ids
<1>8. CASE i # id
  <2>1. downtimes'[i] = downtimes[i]
    BY <1>1, <1>7, <1>8 DEF Touched, Ids
  <2>2. downtimes[i].trigger = 0 => i \notin Children(id)
    BY <1>4 DEF Children
  <2>3. downtimes[i].trigger = 0 => CallsSame(stack, stack', i)
    BY <1>1, <1>8, <2>2 DEF CallsSame
  <2>4. SameEvents(events, events', i)
    BY <1>1, <1>3, <1>4, <1>5, <1>8, AddedOther
  <2> QED BY <1>3, <1>7, <2>1, <2>3, <2>4, KeptSame
<1>9. CASE i = id
  <2> DEFINE d == downtimes[id]
             e == downtimes'[id]
  <2>1. /\ e.fixed = d.fixed /\ e.trigger = d.trigger /\ e.start = d.start /\ e.end = d.end
        /\ e.inEffect /\ ~d.inEffect
    BY <1>1, <1>3 DEF Touched
  <2>2. FixedKept(d, stack, events, now, id) /\ FlexKept(d, stack, events, now, state[d.obj] = "hard", id)
    BY <1>7, <1>9 DEF Kept
  <2>3. /\ d.start \in Nat /\ d.duration \in Nat
        /\ ev.at = IF d.fixed THEN d.end + 1 ELSE now + d.duration
    BY <1>4, <1>5, <1>6
  <2> HIDE DEF d, e
  <2>4. FixedKept(e, stack', events', now', id)
    <3>1. SUFFICES ASSUME d.fixed, d.trigger = 0 PROVE FixedKept(e, stack', events', now', id)
      BY <2>1 DEF FixedKept
    <3>2. HasNone(events, id) /\ d.start <= now
      BY <1>2, <2>1, <2>2, <3>1 DEF FixedKept
    <3>3. HasOne(events', id) /\ HasAt(events', id, ev.at)
      BY <1>1, <1>3, <1>4, <1>5, <3>2, Added
    <3>4. HasAt(events', id, e.end + 1)
      BY <2>1, <2>3, <3>1, <3>3
    <3> QED BY <1>1, <1>3, <2>1, <3>2, <3>3, <3>4 DEF FixedKept
  <2>5. FlexKept(e, stack', events', now', state'[e.obj] = "hard", id)
    <3>1. SUFFICES ASSUME ~d.fixed, d.trigger = 0
                   PROVE  FlexKept(e, stack', events', now', state'[e.obj] = "hard", id)
      BY <2>1 DEF FlexKept
    <3>2. d.start <= now /\ NotBefore(events, id, d.start)
      BY <1>2, <2>2, <3>1 DEF FlexKept
    <3>3. d.start <= ev.at
      BY <1>4, <2>3, <3>1, <3>2
    <3>4. NotBefore(events', id, d.start)
      BY <1>1, <1>3, <1>4, <3>2, <3>3, AddedAfter
    <3> QED BY <1>3, <2>1, <3>2, <3>4 DEF FlexKept
  <2> QED BY <1>9, <2>4, <2>5 DEF Kept, e
<1> QED BY <1>8, <1>9

\* A step that leaves the records, the events, the time and the states alone.
LEMMA RestWindows ==
  ASSUME Windows, Ids' \subseteq Ids, events' = events, now' = now, state' = state,
         \A i \in Ids' : downtimes'[i] = downtimes[i],
         \A i \in Ids' : downtimes[i].trigger = 0 => CallsSame(stack, stack', i)
  PROVE  Windows'
<1>1. ASSUME NEW i \in Ids'
      PROVE  Kept(downtimes'[i], stack', events', now', state'[downtimes'[i].obj] = "hard", i)
  <2>1. Kept(downtimes[i], stack, events, now, state[downtimes[i].obj] = "hard", i)
    BY WindowsKept
  <2>2. Kept(downtimes[i], stack', events, now, state[downtimes[i].obj] = "hard", i)
    BY <2>1, SameSame, KeptSame
  <2> QED BY <2>2
<1> QED BY <1>1, WindowsKept

LEMMA EachWindows ==
  ASSUME Core, Windows, HandleEach
  PROVE  Windows'
<1>1. downtimes' = downtimes /\ events' = events /\ now' = now /\ state' = state
  BY EachCore
<1>2. Ids' = Ids
  BY <1>1 DEF Ids
<1>3. CASE SameCalls(stack, stack')
  <2>1. \A i \in Ids' : CallsSame(stack, stack', i)
    BY <1>3 DEF SameCalls, CallsSame
  <2> QED BY <1>1, <1>2, <2>1, RestWindows
<1>4. CASE \E c \in Ids :
                 /\ \A kinds : Among(stack, kinds, c) <=> "each" \in kinds
                 /\ \A kinds : Among(stack', kinds, c) <=> "handle" \in kinds
                 /\ \A kinds, i : i # c => (Among(stack', kinds, i) <=> Among(stack, kinds, i))
  <2>1. PICK c \in Ids :
                 /\ \A kinds : Among(stack, kinds, c) <=> "each" \in kinds
                 /\ \A kinds : Among(stack', kinds, c) <=> "handle" \in kinds
                 /\ \A kinds, i : i # c => (Among(stack', kinds, i) <=> Among(stack, kinds, i))
    BY <1>4
  <2>2. ASSUME NEW i \in Ids
        PROVE  Kept(downtimes[i], stack', events, now, state[downtimes[i].obj] = "hard", i)
    <3> DEFINE d == downtimes[i]
               hard == state[d.obj] = "hard"
    <3>1. Kept(d, stack, events, now, hard, i)
      BY WindowsKept
    <3> HIDE DEF d, hard
    <3>2. CASE i # c
      <4>1. CallsSame(stack, stack', i)
        BY <2>1, <3>2 DEF CallsSame
      <4> QED BY <3>1, <4>1, SameSame, KeptSame DEF d, hard
    <3>3. CASE i = c
      <4>1. /\ Among(stack, {"each"}, i) /\ Among(stack, {"handle", "each"}, i)
            /\ Among(stack', {"handle", "each"}, i)
        BY <2>1, <3>3
      <4>2. FixedKept(d, stack', events, now, i)
        BY <3>1, <4>1 DEF Kept, FixedKept
      <4>3. FlexKept(d, stack', events, now, hard, i)
        BY <3>1, <4>1 DEF Kept, FlexKept
      <4> QED BY <4>2, <4>3 DEF Kept, d, hard
    <3> QED BY <3>2, <3>3
  <2> QED BY <1>1, <1>2, <2>2, WindowsKept
<1> QED BY <1>3, <1>4, EachCore

LEMMA StopStepWindows ==
  ASSUME Core, Windows, HandleStop
  PROVE  Windows'
<1>1. events' = events /\ now' = now /\ state' = state
  BY StopStepCore
<1>2. CASE downtimes' = downtimes /\ SameCalls(stack, stack')
  <2>1. Ids' = Ids /\ \A i \in Ids' : CallsSame(stack, stack', i)
    BY <1>2 DEF SameCalls, CallsSame, Ids
  <2> QED BY <1>1, <1>2, <2>1, RestWindows
<1>3. CASE /\ downtimes' = downtimes
           /\ \E c \in Ids :
                /\ downtimes[c].trigger # 0
                /\ \A kinds, i : i # c => (Among(stack', kinds, i) <=> Among(stack, kinds, i))
  <2>1. Ids' = Ids /\ \A i \in Ids' : downtimes[i].trigger = 0 => CallsSame(stack, stack', i)
    BY <1>3 DEF CallsSame, Ids
  <2> QED BY <1>1, <1>3, <2>1, RestWindows
<1>4. CASE \E id \in Ids :
                 /\ downtimes' = [c \in Ids \ {id} |-> downtimes[c]]
                 /\ \A kinds, i : i # id => (Among(stack', kinds, i) <=> Among(stack, kinds, i))
  <2>1. PICK id \in Ids :
                 /\ downtimes' = [c \in Ids \ {id} |-> downtimes[c]]
                 /\ \A kinds, i : i # id => (Among(stack', kinds, i) <=> Among(stack, kinds, i))
    BY <1>4
  <2>2. Ids' = Ids \ {id} /\ \A i \in Ids' : downtimes'[i] = downtimes[i]
    BY <2>1 DEF Ids
  <2>3. \A i \in Ids' : CallsSame(stack, stack', i)
    BY <2>1, <2>2 DEF CallsSame
  <2> QED BY <1>1, <2>2, <2>3, RestWindows
<1> QED BY <1>2, <1>3, <1>4, StopStepCore

LEMMA CancelWindows ==
  ASSUME Core, Windows, NEW X \in SUBSET Ids, CancelDowntimes(X)
  PROVE  Windows'
<1>1. /\ downtimes' = downtimes /\ events' = events /\ now' = now /\ state' = state
      /\ \A kinds, i : ~Among(stack, kinds, i)
      /\ \A kinds, i : Among(stack', kinds, i) => "cancel" \in kinds
  BY CancelCore
<1>2. Ids' = Ids /\ \A i : CallsSame(stack, stack', i)
  BY <1>1 DEF CallsSame, Ids
<1> QED BY <1>1, <1>2, RestWindows

LEMMA UnscheduleWindows ==
  ASSUME Core, Windows, Unschedule
  PROVE  Windows'
<1>1. /\ events' = events /\ now' = now /\ state' = state
      /\ \A kinds, i : Among(stack, kinds, i) => "cancel" \in kinds
      /\ \A kinds, i : Among(stack', kinds, i) => "cancel" \in kinds
      /\ \/ downtimes' = downtimes
         \/ \E id \in Ids : downtimes' = [c \in Ids \ {id} |-> downtimes[c]]
  BY UnscheduleCore
<1>2. Ids' \subseteq Ids /\ \A i \in Ids' : downtimes'[i] = downtimes[i]
  BY <1>1 DEF Ids
<1>3. \A i : CallsSame(stack, stack', i)
  BY <1>1 DEF CallsSame
<1> QED BY <1>1, <1>2, <1>3, RestWindows

LEMMA TickWindows ==
  ASSUME Core, Windows, Tick
  PROVE  Windows'
<1>1. /\ UNCHANGED <<state, downtimes, events, stack>> /\ now' = now + 1
      /\ \A kinds, i : ~Among(stack, kinds, i)
  BY TickCore
<1>2. now \in Nat
  BY DowntimeAssumption DEF Core, Types
<1>3. ASSUME NEW i \in Ids
      PROVE  Kept(downtimes[i], stack, events, now + 1, state[downtimes[i].obj] = "hard", i)
  <2> DEFINE d == downtimes[i]
             hard == state[d.obj] = "hard"
  <2>1. Kept(d, stack, events, now, hard, i) /\ d.start \in Nat /\ d.end \in Nat
    BY WindowsKept, RecordFields DEF Core
  <2> HIDE DEF d, hard
  <2>2. (d.start <= now => d.start <= now + 1) /\ (now + 1 <= d.end => now <= d.end)
    BY <1>2, <2>1
  <2>3. FixedKept(d, stack, events, now + 1, i)
    BY <1>1, <2>1, <2>2 DEF Kept, FixedKept
  <2>4. FlexKept(d, stack, events, now + 1, hard, i)
    BY <1>1, <2>1, <2>2 DEF Kept, FlexKept
  <2> QED BY <2>3, <2>4 DEF Kept, d, hard
<1>4. Ids' = Ids
  BY <1>1 DEF Ids
<1> QED BY <1>1, <1>3, <1>4, WindowsKept

LEMMA RunEventWindows ==
  ASSUME Core, Windows, RunEvent
  PROVE  Windows'
<1> DEFINE h == Head(events)
<1>1. /\ now' = now /\ state' = state /\ \A kinds, i : ~Among(stack, kinds, i)
      /\ events # <<>> /\ events' = Tail(events) /\ h.at <= now
  BY RunEventCore
<1>2. events \in Seq(Event) /\ Ordered(events) /\ now \in Nat
  BY DowntimeAssumption DEF Core, Types
<1>3. h.at \in Nat /\ \E k \in DOMAIN events : h = events[k]
  BY <1>1, <1>2, Popped, EventFields
<1>4. CASE /\ h.kind = "expire" /\ \A kinds, i : ~Among(stack', kinds, i)
           /\ downtimes' = [c \in {i \in Ids : ~Expired(downtimes[i])} |-> downtimes[c]]
  <2>1. Ids' \subseteq Ids /\ \A i \in Ids' : downtimes'[i] = downtimes[i]
    BY <1>4 DEF Ids
  <2>2. \A i : SameEvents(events, events', i) /\ CallsSame(stack, stack', i)
    <3>1. \A i : ~Of(h, i)
      BY <1>4 DEF Of
    <3> QED BY <1>1, <1>2, <1>4, <3>1, PoppedAfter DEF CallsSame
  <2>3. ASSUME NEW i \in Ids'
        PROVE  Kept(downtimes'[i], stack', events', now', state'[downtimes'[i].obj] = "hard", i)
    BY <1>1, <2>1, <2>2, WindowsKept, KeptSame
  <2> QED BY <2>3, WindowsKept
<1>5. CASE /\ h.kind = "scheduled" /\ downtimes' = downtimes
           /\ \A kinds, i : Among(stack', kinds, i) <=> "handle" \in kinds /\ i \in Ids /\ i = h.id
  <2>1. ASSUME NEW i \in Ids
        PROVE  Kept(downtimes[i], stack', events', now, state[downtimes[i].obj] = "hard", i)
    <3> DEFINE d == downtimes[i]
               hard == state[d.obj] = "hard"
    <3>1. Kept(d, stack, events, now, hard, i) /\ d.start \in Nat /\ d.end \in Nat
      BY WindowsKept, RecordFields DEF Core
    <3> HIDE DEF d, hard
    <3>2. CASE i # h.id
      <4>1. SameEvents(events, events', i)
        BY <1>1, <1>2, <3>2, PoppedAfter DEF Of
      <4>2. CallsSame(stack, stack', i)
        BY <1>1, <1>5, <3>2 DEF CallsSame
      <4> QED BY <3>1, <4>1, <4>2, KeptSame DEF d, hard
    <3>3. CASE i = h.id
      <4>1. Of(h, i)
        BY <1>5, <3>3 DEF Of
      <4>2. /\ ~Among(stack', {"each"}, i) /\ Among(stack', {"handle", "stop"}, i)
            /\ Among(stack', {"handle", "each"}, i)
        BY <1>5, <3>3
      <4>3. /\ HasOne(events, i) => HasOne(events', i) /\ HasNone(events', i)
            /\ \A t : HasOne(events, i) /\ HasAt(events, i, t) => h.at = t
            /\ \A t : NotBefore(events, i, t) => NotBefore(events', i, t)
        BY <1>1, <1>2, <4>1, Popped, PoppedAfter
      <4> HIDE DEF h
      <4>4. FixedKept(d, stack', events', now, i)
        <5>1. SUFFICES ASSUME d.fixed, d.trigger = 0 PROVE FixedKept(d, stack', events', now, i)
          BY DEF FixedKept
        <5>2. HasOne(events, i) /\ HasAt(events, i, IF d.inEffect THEN d.end + 1 ELSE d.start)
          BY <1>1, <3>1, <5>1 DEF Kept, FixedKept
        <5>3. h.at = IF d.inEffect THEN d.end + 1 ELSE d.start
          BY <4>3, <5>2
        <5>4. IF d.inEffect THEN d.end < now ELSE d.start <= now
          BY <1>1, <1>2, <1>3, <3>1, <5>3
        <5> QED BY <4>2, <4>3, <5>2, <5>4 DEF FixedKept
      <4>5. FlexKept(d, stack', events', now, hard, i)
        <5>1. SUFFICES ASSUME ~d.fixed, d.trigger = 0
                       PROVE  FlexKept(d, stack', events', now, hard, i)
          BY DEF FlexKept
        <5>2. NotBefore(events, i, d.start)
          BY <3>1, <5>1 DEF Kept, FlexKept
        <5>3. d.start <= h.at
          BY <1>3, <4>1, <5>2 DEF NotBefore
        <5>4. d.start <= now
          BY <1>1, <1>2, <1>3, <3>1, <5>3
        <5> QED BY <4>2, <4>3, <5>2, <5>4 DEF FlexKept
      <4> QED BY <4>4, <4>5 DEF Kept, d, hard
    <3> QED BY <3>2, <3>3
  <2>2. Ids' = Ids
    BY <1>5 DEF Ids
  <2> QED BY <1>1, <1>5, <2>1, <2>2, WindowsKept
<1> QED BY <1>4, <1>5, RunEventCore

LEMMA CheckWindows ==
  ASSUME Core, Counted, Windows, NEW o \in Object, NEW s \in {"ok", "soft", "hard"}, CheckResult(o, s)
  PROVE  Windows'
<1>1. /\ now' = now /\ events' = events /\ Ids' = Ids /\ state' = [state EXCEPT ![o] = s]
      /\ \A i \in Ids : SameRecord(downtimes[i], downtimes'[i])
      /\ \A kinds, i : ~Among(stack, kinds, i)
      /\ \A kinds, i : Among(stack', kinds, i) <=>
           "each" \in kinds /\ LooksForFlexible(o, s) /\ i \in Startable(o)
  BY CheckCore
<1> SUFFICES ASSUME NEW i \in Ids
             PROVE  Kept(downtimes'[i], stack', events, now, state'[downtimes'[i].obj] = "hard", i)
  BY <1>1, WindowsKept
<1> DEFINE d == downtimes[i]
           e == downtimes'[i]
           called == LooksForFlexible(o, s) /\ i \in Startable(o)
<1>2. Kept(d, stack, events, now, state[d.obj] = "hard", i) /\ SameRecord(d, e) /\ d.obj \in Object
  BY <1>1, WindowsKept, RecordFields DEF Core
<1>3. /\ Among(stack', {"each"}, i) <=> called
      /\ Among(stack', {"handle", "each"}, i) <=> called
      /\ ~Among(stack', {"handle", "stop"}, i)
  BY <1>1
<1>4. called => ~d.fixed /\ d.start <= now
  BY DEF Startable
<1>5. ASSUME ~d.fixed, d.trigger = 0, ~d.inEffect, d.incremented, now <= d.end, state'[d.obj] = "hard",
             state[d.obj] # "hard", d.start <= now
      PROVE  called
  <2>1. d.obj = o /\ s = "hard"
    BY <1>1, <1>2, <1>5 DEF Core, Types
  <2>2. i \in Startable(o)
    BY <1>5, <2>1 DEF Startable
  <2>3. i \in Awaiting(downtimes, stack, o)
    BY <1>1, <1>5, <2>1 DEF Awaiting, Ids
  <2>4. pending[o] > 0
    <3> DEFINE W == Awaiting(downtimes, stack, o)
    <3>1. IsFiniteSet(W) /\ Cardinality(W) <= pending[o] /\ pending[o] \in Int
      BY CountTypes DEF Core, Types, Counted
    <3>2. i \in W
      BY <2>3
    <3> HIDE DEF W
    <3>3. Cardinality(W) \in Nat /\ Cardinality(W) > 0
      BY <3>1, <3>2, OneLess
    <3> QED BY <3>1, <3>3
  <2> QED BY <2>1, <2>2, <2>4 DEF LooksForFlexible
<1> HIDE DEF d, e, called
<1>6. FixedKept(e, stack', events, now, i)
  BY <1>1, <1>2, <1>3, <1>4 DEF Kept, FixedKept, SameRecord
<1>7. FlexKept(e, stack', events, now, state'[e.obj] = "hard", i)
  <2>1. SUFFICES ASSUME ~d.fixed, d.trigger = 0
                 PROVE  FlexKept(e, stack', events, now, state'[e.obj] = "hard", i)
    BY <1>2 DEF FlexKept, SameRecord
  <2>2. /\ d.incremented => d.start <= now
        /\ NotBefore(events, i, d.start)
        /\ ~d.inEffect => /\ d.incremented \/ HasAt(events, i, d.start)
                          /\ ~(d.incremented /\ now <= d.end /\ state[d.obj] = "hard")
    BY <1>1, <1>2, <2>1 DEF Kept, FlexKept
  <2>3. ~d.inEffect /\ ~called => ~(d.incremented /\ now <= d.end /\ state'[d.obj] = "hard")
    BY <1>5, <2>1, <2>2
  <2> QED BY <1>2, <1>3, <1>4, <2>1, <2>2, <2>3 DEF FlexKept, SameRecord
<1> QED BY <1>6, <1>7 DEF Kept, e

\* A downtime that nothing triggers, that was just scheduled or loaded.
LEMMA NewKept ==
  ASSUME NEW d, NEW s, NEW q, NEW t, NEW hard, NEW i, ~d.inEffect, ~d.incremented,
         \A kinds : ~Among(s, kinds, i), HasOne(q, i), HasAt(q, i, d.start), NotBefore(q, i, d.start)
  PROVE  Kept(d, s, q, t, hard, i)
  BY DEF Kept, FixedKept, FlexKept

LEMMA ScheduleWindows ==
  ASSUME Core, Windows, NEW q \in Requests, NEW p \in Ids \cup {0}, Schedule(q, p)
  PROVE  Windows'
<1> DEFINE n == lastId + 1
           ev == Scheduled(n, downtimes'[n].start)
<1>1. /\ Core' /\ now' = now /\ state' = state /\ stack' = stack
      /\ \A kinds, i : ~Among(stack, kinds, i)
      /\ Ids \subseteq Ids' /\ \A i \in Ids : downtimes'[i] = downtimes[i] /\ i <= lastId
      /\ \A i \in Ids' \ Ids :
           /\ i \in Nat \ {0} /\ i > lastId /\ HasNone(events, i)
           /\ ~downtimes'[i].inEffect /\ ~downtimes'[i].incremented
           /\ downtimes'[i].trigger = 0 => i = n
      /\ \/ events' = events /\ \A i \in Ids' \ Ids : downtimes'[i].trigger # 0
         \/ n \in Ids' \ Ids /\ events' = AddEvent(events, ev)
  BY ScheduleCore
<1>2. events \in Seq(Event) /\ Ordered(events) /\ lastId \in Nat
  BY DowntimeAssumption DEF Core, Types
<1>3. CASE events' = events /\ \A i \in Ids' \ Ids : downtimes'[i].trigger # 0
  <2>1. ASSUME NEW i \in Ids'
        PROVE  Kept(downtimes'[i], stack', events', now', state'[downtimes'[i].obj] = "hard", i)
    <3>1. CASE i \in Ids
      BY <1>1, <1>3, <3>1, WindowsKept
    <3>2. CASE i \notin Ids
      BY <1>3, <3>2, TriggeredKept
    <3> QED BY <3>1, <3>2
  <2> QED BY <2>1, WindowsKept
<1>4. CASE n \in Ids' \ Ids /\ events' = AddEvent(events, ev)
  <2>1. n \in Nat \ {0} /\ downtimes'[n].start \in Nat
    <3>1. downtimes'[n] \in Record(n)
      BY <1>1, <1>4 DEF Core, Types
    <3>2. downtimes'[n].start \in Nat
      BY <3>1 DEF Record
    <3> QED BY <1>2, <3>2
  <2>2. ev \in Event /\ Of(ev, n) /\ ev.at = downtimes'[n].start /\ \A j : Of(ev, j) => j = n
    BY <2>1, ScheduledFields
  <2> HIDE DEF ev
  <2>3. ASSUME NEW i \in Ids'
        PROVE  Kept(downtimes'[i], stack', events', now', state'[downtimes'[i].obj] = "hard", i)
    <3>1. CASE i \in Ids
      <4>1. SameEvents(events, events', i)
        BY <1>2, <1>4, <2>2, <3>1, AddedOther
      <4>2. Kept(downtimes[i], stack, events, now, state[downtimes[i].obj] = "hard", i)
        BY <3>1, WindowsKept
      <4>3. CallsSame(stack, stack', i)
        BY <1>1 DEF CallsSame
      <4> QED BY <1>1, <3>1, <4>1, <4>2, <4>3, KeptSame
    <3>2. CASE i \notin Ids /\ downtimes'[i].trigger # 0
      BY <3>2, TriggeredKept
    <3>3. CASE i \notin Ids /\ downtimes'[i].trigger = 0
      <4>1. i = n /\ HasNone(events, n) /\ ~downtimes'[n].inEffect /\ ~downtimes'[n].incremented
        BY <1>1, <3>3
      <4>2. HasOne(events', n) /\ HasAt(events', n, downtimes'[n].start)
        BY <1>2, <1>4, <2>2, <4>1, Added
      <4>3. NotBefore(events, n, downtimes'[n].start)
        BY <4>1 DEF NotBefore, HasNone
      <4>4. NotBefore(events', n, downtimes'[n].start)
        BY <1>2, <1>4, <2>1, <2>2, <4>3, AddedAfter
      <4> HIDE DEF n
      <4> QED BY <1>1, <4>1, <4>2, <4>4, NewKept
    <3> QED BY <3>1, <3>2, <3>3
  <2> QED BY <2>3, WindowsKept
<1> QED BY <1>1, <1>3, <1>4

LEMMA RestartWindows ==
  ASSUME Core, Restart
  PROVE  Windows'
<1>1. stack' = stack /\ \A kinds, i : ~Among(stack, kinds, i)
  BY RestartCore
<1>2. CASE Ids' = {}
  BY <1>2, WindowsKept
<1>3. CASE /\ Ids' = Valid
           /\ \A i \in Ids' : /\ ~downtimes'[i].inEffect /\ ~downtimes'[i].incremented
                              /\ downtimes'[i].start = downtimes[i].start
                              /\ downtimes'[i].trigger = downtimes[i].trigger
           /\ \A k \in DOMAIN events' : events'[k].at = downtimes[events'[k].id].start
           /\ \A i \in Ids : downtimes[i].trigger = 0 => HasAt(events', i, downtimes[i].start)
           /\ \A i : HasOne(events', i)
  <2>1. Ids' \subseteq Ids
    BY <1>3, ValidFacts DEF Core
  <2>2. ASSUME NEW i \in Ids', downtimes'[i].trigger = 0
        PROVE  Kept(downtimes'[i], stack', events', now', state'[downtimes'[i].obj] = "hard", i)
    <3>1. i \in Ids /\ downtimes'[i].start = downtimes[i].start /\ downtimes[i].trigger = 0
      BY <1>3, <2>1, <2>2
    <3>2. downtimes[i].start \in Nat
      BY <3>1, RecordFields DEF Core
    <3>3. NotBefore(events', i, downtimes'[i].start)
      BY <1>3, <3>1, <3>2 DEF NotBefore, Of
    <3> QED BY <1>1, <1>3, <2>2, <3>1, <3>3, NewKept
  <2> QED BY <2>2, TriggeredKept, WindowsKept
<1> QED BY <1>2, <1>3, RestartCore

LEMMA InitInv == Init => Inv
<1> SUFFICES ASSUME Init PROVE Inv
  OBVIOUS
<1>1. Windows
  BY DEF Init, Windows, Ids
<1> QED BY <1>1, InitCore, InitCounted DEF Inv

\* Inv is inductive.
LEMMA NextInv == Inv /\ [Next]_vars => Inv'
<1> SUFFICES ASSUME Inv, [Next]_vars PROVE Inv'
  OBVIOUS
<1>1. Core /\ Counted /\ Windows /\ Core' /\ Counted'
  BY NextCore, NextCounted DEF Inv
<1>2. Windows'
  <2>1. CASE UNCHANGED vars
    BY <1>1, <2>1 DEF vars, Windows, Ids
  <2>2. CASE Next
    BY <1>1, <2>2, StepCases, ScheduleWindows, CancelWindows, CheckWindows, WaitWindows, StopWindows,
       StartWindows, EachWindows, StopStepWindows, UnscheduleWindows, RunEventWindows,
       RestartWindows, TickWindows
  <2> QED BY <2>1, <2>2
<1> QED BY <1>1, <1>2 DEF Inv

\* Inv holds at every step of the main loop, of the commands and of the restarts.
THEOREM InvHolds == Spec => []Inv
  BY InitInv, NextInv, PTL DEF Spec

-----------------------------------------------------------------------------
(* What the invariant gives *)

\* Every variable keeps its type: a call in progress is for a downtime that is in
\* the map, through the nested starts and stops of handle(), and neither
\* _scheduled_downtime_depth nor _pending_flex_downtime is negative.
THEOREM TypeCorrect == Spec => []TypeOK
<1>1. ASSUME Inv PROVE TypeOK
  <2>1. Types /\ Counted /\ MaxDowntimes \in Nat
    BY <1>1, DowntimeAssumption DEF Inv, Core
  <2>2. depth \in [Object -> 0 .. MaxDowntimes]
    <3>1. \A o \in Object : depth[o] \in 0 .. lastId
      BY <2>1, CountTypes DEF Counted
    <3>2. lastId \in 0 .. MaxDowntimes /\ depth \in [Object -> Int]
      BY <2>1 DEF Types
    <3>3. \A o \in Object : depth[o] \in 0 .. MaxDowntimes
      BY <2>1, <3>1, <3>2
    <3> QED BY <3>2, <3>3
  <2>3. pending \in [Object -> Nat]
    <3>1. ASSUME NEW o \in Object PROVE pending[o] \in Nat
      <4>1. /\ Cardinality(Awaiting(downtimes, stack, o)) \in Nat /\ pending[o] \in Int
            /\ Cardinality(Awaiting(downtimes, stack, o)) <= pending[o]
        BY <2>1, CountTypes DEF Counted, Types
      <4> QED BY <4>1
    <3> QED BY <2>1, <3>1 DEF Types
  <2>4. \A i \in Ids : downtimes[i].obj \in Object /\ downtimes[i].trigger \in 0 .. i - 1
    BY <2>1, RecordFields
  <2>5. \A i \in DOMAIN events : events[i].kind = "scheduled" => events[i].id > 0
    <3>1. \A i \in DOMAIN events : events[i] \in Event
      BY <2>1, ElementOfSeq, LenProperties DEF Types
    <3>2. \A i \in DOMAIN events : events[i].kind = "scheduled" => events[i].id \in Nat \ {0}
      BY <3>1, EventFields
    <3> QED BY <3>2
  <2>6. \A i \in DOMAIN stack : stack[i] \in Frame
    <3>1. \A i \in DOMAIN stack : stack[i] \in Frames(Ids)
      BY <2>1, ElementOfSeq, LenProperties DEF Types
    <3>2. Frame = Frames(Ids)
      BY DEF Frame, Frames
    <3> QED BY <3>1, <3>2
  <2> QED BY <2>1, <2>2, <2>3, <2>4, <2>5, <2>6 DEF Types, TypeOK
<1> QED BY <1>1, InvHolds, PTL

\* _scheduled_downtime_depth of an object is the number of its downtimes in effect,
\* whatever starts, ends, expires, is cancelled or is loaded, in any order, and at
\* every point of the nested calls of handle().
THEOREM DepthExactHolds == Spec => []DepthExact
<1>1. ASSUME Inv PROVE DepthExact
  <2>1. Types /\ Counted
    BY <1>1 DEF Inv, Core
  <2>2. \A j \in DOMAIN stack : stack[j] \in Frames(Ids)
    BY <2>1, ElementOfSeq, LenProperties DEF Types
  <2>3. \A j \in DOMAIN stack : stack[j].op = "stop" => Mentions(stack[j]) = {stack[j].id}
    BY <2>2, FrameFields
  <2>4. \A i : i \in Stopping <=> Among(stack, {"stop"}, i)
    BY <2>3 DEF Stopping, Among
  <2>5. ASSUME NEW o
        PROVE  {i \in Ids \ Stopping : downtimes[i].obj = o /\ downtimes[i].inEffect}
                 = Active(downtimes, stack, o)
    BY <2>4 DEF Active, Ids
  <2> QED BY <2>1, <2>5 DEF Counted, DepthExact
<1> QED BY <1>1, InvHolds, PTL

\* When no call is in progress, a triggered downtime is in effect only within the
\* one that triggers it: a parent that ends, or is cancelled, takes them with it.
THEOREM TriggeredWithinHolds == Spec => []TriggeredWithin
<1>1. ASSUME Inv, Idle PROVE \A i \in Ids :
        downtimes[i].trigger # 0 /\ downtimes[i].inEffect =>
          downtimes[i].trigger \in Ids /\ downtimes[downtimes[i].trigger].inEffect
  <2>1. Core /\ \A i : ~Among(stack, {"cancel"}, i)
    BY <1>1, IdleFacts DEF Inv
  <2> QED BY <2>1 DEF Core, Within, Ids
<1>2. Inv => TriggeredWithin
  BY <1>1 DEF TriggeredWithin
<1> QED BY <1>2, InvHolds, PTL

\* What is due is done: the events that are left are later.
LEMMA QuietFacts ==
  ASSUME Core, Quiet
  PROVE  /\ \A kinds, i : ~Among(stack, kinds, i)
         /\ \A i, t : HasAt(events, i, t) => t \in Nat /\ now < t
<1>1. Idle /\ ~Due
  BY DEF Quiet
<1>2. events \in Seq(Event) /\ Ordered(events) /\ now \in Nat
  BY DowntimeAssumption DEF Core, Types
<1>3. ASSUME NEW i, NEW t, HasAt(events, i, t) PROVE t \in Nat /\ now < t
  <2>1. PICK k \in DOMAIN events : events[k].at = t
    BY <1>3 DEF HasAt
  <2>2. events # <<>> /\ events[k] \in Event
    BY <1>2, <2>1, ElementOfSeq, LenProperties, EmptySeq
  <2>3. Head(events) \in Event /\ Head(events).at <= events[k].at
    BY <1>2, <2>2, Popped
  <2>4. Head(events).at \in Nat /\ t \in Nat
    BY <2>1, <2>2, <2>3, EventFields
  <2>5. ~(Head(events).at <= now)
    BY <1>1, <2>2 DEF Due
  <2> QED BY <1>2, <2>1, <2>3, <2>4, <2>5
<1> QED BY <1>1, <1>3, IdleFacts

\* A fixed downtime is in effect from its start to its end once the loop has done
\* what is due, through restarts and with the stale events of cancelled downtimes
\* in the queue: it has one event, and a stale one never has its id.
THEOREM FixedInWindowHolds == Spec => []FixedInWindow
<1>1. ASSUME Inv, Quiet, NEW i \in Ids, downtimes[i].fixed, downtimes[i].trigger = 0
      PROVE  downtimes[i].inEffect = (downtimes[i].start <= now) /\ now <= downtimes[i].end
  <2> DEFINE d == downtimes[i]
  <2>1. Core /\ FixedKept(d, stack, events, now, i) /\ d.fixed /\ d.trigger = 0
    BY <1>1 DEF Inv, Windows
  <2>2. /\ d.start \in Nat /\ d.end \in Nat /\ d.start < d.end /\ d.inEffect \in BOOLEAN /\ now \in Nat
    <3>1. now \in Nat
      BY <2>1, DowntimeAssumption DEF Core, Types
    <3> QED BY <2>1, <3>1, RecordFields DEF Core
  <2>3. /\ \A kinds : ~Among(stack, kinds, i)
        /\ \A t : HasAt(events, i, t) => t \in Nat /\ now < t
    BY <1>1, <2>1, QuietFacts
  <2> HIDE DEF d
  <2>4. /\ d.inEffect => d.start <= now
        /\ HasAt(events, i, IF d.inEffect THEN d.end + 1 ELSE d.start)
    BY <2>1, <2>3 DEF FixedKept
  <2>5. CASE d.inEffect
    <3>1. now < d.end + 1
      BY <2>3, <2>4, <2>5
    <3>2. now <= d.end /\ d.start <= now
      BY <2>2, <2>4, <2>5, <3>1
    <3>3. d.inEffect = TRUE
      BY <2>2, <2>5
    <3> QED BY <3>2, <3>3 DEF d
  <2>6. CASE ~d.inEffect
    <3>1. now < d.start
      BY <2>3, <2>4, <2>6
    <3> QED BY <2>2, <2>6, <3>1 DEF d
  <2> QED BY <2>5, <2>6
<1>2. Inv => FixedInWindow
  BY <1>1 DEF FixedInWindow
<1> QED BY <1>2, InvHolds, PTL

\* A flexible downtime that nothing triggers is in effect while its object has a
\* hard problem in its window: _pending_flex_downtime, which decides whether a
\* check result of a service looks for one, is at least the number that wait.
THEOREM FlexibleStartsHolds == Spec => []FlexibleStarts
<1>1. ASSUME Inv, Quiet, NEW i \in Ids, ~downtimes[i].fixed, downtimes[i].trigger = 0,
             downtimes[i].start <= now, now <= downtimes[i].end, state[downtimes[i].obj] = "hard",
             ~downtimes[i].inEffect
      PROVE  FALSE
  <2> DEFINE d == downtimes[i]
  <2>1. Core /\ FlexKept(d, stack, events, now, state[d.obj] = "hard", i) /\ ~d.fixed /\ d.trigger = 0
    BY <1>1 DEF Inv, Windows
  <2>2. d.start \in Nat /\ now \in Nat
    <3>1. now \in Nat
      BY <2>1, DowntimeAssumption DEF Core, Types
    <3> QED BY <2>1, <3>1, RecordFields DEF Core
  <2>3. (\A kinds : ~Among(stack, kinds, i)) /\ (HasAt(events, i, d.start) => now < d.start)
    BY <1>1, <2>1, QuietFacts
  <2>4. ~HasAt(events, i, d.start)
    BY <1>1, <2>2, <2>3
  <2> QED BY <1>1, <2>1, <2>3, <2>4 DEF FlexKept
<1>2. Inv => FlexibleStarts
  BY <1>1, RecordFields DEF FlexibleStarts, Inv, Core
<1> QED BY <1>2, InvHolds, PTL

\* The steps by which a fixed downtime may leave the map.
Lasting ==
  \A i \in Ids :
    downtimes[i].fixed /\ downtimes[i].trigger = 0 /\ i \notin Ids' =>
      downtimes[i].end < now \/ Top("cancel") \/ ~up'

\* Only a cancellation takes a fixed downtime that nothing triggers away before its
\* end: handle() ends it only at its own last event, which is after its end, and
\* neither the expiration nor a restart drops one that has not ended.
THEOREM FixedLastsHolds == Spec => FixedLasts
<1>1. ASSUME Inv, [Next]_vars PROVE [Lasting]_vars
  <2>1. SUFFICES ASSUME Next, NEW i \in Ids, downtimes[i].fixed, downtimes[i].trigger = 0, i \notin Ids'
                 PROVE  downtimes[i].end < now \/ Top("cancel") \/ ~up'
    BY <1>1 DEF Lasting
  <2>2. Core /\ FixedKept(downtimes[i], stack, events, now, i)
    BY <1>1 DEF Inv, Windows
  <2>3. CASE HandleStop
    <3>1. PICK id \in Ids : /\ downtimes' = [c \in Ids \ {id} |-> downtimes[c]] /\ downtimes[id].inEffect
                            /\ \A kinds : Among(stack, kinds, id) <=> "stop" \in kinds
      BY <2>1, <2>2, <2>3, StopStepCore DEF Ids
    <3>2. Ids' = Ids \ {id}
      BY <3>1 DEF Ids
    <3>3. i = id
      BY <2>1, <3>2
    <3> QED BY <2>1, <2>2, <3>1, <3>3 DEF FixedKept
  <2>4. CASE Unschedule
    BY <2>4 DEF Unschedule
  <2>5. CASE RunEvent
    BY <2>1, <2>5 DEF RunEvent, Ids, Expired
  <2>6. CASE Restart
    BY <2>1, <2>2, <2>6, RestartCore, ValidFacts DEF Stale
  <2>7. CASE HandleEach \/ Tick \/ \E X \in SUBSET Ids : CancelDowntimes(X)
    BY <2>1, <2>7 DEF HandleEach, Tick, CancelDowntimes, Ids
  <2>8. CASE \E q \in Requests, p \in Ids \cup {0} : Schedule(q, p)
    BY <2>1, <2>2, <2>8, ScheduleCore
  <2>9. CASE \E o \in Object, s \in {"ok", "soft", "hard"} : CheckResult(o, s)
    BY <2>1, <2>2, <2>9, CheckCore
  <2>10. CASE \E id : DoesWait(id) \/ DoesStop(id) \/ DoesStart(id)
    <3>1. Ids' = Ids
      BY <2>2, <2>10, WaitCore, StopCore, StartCore DEF Touched, Ids
    <3> QED BY <2>1, <3>1
  <2> QED BY <2>1, <2>3, <2>4, <2>5, <2>6, <2>7, <2>8, <2>9, <2>10, StepCases
<1> QED BY <1>1, InvHolds, PTL DEF Spec, FixedLasts, Lasting
=============================================================================
