---------------------------- MODULE ServiceProofs ---------------------------
(***************************************************************************)
(* Proofs about Service and Notifier, for every configuration of contacts, *)
(* escalations, flags, delays and attempts: the types, when a problem is   *)
(* hard, and what the contacts are told.                                   *)
(*                                                                         *)
(* notify() and the stages of handle_async_check_result() are functions of *)
(* the record of the service.  A predicate on that record is proved to be  *)
(* kept by each of them, and then by the actions that compose them.        *)
(***************************************************************************)
EXTENDS Service, SequenceFacts

-----------------------------------------------------------------------------
(* Types *)

\* A record of a service at time t, with one notification of a problem at most.
Typed(s, t) == s \in ServiceType(t) /\ \A m, n \in s.normal : m = n

\* What notify() leaves alone: all but what it remembers of notifications.
SameState(s, r) ==
  /\ r.state = s.state /\ r.type = s.type /\ r.attempt = s.attempt
  /\ r.lastHard = s.lastHard /\ r.lastHardChange = s.lastHardChange
  /\ r.lastChange = s.lastChange /\ r.hostProblem = s.hostProblem /\ r.depth = s.depth

\* The contacts that a notification is for, before each is asked.
Addressed(s) ==
  IF ViableEscalations(s) = {} THEN Members
  ELSE UNION {e.to : e \in ViableEscalations(s)}

LEMMA ContactsFacts ==
  ASSUME NEW s, NEW w, NEW reason
  PROVE  /\ ContactsToNotify(s, w, reason) \subseteq Contact
         /\ ContactsToNotify(s, w, reason)
              = {c \in Addressed(s) : ShouldBeNotified(c, s, w, reason)}
<1>1. Addressed(s) \subseteq Contact
  BY NotifierAssumption DEF Addressed, ViableEscalations, EscalationType
<1>2. ContactsToNotify(s, w, reason)
        = {c \in Addressed(s) : ShouldBeNotified(c, s, w, reason)}
  BY DEF ContactsToNotify, Addressed
<1> QED BY <1>1, <1>2

\* The interval of the service, or the shortest one of its escalations.
LEMMA IntervalFacts ==
  ASSUME NEW s
  PROVE  /\ IntervalOf(s) \in Nat
         /\ Interval = 0 /\ (\A e \in Escalations : e.interval = 0) => IntervalOf(s) = 0
<1> DEFINE V == ViableEscalations(s)
           I == {e.interval : e \in V}
<1>1. \A e \in V : e \in Escalations /\ e.interval \in Nat
  BY NotifierAssumption DEF ViableEscalations, EscalationType
<1>2. CASE V = {}
  BY <1>2, NotifierAssumption DEF IntervalOf
<1>3. CASE V # {}
  <2>1. I \subseteq Nat /\ I # {}
    BY <1>1, <1>3
  <2>2. PICK x \in I : \A y \in I : x <= y
    BY <2>1, Least
  <2>3. \A e \in V : x <= e.interval
    BY <2>2
  <2>4. IntervalOf(s) \in I
    BY <1>3, <2>2, <2>3 DEF IntervalOf
  <2> QED BY <1>1, <2>4
<1> QED BY <1>2, <1>3

LEMMA CountedFacts ==
  ASSUME NEW t \in Nat, NEW s, Typed(s, t)
  PROVE  /\ Typed(Counted(s), t) /\ SameState(s, Counted(s))
         /\ Counted(s).number # 0 /\ s.number <= Counted(s).number
         /\ Counted(s) = [s EXCEPT !.number = Counted(s).number]
<1> USE NotifierAssumption
<1>1. s \in ServiceType(t) /\ s.number \in 0 .. MaxNumber
  BY DEF Typed, ServiceType
<1> DEFINE k == IF s.number < MaxNumber THEN s.number + 1 ELSE s.number
<1>2. k \in 1 .. MaxNumber /\ s.number <= k
  BY <1>1
<1>3. Counted(s) = [s EXCEPT !.number = k]
  BY <1>1 DEF Counted, ServiceType
<1> HIDE DEF k
<1>4. Counted(s).number = k
  BY <1>1, <1>3 DEF ServiceType
<1>5. Typed(Counted(s), t)
  BY <1>1, <1>2, <1>3 DEF Typed, ServiceType
<1>6. SameState(s, Counted(s))
  BY <1>1, <1>3 DEF SameState, ServiceType
<1> QED BY <1>2, <1>3, <1>4, <1>5, <1>6

-----------------------------------------------------------------------------
(* What the contacts were told: predicates on the record *)

\* The remembered notification names contacts that were told and are owed the
\* recovery, and no recovery was wrong.
Truthful(s) == s.wrong = {} /\ \A n \in s.normal : n.to \subseteq s.owed

\* Escalations that only add contacts, whatever the number and the state.
Widening ==
  \A e \in Escalations : e.last = 0 /\ State \subseteq e.on /\ Members \subseteq e.to

\* Whoever is owed a recovery, and has no excuse, is remembered, would be
\* addressed now, and the count says that a problem was announced.
Remembered(s) ==
  /\ s.lost = {}
  /\ \A c \in s.owed \ s.excused :
       /\ c \in Addressed(s) /\ s.number # 0
       /\ \E n \in s.normal : c \in n.to

\* Nothing is to be announced twice in the same hard state.
NoRepetition ==
  ~Volatile /\ Interval = 0 /\ \A e \in Escalations : e.interval = 0

\* Whoever was told of the hard state was told after it was entered, and the
\* state has not changed since.
Once(s) ==
  /\ s.repeated = {} /\ \A n \in s.normal : n.interval = 0
  /\ s.fresh # {} => /\ s.normal # {} /\ 0 < s.lastHardChange
                     /\ s.lastHardChange <= s.lastNotification
                     /\ s.lastHard = s.state /\ s.state # "ok"

Good(s, t) ==
  /\ Typed(s, t)
  /\ ~SendAnyways => Truthful(s)
  /\ ExcuseResets /\ Widening => Remembered(s)
  /\ NoRepetition => Once(s)

\* The history and the remembered notification are the same.
SameHistory(s, r) ==
  /\ r.normal = s.normal /\ r.owed = s.owed /\ r.lost = s.lost /\ r.wrong = s.wrong
  /\ r.fresh = s.fresh /\ r.repeated = s.repeated

\* Escalations that widen address no fewer contacts when the count is higher.
LEMMA AddressedGrows ==
  ASSUME Widening, NEW t \in Nat, NEW s, NEW r, Typed(s, t), Typed(r, t),
         s.number <= r.number
  PROVE  Addressed(s) \subseteq Addressed(r)
<1>1. /\ s.number \in Nat /\ r.number \in Nat /\ s.state \in State /\ r.state \in State
  BY NotifierAssumption DEF Typed, ServiceType
<1>2. \A e \in Escalations : /\ e.first \in Nat /\ e.last = 0 /\ s.state \in e.on
                             /\ r.state \in e.on /\ Members \subseteq e.to
  BY <1>1, NotifierAssumption DEF Widening, EscalationType
<1>3. ViableEscalations(s) \subseteq ViableEscalations(r)
  BY <1>1, <1>2 DEF ViableEscalations
<1>4. \A e \in ViableEscalations(r) : Members \subseteq e.to
  BY <1>2 DEF ViableEscalations
<1> QED BY <1>3, <1>4 DEF Addressed

\* A change of other fields.
LEMMA EditGood ==
  ASSUME NEW t \in Nat, NEW s, Good(s, t), NEW r, Typed(r, t), SameHistory(s, r),
         r.number = s.number, r.excused = s.excused,
         \/ s.fresh = {}
         \/ /\ r.state = s.state /\ r.lastHard = s.lastHard
            /\ r.lastHardChange = s.lastHardChange
            /\ r.lastNotification = s.lastNotification
  PROVE  Good(r, t)
<1>1. ~SendAnyways => Truthful(r)
  BY DEF Good, Truthful, SameHistory
<1>2. ASSUME ExcuseResets, Widening PROVE Remembered(r)
  <2>1. s.number <= r.number
    BY NotifierAssumption DEF Good, Typed, ServiceType
  <2>2. Addressed(s) \subseteq Addressed(r)
    BY <1>2, <2>1, AddressedGrows DEF Good
  <2> QED BY <1>2, <2>2 DEF Good, Remembered, SameHistory
<1>3. NoRepetition => Once(r)
  BY DEF Good, Once, SameHistory
<1> QED BY <1>1, <1>2, <1>3 DEF Good

\* A notification that is not about the problem: it is counted or sets the
\* count to 0, and may be stamped.
Reminded(s, r, t) ==
  /\ SameState(s, r) /\ SameHistory(s, r)
  /\ r.lastNotification \in {s.lastNotification, t}
  /\ \/ s.number <= r.number /\ r.excused = s.excused
     \/ r.excused = IF ExcuseResets THEN s.owed ELSE s.excused

LEMMA RemindedGood ==
  ASSUME NEW t \in Nat, NEW s, Good(s, t), NEW r, Typed(r, t), Reminded(s, r, t)
  PROVE  Good(r, t)
<1>1. ~SendAnyways => Truthful(r)
  BY DEF Good, Truthful, SameHistory, Reminded
<1>2. ASSUME ExcuseResets, Widening PROVE Remembered(r)
  <2>1. CASE s.number <= r.number /\ r.excused = s.excused
    <3>1. Addressed(s) \subseteq Addressed(r)
      BY <1>2, <2>1, AddressedGrows DEF Good
    <3>2. s.number # 0 => r.number # 0
      BY <2>1, NotifierAssumption DEF Good, Typed, ServiceType
    <3> QED BY <1>2, <2>1, <3>1, <3>2 DEF Good, Remembered, SameHistory, Reminded
  <2>2. CASE r.excused = IF ExcuseResets THEN s.owed ELSE s.excused
    BY <1>2, <2>2 DEF Good, Remembered, SameHistory, Reminded
  <2> QED BY <2>1, <2>2 DEF Reminded
<1>3. NoRepetition => Once(r)
  <2>1. s.lastHardChange <= t /\ s.lastHardChange \in Nat /\ s.lastNotification \in Nat
    BY DEF Good, Typed, ServiceType
  <2> QED BY <2>1 DEF Good, Once, SameHistory, SameState, Reminded
<1> QED BY <1>1, <1>2, <1>3 DEF Good

-----------------------------------------------------------------------------
(* notify() *)

LEMMA StampedFacts ==
  ASSUME NEW t \in Nat, NEW s, Typed(s, t), NEW w, w.now = t, NEW to
  PROVE  /\ Typed(Stamped(s, w, to), t)
         /\ \E u \in {s.lastNotification, t} :
              /\ Stamped(s, w, to) = [s EXCEPT !.lastNotification = u]
              /\ to # {} => u = t
<1> DEFINE u == IF to = {} THEN s.lastNotification ELSE w.now
<1>1. s \in ServiceType(t) /\ s.lastNotification \in 0 .. t
  BY DEF Typed, ServiceType
<1>2. Stamped(s, w, to) = [s EXCEPT !.lastNotification = u]
  BY <1>1 DEF Stamped, ServiceType
<1>3. u \in {s.lastNotification, t} /\ u \in 0 .. t /\ (to # {} => u = t)
  BY <1>1
<1> HIDE DEF u
<1>4. Typed(Stamped(s, w, to), t)
  BY <1>1, <1>2, <1>3 DEF Typed, ServiceType
<1> QED BY <1>2, <1>3, <1>4

\* Acknowledgements and downtimes.
LEMMA CountedStampedFacts ==
  ASSUME NEW t \in Nat, NEW s, Typed(s, t), NEW w, w.now = t, NEW to
  PROVE  LET r == Stamped(Counted(s), w, to) IN Typed(r, t) /\ Reminded(s, r, t)
<1> DEFINE n == Counted(s)
           r == Stamped(n, w, to)
<1>1. /\ Typed(n, t) /\ s.number <= n.number /\ n = [s EXCEPT !.number = n.number]
  BY CountedFacts
<1> HIDE DEF n
<1>2. Typed(r, t) /\ \E u \in {n.lastNotification, t} : r = [n EXCEPT !.lastNotification = u]
  BY <1>1, StampedFacts
<1>3. s \in ServiceType(t) /\ n \in ServiceType(t)
  BY <1>1 DEF Typed
<1> HIDE DEF r
<1>4. PICK u \in {n.lastNotification, t} : r = [n EXCEPT !.lastNotification = u]
  BY <1>2
<1>5. SameState(s, r)
  BY <1>1, <1>3, <1>4 DEF ServiceType, SameState
<1>6. SameHistory(s, r) /\ r.excused = s.excused
  BY <1>1, <1>3, <1>4 DEF ServiceType, SameHistory
<1>7. n.lastNotification = s.lastNotification /\ r.number = n.number /\ r.lastNotification = u
  BY <1>1, <1>3, <1>4 DEF ServiceType
<1> QED BY <1>1, <1>2, <1>4, <1>5, <1>6, <1>7 DEF Reminded, n, r

LEMMA NotifyAcknowledgementGood ==
  ASSUME NEW t \in Nat, NEW s, Good(s, t), NEW w, w.now = t
  PROVE  LET r == NotifyAcknowledgement(s, w) IN Good(r, t) /\ SameState(s, r)
<1>1. Typed(s, t) /\ SameState(s, s)
  BY DEF Good, SameState
<1> QED BY <1>1, CountedStampedFacts, RemindedGood DEF NotifyAcknowledgement, Reminded

LEMMA NotifyDowntimeGood ==
  ASSUME NEW t \in Nat, NEW s, Good(s, t), NEW w, w.now = t
  PROVE  LET r == NotifyDowntime(s, w)
         IN  Good(r, t) /\ SameState(s, r) /\ SameHistory(s, r)
<1>1. Typed(s, t) /\ SameState(s, s) /\ SameHistory(s, s)
  BY DEF Good, SameState, SameHistory
<1> QED BY <1>1, CountedStampedFacts, RemindedGood DEF NotifyDowntime, Reminded

\* Flapping and custom notifications.
LEMMA ZeroedFacts ==
  ASSUME NEW t \in Nat, NEW s, Typed(s, t), NEW w, w.now = t, NEW to
  PROVE  LET r == Zeroed(Stamped(s, w, to)) IN Typed(r, t) /\ Reminded(s, r, t)
<1> USE NotifierAssumption
<1> DEFINE n == Stamped(s, w, to)
           r == Zeroed(n)
           x == IF ExcuseResets THEN n.owed ELSE n.excused
<1>1. Typed(n, t) /\ \E u \in {s.lastNotification, t} : n = [s EXCEPT !.lastNotification = u]
  BY StampedFacts
<1> HIDE DEF n
<1>2. PICK u \in {s.lastNotification, t} : n = [s EXCEPT !.lastNotification = u]
  BY <1>1
<1>3. s \in ServiceType(t) /\ n \in ServiceType(t)
  BY <1>1 DEF Typed
<1>4. r = [n EXCEPT !.number = 0, !.excused = x] /\ x \in SUBSET Contact
  BY <1>3 DEF Zeroed, ServiceType
<1>5. x = IF ExcuseResets THEN s.owed ELSE s.excused
  BY <1>2, <1>3 DEF ServiceType
<1> HIDE DEF x, r
<1>6. SameState(s, r)
  BY <1>2, <1>3, <1>4 DEF ServiceType, SameState
<1>7. SameHistory(s, r)
  BY <1>2, <1>3, <1>4 DEF ServiceType, SameHistory
<1>8. r.excused = x /\ r.lastNotification = u
  BY <1>2, <1>3, <1>4 DEF ServiceType
<1>9. Typed(r, t)
  <2>1. 0 \in 0 .. MaxNumber
    OBVIOUS
  <2>2. r \in ServiceType(t) /\ r.normal = n.normal
    BY <1>3, <1>4, <2>1 DEF ServiceType
  <2> QED BY <1>1, <2>2 DEF Typed
<1> QED BY <1>2, <1>5, <1>6, <1>7, <1>8, <1>9 DEF Reminded, n, r

LEMMA NotifyCustomGood ==
  ASSUME NEW t \in Nat, NEW s, Good(s, t), NEW w, w.now = t, NEW forced
  PROVE  LET r == NotifyCustom(s, w, forced) IN Good(r, t) /\ SameState(s, r)
<1>1. Typed(s, t) /\ SameState(s, s)
  BY DEF Good, SameState
<1> QED BY <1>1, ZeroedFacts, RemindedGood DEF NotifyCustom, Reminded

LEMMA NotifyFlappingGood ==
  ASSUME NEW t \in Nat, NEW s, Good(s, t), NEW w, w.now = t, NEW reason
  PROVE  LET r == NotifyFlapping(s, w, reason)
         IN  Good(r, t) /\ SameState(s, r) /\ SameHistory(s, r)
<1> DEFINE z == Zeroed(Stamped(s, w, ContactsToNotify(Counted(s), w, reason)))
           r == NotifyFlapping(s, w, reason)
           flag == (reason = "flappingstart")
<1>1. Typed(s, t) /\ SameState(s, s) /\ SameHistory(s, s)
  BY DEF Good, SameState, SameHistory
<1>2. CASE ~ViableFlapping(s, w, reason)
  BY <1>1, <1>2 DEF NotifyFlapping
<1>3. CASE ViableFlapping(s, w, reason)
  <2>1. Typed(z, t) /\ Reminded(s, z, t)
    BY <1>1, ZeroedFacts
  <2>2. r = [z EXCEPT !.flapNotif = flag] /\ flag \in BOOLEAN
    BY <1>3 DEF NotifyFlapping
  <2> HIDE DEF z, flag, r
  <2>3. z \in ServiceType(t)
    BY <2>1 DEF Typed
  <2>4. Typed(r, t)
    BY <2>1, <2>2, <2>3 DEF Typed, ServiceType
  <2>5. SameState(s, r)
    BY <2>1, <2>2, <2>3 DEF Reminded, SameState, ServiceType
  <2>6. SameHistory(s, r)
    BY <2>1, <2>2, <2>3 DEF Reminded, SameHistory, ServiceType
  <2>7. r.number = z.number /\ r.excused = z.excused /\ r.lastNotification = z.lastNotification
    BY <2>2, <2>3 DEF ServiceType
  <2>8. Reminded(s, r, t)
    BY <2>1, <2>5, <2>6, <2>7 DEF Reminded
  <2> QED BY <2>4, <2>5, <2>6, <2>8, RemindedGood DEF r
<1> QED BY <1>2, <1>3

\* The fields of the service after a notification of a problem.
LEMMA NotifyNormalFields ==
  ASSUME NEW t \in Nat, NEW s, Typed(s, t), NEW w, w.now = t, ViableNormal(s, w)
  PROVE  LET n  == Counted(s)
             to == ContactsToNotify(n, w, "normal")
             r  == NotifyNormal(s, w)
         IN  /\ Typed(r, t) /\ SameState(s, r) /\ r.number = n.number
             /\ r.normal = {[to |-> to \cup UNION {p.to : p \in s.normal},
                             interval |-> IntervalOf(n)]}
             /\ r.owed = s.owed \cup to /\ r.excused = s.excused \ to
             /\ r.repeated = s.repeated \cup (to \cap s.fresh) /\ r.fresh = s.fresh \cup to
             /\ r.lost = s.lost /\ r.wrong = s.wrong
             /\ to # {} => r.lastNotification = t
<1> DEFINE n  == Counted(s)
           to == ContactsToNotify(n, w, "normal")
           m  == Stamped(n, w, to)
           r  == NotifyNormal(s, w)
           p0 == [to |-> to \cup UNION {p.to : p \in s.normal}, interval |-> IntervalOf(n)]
<1>1. Typed(n, t) /\ n = [s EXCEPT !.number = n.number] /\ n.number \in 0 .. MaxNumber
  BY CountedFacts DEF Typed, ServiceType
<1>2. to \subseteq Contact /\ IntervalOf(n) \in Nat
  BY ContactsFacts, IntervalFacts
<1>3. r = [m EXCEPT !.normal = {p0}, !.owed = @ \cup to, !.excused = @ \ to,
                    !.repeated = @ \cup (to \cap s.fresh), !.fresh = @ \cup to]
  BY DEF NotifyNormal
<1> HIDE DEF n, to
<1>4. Typed(m, t) /\ \E u \in {n.lastNotification, t} :
                       m = [n EXCEPT !.lastNotification = u] /\ (to # {} => u = t)
  BY <1>1, StampedFacts
<1> HIDE DEF m, r
<1>5. PICK u \in {n.lastNotification, t} :
        m = [n EXCEPT !.lastNotification = u] /\ (to # {} => u = t)
  BY <1>4
<1>6. s \in ServiceType(t) /\ n \in ServiceType(t) /\ m \in ServiceType(t)
  BY <1>1, <1>4 DEF Typed
<1>7. p0 \in NotificationType
  <2>1. UNION {p.to : p \in s.normal} \subseteq Contact
    BY <1>6 DEF ServiceType, NotificationType
  <2> QED BY <1>2, <2>1 DEF NotificationType
<1> HIDE DEF p0
<1>8. /\ m.owed = s.owed /\ m.excused = s.excused /\ m.repeated = s.repeated
      /\ m.fresh = s.fresh /\ m.lost = s.lost /\ m.wrong = s.wrong
      /\ m.number = n.number /\ m.lastNotification = u
  BY <1>1, <1>5, <1>6 DEF ServiceType
<1>9. SameState(s, m)
  BY <1>1, <1>5, <1>6 DEF ServiceType, SameState
<1>10. /\ r.normal = {p0} /\ r.owed = m.owed \cup to /\ r.excused = m.excused \ to
       /\ r.repeated = m.repeated \cup (to \cap s.fresh) /\ r.fresh = m.fresh \cup to
       /\ r.lost = m.lost /\ r.wrong = m.wrong
       /\ r.number = m.number /\ r.lastNotification = m.lastNotification
  BY <1>3, <1>6 DEF ServiceType
<1>11. SameState(m, r)
  BY <1>3, <1>6 DEF ServiceType, SameState
<1>12. r \in ServiceType(t)
  <2> DEFINE a == m.owed \cup to
             b == m.excused \ to
             c == m.repeated \cup (to \cap s.fresh)
             d == m.fresh \cup to
             q == {p0}
  <2>1. /\ a \in SUBSET Contact /\ b \in SUBSET Contact /\ c \in SUBSET Contact
        /\ d \in SUBSET Contact
        /\ q \in SUBSET NotificationType
    BY <1>2, <1>6, <1>7 DEF ServiceType
  <2>2. r = [m EXCEPT !.normal = q, !.owed = a, !.excused = b, !.repeated = c, !.fresh = d]
    BY <1>3, <1>6 DEF ServiceType
  <2> HIDE DEF a, b, c, d, q
  <2> QED BY <1>6, <2>1, <2>2 DEF ServiceType
<1>13. Typed(r, t) /\ SameState(s, r)
  BY <1>9, <1>10, <1>11, <1>12 DEF Typed, SameState
<1> QED BY <1>5, <1>8, <1>10, <1>13 DEF n, to, r, p0

LEMMA NotifyNormalGood ==
  ASSUME NEW t \in Nat, NEW s, Good(s, t), NEW w, w.now = t,
         s.lastHard = s.state, 0 < s.lastHardChange
  PROVE  LET r == NotifyNormal(s, w) IN Good(r, t) /\ SameState(s, r)
<1> DEFINE n  == Counted(s)
           to == ContactsToNotify(n, w, "normal")
           r  == NotifyNormal(s, w)
<1>t. Typed(s, t) /\ s \in ServiceType(t)
  BY DEF Good, Typed
<1>1. CASE ~ViableNormal(s, w)
  BY <1>1 DEF NotifyNormal, SameState
<1>2. CASE ViableNormal(s, w)
  <2>1. /\ Typed(r, t) /\ SameState(s, r) /\ r.number = n.number
        /\ r.normal = {[to |-> to \cup UNION {p.to : p \in s.normal},
                        interval |-> IntervalOf(n)]}
        /\ r.owed = s.owed \cup to /\ r.excused = s.excused \ to
        /\ r.repeated = s.repeated \cup (to \cap s.fresh) /\ r.fresh = s.fresh \cup to
        /\ r.lost = s.lost /\ r.wrong = s.wrong
        /\ to # {} => r.lastNotification = t
    BY <1>t, <1>2, NotifyNormalFields
  <2>2. Typed(n, t) /\ n.number # 0 /\ s.number <= n.number /\ n.number \in Nat
    BY <1>t, CountedFacts, NotifierAssumption DEF Typed, ServiceType
  <2>3. to \subseteq Addressed(n)
    BY ContactsFacts
  <2> HIDE DEF n, to, r
  <2>4. ~SendAnyways => Truthful(r)
    BY <2>1 DEF Good, Truthful
  <2>5. ASSUME ExcuseResets, Widening PROVE Remembered(r)
    <3>1. Addressed(s) \subseteq Addressed(n)
      BY <1>t, <2>2, <2>5, AddressedGrows
    <3>2. n.number <= r.number
      BY <2>1, <2>2
    <3>3. Addressed(n) \subseteq Addressed(r)
      BY <2>1, <2>2, <2>5, <3>2, AddressedGrows
    <3>4. ASSUME NEW c \in r.owed \ r.excused
          PROVE  c \in Addressed(r) /\ \E p \in r.normal : c \in p.to
      <4>1. CASE c \in to
        BY <2>1, <2>3, <3>3, <4>1
      <4>2. CASE c \notin to
        <5>1. c \in s.owed \ s.excused
          BY <2>1, <4>2, <3>4
        <5>2. c \in Addressed(s) /\ \E p \in s.normal : c \in p.to
          BY <2>5, <5>1 DEF Good, Remembered
        <5> QED BY <2>1, <3>1, <3>3, <5>2
      <4> QED BY <4>1, <4>2
    <3> QED BY <2>1, <2>2, <2>5, <3>4 DEF Good, Remembered
  <2>6. ASSUME NoRepetition PROVE Once(r)
    <3>1. ~Volatile /\ IntervalOf(n) = 0 /\ Once(s)
      BY <2>6, IntervalFacts DEF NoRepetition, Good
    <3>2. s.state # "ok" /\ IntervalElapsed(s, w)
      BY <1>2, <3>1 DEF ViableNormal
    <3>3. s.fresh = {}
      BY <3>1, <3>2 DEF Once, IntervalElapsed
    <3>4. s.lastHardChange \in 0 .. t
      BY <1>t DEF ServiceType
    <3> QED BY <2>1, <3>1, <3>2, <3>3, <3>4 DEF Once, SameState
  <2> QED BY <2>1, <2>4, <2>5, <2>6 DEF Good, r
<1> QED BY <1>1, <1>2

Judged(s, lost, wrong) == [s EXCEPT !.lost = lost, !.wrong = wrong]

Erased(s, r, lost, wrong, t) ==
  /\ Typed(r, t) /\ SameState(s, r)
  /\ r.normal = {} /\ r.owed = {} /\ r.excused = {} /\ r.fresh = {}
  /\ r.repeated = s.repeated /\ r.lost = lost /\ r.wrong = wrong

\* After a recovery notification, or when there never will be one, nothing is
\* remembered of the problem.
LEMMA ForgottenFacts ==
  ASSUME NEW t \in Nat, NEW s, Typed(s, t), NEW lost \in SUBSET Contact,
         NEW wrong \in SUBSET Contact
  PROVE  Erased(s, Judged(Forgotten(s), lost, wrong), lost, wrong, t)
<1> DEFINE f == Forgotten(s)
           r == Judged(Forgotten(s), lost, wrong)
<1>1. s \in ServiceType(t) /\ 0 \in 0 .. MaxNumber
  BY NotifierAssumption DEF Typed
<1>2. f = [s EXCEPT !.normal = {}, !.number = 0, !.owed = {}, !.excused = {}, !.fresh = {}]
  BY DEF Forgotten
<1>r. r = [f EXCEPT !.lost = lost, !.wrong = wrong]
  BY DEF Judged
<1> HIDE DEF f, r
<1>3. f \in ServiceType(t)
  BY <1>1, <1>2 DEF ServiceType
<1>4. /\ f.normal = {} /\ f.owed = {} /\ f.excused = {} /\ f.fresh = {}
      /\ f.repeated = s.repeated
  BY <1>1, <1>2 DEF ServiceType
<1>5. SameState(s, f)
  BY <1>1, <1>2 DEF ServiceType, SameState
<1>6. /\ r \in ServiceType(t) /\ r.normal = f.normal /\ r.owed = f.owed
      /\ r.excused = f.excused /\ r.fresh = f.fresh /\ r.repeated = f.repeated
      /\ r.lost = lost /\ r.wrong = wrong
  BY <1>3, <1>r DEF ServiceType
<1>7. SameState(f, r)
  BY <1>3, <1>r DEF ServiceType, SameState
<1> QED BY <1>4, <1>5, <1>6, <1>7 DEF Erased, Typed, SameState, f, r

\* A forgotten problem leaves a good record if nobody was forgotten or misled.
LEMMA ForgottenGood ==
  ASSUME NEW t \in Nat, NEW s, Good(s, t), NEW r, Typed(r, t),
         r.normal = {}, r.owed = {}, r.fresh = {}, r.repeated = s.repeated,
         ~SendAnyways => r.wrong = {},
         ExcuseResets /\ Widening => r.lost = {}
  PROVE  Good(r, t)
<1>1. ~SendAnyways => Truthful(r)
  BY DEF Truthful
<1>2. ExcuseResets /\ Widening => Remembered(r)
  BY DEF Remembered
<1>3. NoRepetition => Once(r)
  BY DEF Good, Once
<1> QED BY <1>1, <1>2, <1>3 DEF Good

LEMMA NotifyRecoveryGood ==
  ASSUME NEW t \in Nat, NEW s, Good(s, t), NEW w, w.now = t
  PROVE  LET r == NotifyRecovery(s, w)
         IN  Good(r, t) /\ SameState(s, r) /\ r.fresh \subseteq s.fresh
<1> DEFINE r == NotifyRecovery(s, w)
           v == RecoveryVerdict(s, w)
<1>t. Typed(s, t) /\ s \in ServiceType(t) /\ SameState(s, s)
  BY DEF Good, Typed, SameState
<1>1. CASE v = "later"
  <2>1. r = s
    BY <1>1 DEF NotifyRecovery
  <2> QED BY <1>t, <2>1
<1>2. CASE v = "never"
  <2> DEFINE X == IF Enabled(w) /\ "ok" \in NotifyOn THEN s.owed \ s.excused ELSE {}
             f == Forgotten(s)
             lost == s.lost \cup X
  <2>1. r = [f EXCEPT !.lost = @ \cup X]
    BY <1>2 DEF NotifyRecovery
  <2>2. f = [s EXCEPT !.normal = {}, !.number = 0, !.owed = {}, !.excused = {}, !.fresh = {}]
    BY DEF Forgotten
  <2>3. lost \in SUBSET Contact /\ s.wrong \in SUBSET Contact /\ X \in SUBSET Contact
    BY <1>t DEF ServiceType
  <2>4. ASSUME ExcuseResets, Widening PROVE lost = {}
    <3>1. Remembered(s)
      BY <2>4 DEF Good
    <3>2. CASE X = {}
      BY <3>1, <3>2 DEF Remembered
    <3>3. CASE X # {}
      <4>1. Enabled(w) /\ "ok" \in NotifyOn
        BY <3>3
      <4>2. s.number = 0 \/ s.normal = {}
        BY <1>2, <4>1 DEF RecoveryVerdict
      <4>3. s.owed \ s.excused = {}
        BY <3>1, <4>2 DEF Remembered
      <4> QED BY <3>3, <4>3
    <3> QED BY <3>2, <3>3
  <2> HIDE DEF X, f
  <2>5. f \in ServiceType(t) /\ f.lost = s.lost /\ f.wrong = s.wrong
    <3>1. 0 \in 0 .. MaxNumber
      BY NotifierAssumption
    <3>2. f \in ServiceType(t)
      BY <1>t, <2>2, <3>1 DEF ServiceType
    <3>3. f.lost = s.lost /\ f.wrong = s.wrong
      BY <1>t, <2>2 DEF ServiceType
    <3> QED BY <3>2, <3>3
  <2>6. r = [f EXCEPT !.lost = lost, !.wrong = s.wrong]
    BY <2>1, <2>5 DEF ServiceType
  <2> HIDE DEF r, lost
  <2>7. /\ Typed(r, t) /\ SameState(s, r) /\ r.normal = {} /\ r.owed = {} /\ r.fresh = {}
        /\ r.repeated = s.repeated /\ r.lost = lost /\ r.wrong = s.wrong
    <3>1. r = Judged(Forgotten(s), lost, s.wrong)
      BY <2>6 DEF f, Judged
    <3>2. Erased(s, Judged(Forgotten(s), lost, s.wrong), lost, s.wrong, t)
      BY <1>t, <2>3, ForgottenFacts
    <3> QED BY <3>1, <3>2 DEF Erased
  <2>8. ~SendAnyways => r.wrong = {}
    BY <2>7 DEF Good, Truthful
  <2>9. Good(r, t)
    BY <2>4, <2>7, <2>8, ForgottenGood
  <2> QED BY <2>7, <2>9 DEF r
<1>3. CASE v \notin {"later", "never"}
  <2> DEFINE to == ContactsToNotify(s, w, "recovery")
             m == Stamped(s, w, to)
             f == Forgotten(m)
             X == {c \in s.owed \ (to \cup s.excused \cup w.away) : "ok" \in ContactNotifyOn[c]}
             Y == IF s.state = "ok" THEN to \ s.owed ELSE to
             lost == s.lost \cup X
             wrong == s.wrong \cup Y
  <2>1. r = [f EXCEPT !.lost = @ \cup X, !.wrong = @ \cup Y]
    BY <1>3 DEF NotifyRecovery
  <2>2. /\ to \subseteq Contact
        /\ to = {c \in Addressed(s) : ShouldBeNotified(c, s, w, "recovery")}
    BY ContactsFacts
  <2>3. \A c : ShouldBeNotified(c, s, w, "recovery")
                 <=> /\ c \notin w.away /\ "ok" \in ContactNotifyOn[c]
                     /\ \E n \in s.normal : c \in n.to
    BY DEF ShouldBeNotified
  <2>4. ASSUME ~SendAnyways PROVE wrong = {}
    <3>1. s.state = "ok"
      BY <1>3, <2>4 DEF RecoveryVerdict
    <3>2. to \subseteq s.owed /\ s.wrong = {}
      BY <2>2, <2>3, <2>4 DEF Good, Truthful
    <3> QED BY <3>1, <3>2
  <2>5. ASSUME ExcuseResets, Widening PROVE lost = {}
    <3>1. Remembered(s)
      BY <2>5 DEF Good
    <3>2. X = {}
      BY <2>2, <2>3, <3>1 DEF Remembered
    <3> QED BY <3>1, <3>2 DEF Remembered
  <2>6. lost \in SUBSET Contact /\ wrong \in SUBSET Contact
    BY <1>t, <2>2 DEF ServiceType
  <2> HIDE DEF X, Y, to
  <2>7. Typed(m, t) /\ \E u \in {s.lastNotification, t} : m = [s EXCEPT !.lastNotification = u]
    BY <1>t, StampedFacts
  <2> HIDE DEF m
  <2>8. PICK u \in {s.lastNotification, t} : m = [s EXCEPT !.lastNotification = u]
    BY <2>7
  <2>9. m \in ServiceType(t)
    BY <2>7 DEF Typed
  <2>10. m.lost = s.lost /\ m.wrong = s.wrong /\ m.repeated = s.repeated
    BY <1>t, <2>8 DEF ServiceType
  <2>11. SameState(s, m)
    BY <1>t, <2>8 DEF ServiceType, SameState
  <2>12. f = [m EXCEPT !.normal = {}, !.number = 0, !.owed = {}, !.excused = {}, !.fresh = {}]
    BY DEF Forgotten
  <2> HIDE DEF f
  <2>13. f \in ServiceType(t) /\ f.lost = m.lost /\ f.wrong = m.wrong
    <3>1. 0 \in 0 .. MaxNumber
      BY NotifierAssumption
    <3> QED BY <2>9, <2>12, <3>1 DEF ServiceType
  <2>14. r = [f EXCEPT !.lost = lost, !.wrong = wrong]
    BY <2>1, <2>10, <2>13 DEF ServiceType
  <2> HIDE DEF r, lost, wrong
  <2>15. /\ Typed(r, t) /\ SameState(m, r) /\ r.normal = {} /\ r.owed = {} /\ r.fresh = {}
         /\ r.repeated = m.repeated /\ r.lost = lost /\ r.wrong = wrong
    <3>1. r = Judged(Forgotten(m), lost, wrong)
      BY <2>14 DEF f, Judged
    <3>2. Erased(m, Judged(Forgotten(m), lost, wrong), lost, wrong, t)
      BY <2>6, <2>7, ForgottenFacts
    <3> QED BY <3>1, <3>2 DEF Erased
  <2>16. Good(r, t)
    BY <2>4, <2>5, <2>10, <2>15, ForgottenGood
  <2>17. SameState(s, r)
    BY <2>11, <2>15 DEF SameState
  <2> QED BY <2>15, <2>16, <2>17 DEF r
<1> QED BY <1>1, <1>2, <1>3

-----------------------------------------------------------------------------
(* The stages of handle_async_check_result() *)

\* r is a good record with the state of s, and nobody else was told of it.
Follows(s, r, t) == Good(r, t) /\ SameState(s, r) /\ r.fresh \subseteq s.fresh

LEMMA FollowsTransitive ==
  ASSUME NEW t, NEW s, NEW r, NEW q, Follows(s, r, t), Follows(r, q, t)
  PROVE  Follows(s, q, t)
  BY DEF Follows, SameState

\* is_flapping is switched.
Flap(s, b) == [s EXCEPT !.flapping = b]

LEMMA FlapFollows ==
  ASSUME NEW t \in Nat, NEW s, Good(s, t), NEW b \in BOOLEAN
  PROVE  Follows(s, Flap(s, b), t)
<1> DEFINE r == Flap(s, b)
<1>1. s \in ServiceType(t) /\ Typed(s, t)
  BY DEF Good, Typed
<1>2. r = [s EXCEPT !.flapping = b]
  BY DEF Flap
<1> HIDE DEF r
<1>3. Typed(r, t)
  BY <1>1, <1>2 DEF Typed, ServiceType
<1>4. SameState(s, r)
  BY <1>1, <1>2 DEF SameState, ServiceType
<1>5. /\ SameHistory(s, r) /\ r.number = s.number /\ r.excused = s.excused
      /\ r.lastNotification = s.lastNotification
  BY <1>1, <1>2 DEF SameHistory, ServiceType
<1>6. Good(r, t)
  BY <1>3, <1>4, <1>5, EditGood DEF SameState
<1> QED BY <1>4, <1>5, <1>6 DEF Follows, SameHistory, r

LEMMA WorldNow == World.now = now
  BY DEF World

LEMMA FlappingFollows ==
  ASSUME now \in Nat, NEW s, Good(s, now), NEW reason
  PROVE  Follows(s, NotifyFlapping(s, World, reason), now)
  BY WorldNow, NotifyFlappingGood DEF Follows, SameHistory

LEMMA RecoveryFollows ==
  ASSUME now \in Nat, NEW s, Good(s, now)
  PROVE  Follows(s, NotifyRecovery(s, World), now)
  BY WorldNow, NotifyRecoveryGood DEF Follows

LEMMA ClearFlapFollows ==
  ASSUME now \in Nat, NEW s, Good(s, now), NEW reason
  PROVE  Follows(s, NotifyRecovery(NotifyFlapping(Flap(s, FALSE), World, reason), World), now)
<1> DEFINE a == Flap(s, FALSE)
           b == NotifyFlapping(a, World, reason)
           c == NotifyRecovery(b, World)
<1>1. Follows(s, a, now)
  BY FlapFollows
<1> HIDE DEF a
<1>2. Follows(a, b, now)
  BY <1>1, FlappingFollows DEF Follows
<1> HIDE DEF b
<1>3. Follows(b, c, now)
  BY <1>2, RecoveryFollows DEF Follows
<1> HIDE DEF c
<1>4. Follows(s, c, now)
  BY <1>1, <1>2, <1>3, FollowsTransitive
<1> QED BY <1>4 DEF a, b, c

LEMMA CheckForFlappingFollows ==
  ASSUME now \in Nat, NEW s, Good(s, now), NEW zone
  PROVE  Follows(s, CheckForFlapping(s, zone), now)
<1>1. Follows(s, s, now)
  BY DEF Follows, SameState
<1>2. Follows(s, SetFlap(s), now)
  <2> DEFINE a == Flap(s, TRUE)
             b == NotifyFlapping(a, World, "flappingstart")
  <2>1. Follows(s, a, now)
    BY FlapFollows
  <2>2. SetFlap(s) = b
    BY DEF SetFlap, Flap
  <2> HIDE DEF a
  <2>3. Follows(a, b, now)
    BY <2>1, FlappingFollows DEF Follows
  <2> HIDE DEF b
  <2> QED BY <2>1, <2>2, <2>3, FollowsTransitive
<1>3. Follows(s, ClearFlap(s), now)
  <2>1. ClearFlap(s)
          = NotifyRecovery(NotifyFlapping(Flap(s, FALSE), World, "flappingstop"), World)
    BY DEF ClearFlap, Flap
  <2> QED BY <2>1, ClearFlapFollows
<1> QED BY <1>1, <1>2, <1>3 DEF CheckForFlapping

\* A downtime starts: the depth is the only part of the state that changes.
LEMMA EnterDowntimeGood ==
  ASSUME now \in Nat, NEW s, Good(s, now), s.depth = 0
  PROVE  LET r == EnterDowntime(s)
         IN  /\ Good(r, now) /\ r.fresh = s.fresh /\ r.state = s.state /\ r.type = s.type
             /\ r.attempt = s.attempt /\ r.lastHard = s.lastHard
             /\ r.lastHardChange = s.lastHardChange /\ r.hostProblem = s.hostProblem
<1> DEFINE n == NotifyDowntime(s, World)
           r == EnterDowntime(s)
<1>1. Good(n, now) /\ SameState(s, n) /\ SameHistory(s, n)
  BY WorldNow, NotifyDowntimeGood
<1>2. r = [n EXCEPT !.depth = @ + 1]
  BY DEF EnterDowntime
<1> HIDE DEF n, r
<1>3. n \in ServiceType(now) /\ n.depth = 0 /\ Typed(n, now)
  BY <1>1 DEF Good, Typed, SameState
<1>4. r = [n EXCEPT !.depth = 1]
  BY <1>2, <1>3 DEF ServiceType
<1>5. Typed(r, now)
  BY <1>3, <1>4 DEF Typed, ServiceType
<1>6. /\ r.state = n.state /\ r.type = n.type /\ r.attempt = n.attempt
      /\ r.lastHard = n.lastHard /\ r.lastHardChange = n.lastHardChange
      /\ r.hostProblem = n.hostProblem
  BY <1>3, <1>4 DEF ServiceType
<1>7. /\ SameHistory(n, r) /\ r.number = n.number /\ r.excused = n.excused
      /\ r.lastNotification = n.lastNotification
  BY <1>3, <1>4 DEF ServiceType, SameHistory
<1>8. Good(r, now)
  BY <1>1, <1>5, <1>6, <1>7, EditGood
<1> QED BY <1>1, <1>6, <1>7, <1>8 DEF SameState, SameHistory, r

-----------------------------------------------------------------------------
(* The stages that change the state *)

\* What is remembered of notifications is the same, except that the state may
\* be another one than the contacts were told of.
SameNotifications(s, r) ==
  /\ r.normal = s.normal /\ r.owed = s.owed /\ r.lost = s.lost /\ r.wrong = s.wrong
  /\ r.repeated = s.repeated /\ r.number = s.number /\ r.excused = s.excused

\* The hard state that contacts were told of is still the one of the service.
Current(s) ==
  NoRepetition /\ s.fresh # {} =>
    /\ 0 < s.lastHardChange /\ s.lastHardChange <= s.lastNotification
    /\ s.lastHard = s.state /\ s.state # "ok"

LEMMA CurrentWhenGood ==
  ASSUME NEW t, NEW s, Good(s, t)
  PROVE  Current(s)
  BY DEF Good, Once, Current

LEMMA RestatedGood ==
  ASSUME NEW t \in Nat, NEW s, Good(s, t), NEW r, Typed(r, t),
         SameNotifications(s, r), r.fresh \subseteq s.fresh, Current(r)
  PROVE  Good(r, t)
<1>1. ~SendAnyways => Truthful(r)
  BY DEF Good, Truthful, SameNotifications
<1>2. ASSUME ExcuseResets, Widening PROVE Remembered(r)
  <2>1. s.number <= r.number
    BY NotifierAssumption DEF Good, Typed, ServiceType, SameNotifications
  <2>2. Addressed(s) \subseteq Addressed(r)
    BY <1>2, <2>1, AddressedGrows DEF Good
  <2> QED BY <1>2, <2>2 DEF Good, Remembered, SameNotifications
<1>3. NoRepetition => Once(r)
  BY DEF Good, Once, SameNotifications, Current
<1> QED BY <1>1, <1>2, <1>3 DEF Good

LEMMA NextAttemptFacts ==
  ASSUME NEW t \in Nat, NEW s, Typed(s, t), NEW r
  PROVE  NextAttempt(s, r) \in 1 .. MaxAttempts
<1>1. s.attempt \in 1 .. MaxAttempts /\ MaxAttempts \in Nat \ {0}
  BY ServiceAssumption DEF Typed, ServiceType
<1> QED BY <1>1 DEF NextAttempt

\* Recorded() gives the result r of a check that started at time t to s.
LEMMA RecordedGood ==
  ASSUME now \in Nat, NEW s, Good(s, now), NEW r \in State, NEW t \in 1 .. now
  PROVE  LET a == Recorded(s, r, t)
         IN  /\ Good(a, now) /\ a.state = r /\ a.hostProblem = s.hostProblem
             /\ a.depth = s.depth /\ a.lastHard = s.lastHard /\ 0 < a.lastHardChange
             /\ NoRepetition /\ a.fresh # {} =>
                  ~StateChange(s, r) /\ ~HardStateChange(s, r) /\ r # "ok"
<1> DEFINE change == StateChange(s, r)
           hard == HardStateChange(s, r)
           at == NextAttempt(s, r)
           ack == AckAfter(s, r)
           ln == IF change \/ hard THEN 0 ELSE s.lastNotification
           lc == IF change THEN t ELSE IF s.lastChange = 0 THEN t ELSE s.lastChange
           lh == IF hard THEN t ELSE IF s.lastHardChange = 0 THEN t ELSE s.lastHardChange
           fr == IF change \/ hard THEN {} ELSE s.fresh
           a == Recorded(s, r, t)
<1>1. s \in ServiceType(now) /\ Typed(s, now)
  BY DEF Good, Typed
<1>2. a = [s EXCEPT !.state = r, !.attempt = at, !.ack = ack, !.lastNotification = ln,
                    !.lastChange = lc, !.lastHardChange = lh, !.fresh = fr]
  BY <1>1 DEF Recorded, ServiceType
<1>3. at \in 1 .. MaxAttempts /\ ack \in {"none", "normal", "sticky"}
  BY <1>1, NextAttemptFacts DEF AckAfter, ServiceType
<1>4. ln \in 0 .. now /\ lc \in 0 .. now /\ lh \in 1 .. now /\ fr \subseteq s.fresh
  BY <1>1 DEF ServiceType
<1>4a. lh \in 0 .. now /\ fr \in SUBSET Contact
  BY <1>1, <1>4 DEF ServiceType
<1>5. NoRepetition /\ fr # {} => ~change /\ ~hard /\ r # "ok" /\ s.fresh # {}
  <2>1. ASSUME NoRepetition, fr # {} PROVE ~change /\ ~hard /\ s.fresh # {}
    BY <2>1
  <2>2. ASSUME NoRepetition, fr # {} PROVE r # "ok"
    BY <2>1, <2>2, CurrentWhenGood DEF StateChange, Current
  <2> QED BY <2>1, <2>2
<1>6. NoRepetition /\ fr # {} =>
        /\ 0 < lh /\ lh <= ln /\ s.lastHard = r /\ r # "ok"
  <2>1. Current(s)
    BY CurrentWhenGood
  <2>2. s.lastHardChange \in Nat
    BY <1>1 DEF ServiceType
  <2> QED BY <1>5, <2>1, <2>2 DEF Current, StateChange
<1> HIDE DEF a, at, ack, ln, lc, lh, fr
<1>7. a \in ServiceType(now)
  BY <1>1, <1>2, <1>3, <1>4, <1>4a DEF ServiceType
<1>8. SameNotifications(s, a) /\ a.fresh = fr /\ a.lastNotification = ln
  BY <1>1, <1>2 DEF ServiceType, SameNotifications
<1>9. /\ a.state = r /\ a.lastHardChange = lh /\ a.lastHard = s.lastHard
      /\ a.hostProblem = s.hostProblem /\ a.depth = s.depth
  BY <1>1, <1>2 DEF ServiceType
<1>10. Typed(a, now)
  BY <1>1, <1>7, <1>8 DEF Typed, SameNotifications
<1>11. Current(a)
  BY <1>6, <1>8, <1>9 DEF Current
<1>12. Good(a, now)
  BY <1>4, <1>8, <1>10, <1>11, RestatedGood
<1>13. 0 < lh
  BY <1>4
<1> QED BY <1>5, <1>8, <1>9, <1>12, <1>13 DEF a

\* Nobody counts as told of the present state: what a result OK leaves.
Settled(s, t) == Good(s, t) /\ (NoRepetition => s.fresh = {}) /\ s.state = "ok"

LEMMA SettledFollows ==
  ASSUME NEW t, NEW s, Settled(s, t), NEW r, Follows(s, r, t)
  PROVE  Settled(r, t)
  BY DEF Settled, Follows, SameState

LEMMA HardRecoverySettled ==
  ASSUME now \in Nat, NEW s, Settled(s, now), NEW t \in 1 .. now
  PROVE  Settled(HardRecovery(s, t), now)
<1> DEFINE r == HardRecovery(s, t)
<1>1. s \in ServiceType(now) /\ Good(s, now) /\ 1 \in 1 .. MaxAttempts /\ t \in 0 .. now
  BY ServiceAssumption DEF Settled, Good, Typed
<1>2. r = [s EXCEPT !.type = "hard", !.lastHardChange = t, !.attempt = 1]
  BY DEF HardRecovery
<1> HIDE DEF r
<1>3. r \in ServiceType(now)
  BY <1>1, <1>2 DEF ServiceType
<1>4. SameNotifications(s, r) /\ r.fresh = s.fresh /\ r.state = s.state
  BY <1>1, <1>2 DEF ServiceType, SameNotifications
<1>5. Typed(r, now) /\ Current(r)
  BY <1>1, <1>3, <1>4 DEF Good, Typed, SameNotifications, Current, Settled
<1>6. Good(r, now)
  BY <1>1, <1>4, <1>5, RestatedGood
<1> QED BY <1>4, <1>6 DEF Settled, r

LEMMA SoftRecoverySettled ==
  ASSUME now \in Nat, NEW s, Settled(s, now)
  PROVE  Settled(SoftRecovery(s), now)
<1> DEFINE r == SoftRecovery(s)
           at == IF MaxAttempts - 1 < 1 THEN 1 ELSE MaxAttempts - 1
<1>1. s \in ServiceType(now) /\ Good(s, now) /\ at \in 1 .. MaxAttempts
  BY ServiceAssumption DEF Settled, Good, Typed
<1>2. r = [s EXCEPT !.type = "soft", !.attempt = at]
  BY DEF SoftRecovery
<1> HIDE DEF r, at
<1>3. r \in ServiceType(now)
  BY <1>1, <1>2 DEF ServiceType
<1>4. SameNotifications(s, r) /\ r.fresh = s.fresh /\ r.state = s.state
  BY <1>1, <1>2 DEF ServiceType, SameNotifications
<1>5. Typed(r, now) /\ Current(r)
  BY <1>1, <1>3, <1>4 DEF Good, Typed, SameNotifications, Current, Settled
<1>6. Good(r, now)
  BY <1>1, <1>4, <1>5, RestatedGood
<1> QED BY <1>4, <1>6 DEF Settled, r

LEMMA OkResetSettled ==
  ASSUME now \in Nat, NEW s, Settled(s, now)
  PROVE  Settled(OkReset(s), now)
<1> DEFINE r == OkReset(s)
<1>1. s \in ServiceType(now) /\ Good(s, now) /\ 0 \in 0 .. now /\ "ok" \in State
  BY DEF Settled, Good, Typed, State
<1>2. r = [s EXCEPT !.hostProblem = FALSE, !.lastHard = "ok",
                    !.lastNotification = 0, !.ack = "none"]
  BY DEF OkReset
<1> HIDE DEF r
<1>3. r \in ServiceType(now)
  BY <1>1, <1>2 DEF ServiceType
<1>4. SameNotifications(s, r) /\ r.fresh = s.fresh /\ r.state = s.state
  BY <1>1, <1>2 DEF ServiceType, SameNotifications
<1>5. Typed(r, now) /\ Current(r)
  BY <1>1, <1>3, <1>4 DEF Good, Typed, SameNotifications, Current, Settled
<1>6. Good(r, now)
  BY <1>1, <1>4, <1>5, RestatedGood
<1> QED BY <1>4, <1>6 DEF Settled, r

LEMMA OkResultSettled ==
  ASSUME now \in Nat, NEW s, Settled(s, now), NEW t \in 1 .. now,
         NEW change, NEW hard, NEW zone, OkResult(s, change, hard, t, zone)
  PROVE  Settled(svc', now)
<1>1. \A x : Settled(x, now) => Settled(NotifyRecovery(x, World), now)
  BY RecoveryFollows, SettledFollows DEF Settled
<1>2. \A x : Settled(x, now) => Settled(CheckForFlapping(x, zone), now)
  BY CheckForFlappingFollows, SettledFollows DEF Settled
<1>3. CASE hard
  <2> DEFINE h == HardRecovery(s, t)
             a == CheckForFlapping(h, zone)
             b == NotifyRecovery(a, World)
             c == NotifyRecovery(b, World)
  <2>1. Settled(h, now)
    BY HardRecoverySettled
  <2>2. svc' = OkReset(c)
    BY <1>3 DEF OkResult, Becomes
  <2> HIDE DEF h
  <2>3. Settled(a, now)
    BY <1>2, <2>1
  <2> HIDE DEF a
  <2>4. Settled(b, now)
    BY <1>1, <2>3
  <2> HIDE DEF b
  <2>5. Settled(c, now)
    BY <1>1, <2>4
  <2> HIDE DEF c
  <2> QED BY <2>2, <2>5, OkResetSettled
<1>4. CASE ~hard
  <2> DEFINE a == IF change THEN SoftRecovery(s) ELSE s
             n == NotifyRecovery(a, World)
             b == OkReset(n)
  <2>1. Settled(a, now)
    BY SoftRecoverySettled
  <2>2. svc' = CheckForFlapping(b, zone)
    BY <1>4 DEF OkResult, Becomes
  <2> HIDE DEF a
  <2>3. Settled(n, now)
    BY <1>1, <2>1
  <2> HIDE DEF n
  <2>4. Settled(b, now)
    BY <2>3, OkResetSettled
  <2> HIDE DEF b
  <2> QED BY <1>2, <2>2, <2>4
<1> QED BY <1>3, <1>4

\* AfterHost() keeps what Current() says, because a state that contacts were
\* told of is the last hard state.
LEMMA AfterHostGood ==
  ASSUME now \in Nat, NEW s, Good(s, now), NEW t \in 1 .. now, NEW change, NEW hard,
         0 < s.lastHardChange, NoRepetition /\ s.fresh # {} => ~hard
  PROVE  LET a == AfterHost(s, change, hard, t)
         IN  /\ Good(a, now) /\ a.state = s.state /\ a.depth = s.depth
             /\ 0 < a.lastHardChange
             /\ host # "up" => a.hostProblem /\ (a.type = "hard" => a.lastHard = a.state)
<1> DEFINE a == AfterHost(s, change, hard, t)
<1>1. s \in ServiceType(now) /\ Typed(s, now) /\ Current(s)
  BY CurrentWhenGood DEF Good, Typed
<1>2. CASE host # "up"
  <2> DEFINE hardNow == hard \/ s.lastHard # s.state
             lc == IF change \/ hardNow THEN t ELSE s.lastChange
             lh == IF hardNow THEN t ELSE s.lastHardChange
             ty == IF hardNow THEN "hard" ELSE s.type
             st == s.state
  <2>1. a = [s EXCEPT !.hostProblem = TRUE, !.lastChange = lc, !.lastHardChange = lh,
                      !.type = ty, !.lastHard = st]
    BY <1>1, <1>2 DEF AfterHost, ServiceType
  <2>2. /\ lc \in 0 .. now /\ lh \in 0 .. now /\ ty \in {"soft", "hard"} /\ st \in State
        /\ 0 < lh
    BY <1>1 DEF ServiceType
  <2>3. NoRepetition /\ s.fresh # {} => lh = s.lastHardChange
    BY <1>1 DEF Current
  <2> HIDE DEF a, lc, lh, ty, st
  <2>4. a \in ServiceType(now)
    BY <1>1, <2>1, <2>2 DEF ServiceType
  <2>5. /\ SameNotifications(s, a) /\ a.fresh = s.fresh
        /\ a.lastNotification = s.lastNotification
    BY <1>1, <2>1 DEF ServiceType, SameNotifications
  <2>6. /\ a.state = s.state /\ a.depth = s.depth /\ a.lastHardChange = lh
        /\ a.hostProblem = TRUE /\ a.lastHard = st
    BY <1>1, <2>1 DEF ServiceType
  <2>7. Typed(a, now)
    BY <1>1, <2>4, <2>5 DEF Typed, SameNotifications
  <2>8. Current(a)
    BY <1>1, <2>3, <2>5, <2>6 DEF Current, st
  <2>9. Good(a, now)
    BY <2>5, <2>7, <2>8, RestatedGood
  <2> QED BY <1>2, <2>2, <2>6, <2>9 DEF a, st
<1>3. CASE host = "up"
  <2> DEFINE at == IF s.hostProblem /\ s.type = "soft" THEN 1 ELSE s.attempt
  <2>1. a = [s EXCEPT !.hostProblem = FALSE, !.attempt = at]
    BY <1>1, <1>3 DEF AfterHost, ServiceType
  <2>2. at \in 1 .. MaxAttempts
    BY <1>1, ServiceAssumption DEF ServiceType
  <2> HIDE DEF a, at
  <2>4. a \in ServiceType(now)
    BY <1>1, <2>1, <2>2 DEF ServiceType
  <2>5. /\ SameNotifications(s, a) /\ a.fresh = s.fresh
        /\ a.lastNotification = s.lastNotification
    BY <1>1, <2>1 DEF ServiceType, SameNotifications
  <2>6. /\ a.state = s.state /\ a.depth = s.depth /\ a.lastHardChange = s.lastHardChange
        /\ a.lastHard = s.lastHard
    BY <1>1, <2>1 DEF ServiceType
  <2>7. Typed(a, now)
    BY <1>1, <2>4, <2>5 DEF Typed, SameNotifications
  <2>8. Current(a)
    BY <1>1, <2>5, <2>6 DEF Current
  <2>9. Good(a, now)
    BY <2>5, <2>7, <2>8, RestatedGood
  <2> QED BY <1>3, <2>6, <2>9 DEF a
<1> QED BY <1>2, <1>3

\* HardIsConfirmed, of any record of a service.
Confirmation(s) ==
  s.state # "ok" =>
    IF s.type = "soft" THEN s.attempt < MaxAttempts
    ELSE s.lastHard = s.state /\ (s.hostProblem \/ s.attempt = MaxAttempts)

\* The state type is set, and the last hard state with it or not.
Retyped(s, ty, lastHard) == [s EXCEPT !.type = ty, !.lastHard = lastHard]

LEMMA RetypedGood ==
  ASSUME NEW t \in Nat, NEW s, Good(s, t), NEW ty, ty \in {"soft", "hard"},
         NEW lh, lh \in {s.lastHard, s.state}
  PROVE  LET r == Retyped(s, ty, lh)
         IN  /\ Good(r, t) /\ r.type = ty /\ r.lastHard = lh /\ r.state = s.state
             /\ r.attempt = s.attempt /\ r.hostProblem = s.hostProblem
             /\ r.depth = s.depth /\ r.lastHardChange = s.lastHardChange
<1> DEFINE r == Retyped(s, ty, lh)
<1>1. s \in ServiceType(t) /\ Typed(s, t) /\ Current(s)
  BY CurrentWhenGood DEF Good, Typed
<1>2. r = [s EXCEPT !.type = ty, !.lastHard = lh] /\ lh \in State
  BY <1>1 DEF Retyped, ServiceType
<1> HIDE DEF r
<1>3. r \in ServiceType(t)
  BY <1>1, <1>2 DEF ServiceType
<1>4. /\ SameNotifications(s, r) /\ r.fresh = s.fresh
      /\ r.lastNotification = s.lastNotification
  BY <1>1, <1>2 DEF ServiceType, SameNotifications
<1>5. /\ r.type = ty /\ r.lastHard = lh /\ r.state = s.state /\ r.attempt = s.attempt
      /\ r.hostProblem = s.hostProblem /\ r.depth = s.depth
      /\ r.lastHardChange = s.lastHardChange
  BY <1>1, <1>2 DEF ServiceType
<1>6. Typed(r, t)
  BY <1>1, <1>3, <1>4 DEF Typed, SameNotifications
<1>7. Current(r)
  BY <1>1, <1>4, <1>5 DEF Current
<1>8. Good(r, t)
  BY <1>4, <1>6, <1>7, RestatedGood
<1> QED BY <1>5, <1>8 DEF r

LEMMA ConfirmationFollows ==
  ASSUME NEW t, NEW s, Confirmation(s), NEW r, SameState(s, r)
  PROVE  Confirmation(r)
  BY DEF Confirmation, SameState

LEMMA RetriedGood ==
  ASSUME now \in Nat, NEW s, Good(s, now), s.attempt < MaxAttempts, NEW zone,
         host # "up" => s.hostProblem /\ (s.type = "hard" => s.lastHard = s.state)
  PROVE  Good(Retried(s, zone), now) /\ Confirmation(Retried(s, zone))
<1> DEFINE ty == IF host = "up" THEN "soft" ELSE s.type
           lh == s.lastHard
           a == Retyped(s, ty, lh)
           b == CheckForFlapping(a, zone)
<1>1. s \in ServiceType(now)
  BY DEF Good, Typed
<1>2. ty \in {"soft", "hard"}
  BY <1>1 DEF ServiceType
<1>3. [s EXCEPT !.type = IF host = "up" THEN "soft" ELSE @] = a
  BY <1>1 DEF Retyped, ServiceType
<1>4. Retried(s, zone) = b
  BY <1>3 DEF Retried
<1> HIDE DEF ty
<1>5. /\ Good(a, now) /\ a.type = ty /\ a.lastHard = s.lastHard /\ a.state = s.state
      /\ a.attempt = s.attempt /\ a.hostProblem = s.hostProblem
  <2>1. lh \in {s.lastHard, s.state} /\ now \in Nat /\ Good(s, now)
    OBVIOUS
  <2> HIDE DEF lh
  <2>2. /\ Good(a, now) /\ a.type = ty /\ a.lastHard = lh /\ a.state = s.state
        /\ a.attempt = s.attempt /\ a.hostProblem = s.hostProblem
    BY ONLY <1>2, <2>1, RetypedGood
  <2> QED BY <2>2 DEF lh
<1> HIDE DEF a
<1>6. Confirmation(a)
  <2>1. CASE host = "up"
    BY <1>5, <2>1 DEF Confirmation, ty
  <2>2. CASE host # "up"
    BY <1>1, <1>5, <2>2 DEF Confirmation, ServiceType, ty
  <2> QED BY <2>1, <2>2
<1>7. Follows(a, b, now)
  BY <1>5, CheckForFlappingFollows
<1> HIDE DEF b
<1>8. Confirmation(b)
  BY <1>6, <1>7, ConfirmationFollows DEF Follows
<1> QED BY <1>4, <1>7, <1>8 DEF Follows

LEMMA ConfirmedGood ==
  ASSUME now \in Nat, NEW s, Good(s, now), s.attempt = MaxAttempts, NEW zone,
         NEW flexible \in BOOLEAN, flexible => s.depth = 0, 0 < s.lastHardChange,
         Confirmed(s, flexible, zone)
  PROVE  Good(svc', now) /\ Confirmation(svc')
<1> DEFINE ty == "hard"
           lh == s.state
           a == Retyped(s, ty, lh)
           b == IF flexible THEN EnterDowntime(a) ELSE a
           c == CheckForFlapping(b, zone)
           d == NotifyNormal(c, World)
<1>1. svc' = d
  BY DEF Confirmed, Becomes, Retyped
<1>2. /\ Good(a, now) /\ a.type = "hard" /\ a.lastHard = s.state /\ a.state = s.state
      /\ a.attempt = s.attempt /\ a.depth = s.depth
      /\ a.lastHardChange = s.lastHardChange
  BY RetypedGood
<1> HIDE DEF a
<1>3. /\ Good(b, now) /\ b.type = "hard" /\ b.lastHard = b.state
      /\ b.attempt = MaxAttempts /\ 0 < b.lastHardChange
  <2>1. CASE flexible
    BY <1>2, <2>1, EnterDowntimeGood
  <2>2. CASE ~flexible
    BY <1>2, <2>2
  <2> QED BY <2>1, <2>2
<1> HIDE DEF b
<1>4. Follows(b, c, now)
  BY <1>3, CheckForFlappingFollows
<1> HIDE DEF c
<1>5. /\ Good(c, now) /\ c.type = "hard" /\ c.lastHard = c.state
      /\ c.attempt = MaxAttempts /\ 0 < c.lastHardChange
  BY <1>3, <1>4 DEF Follows, SameState
<1>6. Good(d, now) /\ SameState(c, d)
  BY <1>5, WorldNow, NotifyNormalGood
<1> HIDE DEF d
<1>7. Confirmation(d)
  BY <1>5, <1>6 DEF Confirmation, SameState
<1> QED BY <1>1, <1>6, <1>7

LEMMA ProblemResultGood ==
  ASSUME now \in Nat, NEW s, Good(s, now), NEW t \in 1 .. now, NEW change \in BOOLEAN,
         NEW hard \in BOOLEAN, 0 < s.lastHardChange, NoRepetition /\ s.fresh # {} => ~hard,
         NEW zone, NEW flexible \in BOOLEAN, flexible => s.depth = 0,
         ProblemResult(s, change, hard, t, zone, flexible)
  PROVE  Good(svc', now) /\ Confirmation(svc')
<1> DEFINE a == AfterHost(s, change, hard, t)
           f == flexible /\ (change \/ hard \/ a.lastHard # s.lastHard)
<1>1. /\ Good(a, now) /\ a.state = s.state /\ a.depth = s.depth /\ 0 < a.lastHardChange
      /\ host # "up" => a.hostProblem /\ (a.type = "hard" => a.lastHard = a.state)
  BY AfterHostGood
<1>2. IF a.attempt < MaxAttempts THEN svc' = Retried(a, zone) ELSE Confirmed(a, f, zone)
  BY DEF ProblemResult, Becomes
<1>3. f \in BOOLEAN /\ (f => a.depth = 0)
  BY <1>1
<1>4. a.attempt \in 1 .. MaxAttempts /\ MaxAttempts \in Nat
  BY <1>1, ServiceAssumption DEF Good, Typed, ServiceType
<1> HIDE DEF a, f
<1>5. CASE a.attempt < MaxAttempts
  BY <1>1, <1>2, <1>5, RetriedGood
<1>6. CASE ~(a.attempt < MaxAttempts)
  <2>1. a.attempt = MaxAttempts
    BY <1>4, <1>6
  <2> QED BY <1>1, <1>2, <1>3, <1>6, <2>1, ConfirmedGood
<1> QED BY <1>5, <1>6

\* A check result as a whole.
LEMMA CheckGood ==
  ASSUME now \in Nat, Good(svc, now), NEW r \in Results, Check(r)
  PROVE  Good(svc', now) /\ Confirmation(svc')
<1>1. PICK zone \in Zones, flexible \in {"downtime" \in Commands /\ svc.depth = 0, FALSE},
           t \in {u \in (now - MaxLatency) .. now : u > 0} : CheckResult(r, t, zone, flexible)
  BY DEF Check
<1>2a. t \in 1 .. now /\ r \in State
  BY ServiceAssumption
<1>2b. flexible \in BOOLEAN /\ (flexible => svc.depth = 0)
  BY Zenon
<1>2. t \in 1 .. now /\ r \in State /\ flexible \in BOOLEAN /\ (flexible => svc.depth = 0)
  BY <1>2a, <1>2b
<1> DEFINE a == Recorded(svc, r, t)
           change == StateChange(svc, r)
           hard == HardStateChange(svc, r)
<1>3. IF r = "ok" THEN OkResult(a, change, hard, t, zone)
      ELSE ProblemResult(a, change, hard, t, zone, flexible)
  BY <1>1 DEF CheckResult
<1>4. /\ Good(a, now) /\ a.state = r /\ a.depth = svc.depth /\ 0 < a.lastHardChange
      /\ NoRepetition /\ a.fresh # {} => ~change /\ ~hard /\ r # "ok"
  BY <1>2, RecordedGood
<1>5. change \in BOOLEAN /\ hard \in BOOLEAN
  BY DEF StateChange, HardStateChange
<1> HIDE DEF a, change, hard
<1>6. CASE r = "ok"
  <2>1. Settled(a, now)
    BY <1>4, <1>6 DEF Settled
  <2>2. Settled(svc', now)
    BY <1>2, <1>3, <1>6, <2>1, OkResultSettled
  <2> QED BY <2>2 DEF Settled, Confirmation
<1>7. CASE r # "ok"
  BY <1>2, <1>3, <1>4, <1>5, <1>7, ProblemResultGood
<1> QED BY <1>6, <1>7

-----------------------------------------------------------------------------
(* The commands *)

\* A step of a command or an event: the record stays good, and the state is
\* the one that the last check left.
LEMMA EditedGood ==
  ASSUME NEW t \in Nat, NEW s, Good(s, t), NEW r, r \in ServiceType(t),
         r.normal = s.normal, SameNotifications(s, r), r.fresh = s.fresh,
         r.lastNotification = s.lastNotification, r.state = s.state,
         r.lastHard = s.lastHard, r.lastHardChange = s.lastHardChange
  PROVE  Good(r, t)
<1>1. Typed(r, t)
  BY DEF Good, Typed
<1>2. Current(s)
  BY CurrentWhenGood
<1>3. Current(r)
  BY <1>2 DEF Current
<1> QED BY <1>1, <1>3, RestatedGood

\* The acknowledgement of a problem is set or removed.
Acked(s, kind, t) == [s EXCEPT !.ack = kind, !.lastAck = t]

LEMMA AckedGood ==
  ASSUME NEW t \in Nat, NEW s, Good(s, t), NEW kind \in {"none", "normal", "sticky"},
         NEW u \in 0 .. t
  PROVE  Good(Acked(s, kind, u), t) /\ SameState(s, Acked(s, kind, u))
<1> DEFINE r == Acked(s, kind, u)
<1>1. s \in ServiceType(t)
  BY DEF Good, Typed
<1>2. r = [s EXCEPT !.ack = kind, !.lastAck = u]
  BY DEF Acked
<1> HIDE DEF r
<1>3. r \in ServiceType(t)
  BY <1>1, <1>2 DEF ServiceType
<1>4. /\ SameNotifications(s, r) /\ r.fresh = s.fresh
      /\ r.lastNotification = s.lastNotification
  BY <1>1, <1>2 DEF ServiceType, SameNotifications
<1>5. SameState(s, r)
  BY <1>1, <1>2 DEF ServiceType, SameState
<1>6. Good(r, t)
  BY <1>3, <1>4, <1>5, EditedGood DEF SameState, SameNotifications
<1> QED BY <1>5, <1>6 DEF r

LEMMA UnackedGood ==
  ASSUME NEW t \in Nat, NEW s, Good(s, t)
  PROVE  Good([s EXCEPT !.ack = "none"], t) /\ SameState(s, [s EXCEPT !.ack = "none"])
<1> DEFINE u == s.lastAck
           none == "none"
<1>1. s \in ServiceType(t) /\ u \in 0 .. t
  BY DEF Good, Typed, ServiceType
<1>2. [s EXCEPT !.ack = "none"] = Acked(s, "none", u)
  BY <1>1 DEF ServiceType, Acked
<1> HIDE DEF u
<1> QED BY <1>1, <1>2, AckedGood

\* Flap detection is switched.
Detected(s, b) == [s EXCEPT !.flapDetection = b]

LEMMA DetectedFollows ==
  ASSUME NEW t \in Nat, NEW s, Good(s, t), NEW b \in BOOLEAN
  PROVE  Follows(s, Detected(s, b), t)
<1> DEFINE r == Detected(s, b)
<1>1. s \in ServiceType(t)
  BY DEF Good, Typed
<1>2. r = [s EXCEPT !.flapDetection = b]
  BY DEF Detected
<1> HIDE DEF r
<1>3. r \in ServiceType(t)
  BY <1>1, <1>2 DEF ServiceType
<1>4. /\ SameNotifications(s, r) /\ r.fresh = s.fresh
      /\ r.lastNotification = s.lastNotification
  BY <1>1, <1>2 DEF ServiceType, SameNotifications
<1>5. SameState(s, r)
  BY <1>1, <1>2 DEF ServiceType, SameState
<1>6. Good(r, t)
  BY <1>3, <1>4, <1>5, EditedGood DEF SameState, SameNotifications
<1> QED BY <1>4, <1>5, <1>6 DEF Follows, r

\* What HardIsConfirmed reads.
SameVerdict(s, r) ==
  /\ r.state = s.state /\ r.type = s.type /\ r.attempt = s.attempt
  /\ r.lastHard = s.lastHard /\ r.hostProblem = s.hostProblem

LEMMA LeaveDowntimeGood ==
  ASSUME now \in Nat, NEW s, Good(s, now), s.depth > 0
  PROVE  Good(LeaveDowntime(s), now) /\ SameVerdict(s, LeaveDowntime(s))
<1> DEFINE a == [s EXCEPT !.depth = 0]
           r == NotifyDowntime(a, World)
<1>1. s \in ServiceType(now) /\ s.depth = 1
  BY DEF Good, Typed, ServiceType
<1>2. LeaveDowntime(s) = r
  BY <1>1 DEF LeaveDowntime, ServiceType
<1>a. a = [s EXCEPT !.depth = 0]
  OBVIOUS
<1> HIDE DEF a
<1>3. a \in ServiceType(now)
  BY <1>1, <1>a DEF ServiceType
<1>4. /\ SameNotifications(s, a) /\ a.fresh = s.fresh
      /\ a.lastNotification = s.lastNotification
  BY <1>1, <1>a DEF ServiceType, SameNotifications
<1>5. SameVerdict(s, a) /\ a.lastHardChange = s.lastHardChange
  BY <1>1, <1>a DEF ServiceType, SameVerdict
<1>6. Good(a, now)
  BY <1>3, <1>4, <1>5, EditedGood DEF SameVerdict, SameNotifications
<1>7. Good(r, now) /\ SameState(a, r)
  BY <1>6, WorldNow, NotifyDowntimeGood
<1> QED BY <1>2, <1>5, <1>7 DEF SameVerdict, SameState

-----------------------------------------------------------------------------
(* The invariant *)

Surroundings ==
  /\ now \in 1 .. MaxTime /\ env \subseteq Inhibitor /\ host \in Hosts \cup {"up"}
  /\ away \subseteq Contact /\ changes \in 0 .. MaxChanges

Inv == Good(svc, now) /\ Confirmation(svc) /\ Surroundings

\* Later, the same times are still in the past.
LEMMA GoodLater ==
  ASSUME NEW t \in Nat, NEW s, Good(s, t)
  PROVE  Good(s, t + 1)
<1>1. s \in ServiceType(t) /\ Typed(s, t)
  BY DEF Good, Typed
<1>2. 0 .. t \subseteq 0 .. (t + 1)
  OBVIOUS
<1>3. s \in ServiceType(t + 1)
  <2>1. /\ s.lastChange \in 0 .. (t + 1) /\ s.lastHardChange \in 0 .. (t + 1)
        /\ s.lastAck \in 0 .. (t + 1) /\ s.lastNotification \in 0 .. (t + 1)
    BY <1>1, <1>2 DEF ServiceType
  <2> QED BY <1>1, <2>1 DEF ServiceType
<1> QED BY <1>1, <1>3 DEF Good, Typed

LEMMA InitInv == Init => Inv
<1> SUFFICES ASSUME Init PROVE Inv
  OBVIOUS
<1>1. svc \in ServiceType(1)
  BY NotifierAssumption, ServiceAssumption DEF Init, ServiceType, State
<1>2. /\ svc.state = "ok" /\ svc.normal = {} /\ svc.owed = {} /\ svc.lost = {}
      /\ svc.wrong = {} /\ svc.fresh = {} /\ svc.repeated = {}
  BY DEF Init
<1>3. Typed(svc, 1)
  BY <1>1, <1>2 DEF Typed
<1>4. Good(svc, 1)
  BY <1>2, <1>3 DEF Good, Truthful, Remembered, Once
<1>5. Confirmation(svc)
  BY <1>2 DEF Confirmation
<1>6. Surroundings
  BY ServiceAssumption DEF Init, Surroundings
<1> QED BY <1>4, <1>5, <1>6 DEF Inv, Init

\* The part of a step that concerns the service is enough.
LEMMA ServiceStep ==
  ASSUME Inv, Good(svc', now), SameVerdict(svc, svc'),
         UNCHANGED <<now, env, host, away, changes>>
  PROVE  Inv'
<1>1. Good(svc', now') /\ Surroundings'
  BY DEF Inv, Surroundings
<1>2. Confirmation(svc')
  BY DEF Inv, Confirmation, SameVerdict
<1> QED BY <1>1, <1>2 DEF Inv

LEMMA VerdictFollows ==
  ASSUME NEW t, NEW s, NEW r, Follows(s, r, t)
  PROVE  Good(r, t) /\ SameVerdict(s, r)
  BY DEF Follows, SameState, SameVerdict

LEMMA AcknowledgeInv ==
  ASSUME Inv, NEW kind \in {"normal", "sticky"}, NEW n \in BOOLEAN, Acknowledge(kind, n)
  PROVE  Inv'
<1> DEFINE a == Acked(svc, kind, now)
           b == NotifyAcknowledgement(a, World)
<1>1. now \in Nat /\ now \in 0 .. now /\ Good(svc, now)
  BY DEF Inv, Surroundings
<1>2. Good(a, now) /\ SameState(svc, a)
  BY <1>1, AckedGood
<1>3. svc' = IF n THEN b ELSE a
  BY DEF Acknowledge, Acked
<1> HIDE DEF a
<1>4. Good(b, now) /\ SameState(a, b)
  BY <1>1, <1>2, WorldNow, NotifyAcknowledgementGood
<1>5. Good(svc', now) /\ SameVerdict(svc, svc')
  BY <1>2, <1>3, <1>4 DEF SameState, SameVerdict
<1> QED BY <1>5, ServiceStep DEF Acknowledge

LEMMA UnacknowledgeInv ==
  ASSUME Inv, \/ RemoveAcknowledgement
              \/ \E e \in ackEvents : ExpireAcknowledgement(e)
  PROVE  Inv'
<1> DEFINE a == [svc EXCEPT !.ack = "none"]
<1>1. now \in Nat /\ Good(svc, now)
  BY DEF Inv, Surroundings
<1>2. Good(a, now) /\ SameState(svc, a)
  BY <1>1, UnackedGood
<1>3. svc' = a \/ svc' = svc
  BY DEF RemoveAcknowledgement, ExpireAcknowledgement
<1> HIDE DEF a
<1>4. Good(svc', now) /\ SameVerdict(svc, svc')
  BY <1>1, <1>2, <1>3 DEF SameState, SameVerdict
<1> QED BY <1>4, ServiceStep DEF RemoveAcknowledgement, ExpireAcknowledgement

LEMMA CustomInv ==
  ASSUME Inv, NEW forced \in BOOLEAN, CustomNotification(forced)
  PROVE  Inv'
<1>1. now \in Nat /\ Good(svc, now)
  BY DEF Inv, Surroundings
<1>2. Good(svc', now) /\ SameVerdict(svc, svc')
  BY <1>1, WorldNow, NotifyCustomGood DEF CustomNotification, SameState, SameVerdict
<1> QED BY <1>2, ServiceStep DEF CustomNotification

LEMMA DisableFlapDetectionInv ==
  ASSUME Inv, DisableFlapDetection
  PROVE  Inv'
<1> DEFINE a == Detected(svc, FALSE)
           s == Flap(a, FALSE)
           b == NotifyRecovery(NotifyFlapping(s, World, "flappingdisabled"), World)
<1>1. now \in Nat /\ Good(svc, now) /\ svc \in ServiceType(now)
  BY DEF Inv, Surroundings, Good, Typed
<1>2. [svc EXCEPT !.flapDetection = FALSE, !.flapping = FALSE] = s
  BY <1>1 DEF ServiceType, Detected, Flap
<1>3. svc' = IF svc.flapping THEN b ELSE s
  BY <1>2 DEF DisableFlapDetection
<1>4. Follows(svc, a, now)
  BY <1>1, DetectedFollows
<1> HIDE DEF a
<1>5. Follows(a, s, now)
  BY <1>1, <1>4, FlapFollows DEF Follows
<1>6. Follows(a, b, now)
  BY <1>1, <1>4, ClearFlapFollows DEF Follows
<1> HIDE DEF s, b
<1>7. Follows(svc, svc', now)
  BY <1>3, <1>4, <1>5, <1>6, FollowsTransitive
<1> QED BY <1>7, VerdictFollows, ServiceStep DEF DisableFlapDetection

LEMMA EnableFlapDetectionInv ==
  ASSUME Inv, NEW zone \in Zones, EnableFlapDetection(zone)
  PROVE  Inv'
<1> DEFINE a == Detected(svc, TRUE)
           b == CheckForFlapping(a, zone)
<1>1. now \in Nat /\ Good(svc, now)
  BY DEF Inv, Surroundings
<1>2. svc' = b
  BY DEF EnableFlapDetection, Detected
<1>3. Follows(svc, a, now)
  BY <1>1, DetectedFollows
<1> HIDE DEF a
<1>4. Follows(a, b, now)
  BY <1>1, <1>3, CheckForFlappingFollows DEF Follows
<1> HIDE DEF b
<1>5. Follows(svc, svc', now)
  BY <1>2, <1>3, <1>4, FollowsTransitive
<1> QED BY <1>5, VerdictFollows, ServiceStep DEF EnableFlapDetection

LEMMA DowntimesInv ==
  ASSUME Inv, StartDowntime \/ EndDowntime
  PROVE  Inv'
<1>1. now \in Nat /\ Good(svc, now)
  BY DEF Inv, Surroundings
<1>2. CASE StartDowntime
  <2>1. Good(svc', now) /\ SameVerdict(svc, svc')
    BY <1>1, <1>2, EnterDowntimeGood DEF StartDowntime, SameVerdict
  <2> QED BY <1>2, <2>1, ServiceStep DEF StartDowntime
<1>3. CASE EndDowntime
  <2>1. Good(svc', now) /\ SameVerdict(svc, svc')
    BY <1>1, <1>3, LeaveDowntimeGood DEF EndDowntime
  <2> QED BY <1>3, <2>1, ServiceStep DEF EndDowntime
<1> QED BY <1>2, <1>3

LEMMA CheckInv ==
  ASSUME Inv, NEW r \in Results, Check(r)
  PROVE  Inv'
<1>1. now \in Nat /\ Good(svc, now)
  BY DEF Inv, Surroundings
<1>2. Good(svc', now) /\ Confirmation(svc')
  BY <1>1, CheckGood
<1>3. UNCHANGED <<now, env, host, away, changes>>
  BY DEF Check, CheckResult
<1> QED BY <1>2, <1>3 DEF Inv, Surroundings

LEMMA EnvironmentInv ==
  ASSUME Inv, Tick \/ ChangeEnvironment
  PROVE  Inv'
<1>1. CASE Tick
  <2>1. now \in Nat /\ now' = now + 1 /\ svc' = svc
    BY <1>1 DEF Inv, Surroundings, Tick
  <2>2. Good(svc', now')
    BY <2>1, GoodLater DEF Inv
  <2>3. Surroundings'
    BY <1>1, ServiceAssumption DEF Inv, Surroundings, Tick
  <2> QED BY <2>1, <2>2, <2>3 DEF Inv
<1>2. CASE ChangeEnvironment
  <2>1. svc' = svc /\ now' = now
    BY <1>2 DEF ChangeEnvironment
  <2>2. env' \subseteq Inhibitor /\ host' \in Hosts \cup {"up"} /\ away' \subseteq Contact
    BY <1>2, ServiceAssumption DEF Inv, Surroundings, ChangeEnvironment
  <2>3. changes' \in 0 .. MaxChanges
    BY <1>2, ServiceAssumption DEF Inv, Surroundings, ChangeEnvironment
  <2> QED BY <2>1, <2>2, <2>3 DEF Inv, Surroundings
<1> QED BY <1>1, <1>2

LEMMA InvStep == Inv /\ [Next]_vars => Inv'
<1> SUFFICES ASSUME Inv, [Next]_vars PROVE Inv'
  OBVIOUS
<1>1. CASE UNCHANGED vars
  BY <1>1 DEF Inv, Surroundings, vars
<1>2. ASSUME NEW r \in Results, Check(r) PROVE Inv'
  BY <1>2, CheckInv
<1>3. ASSUME NEW kind \in {"normal", "sticky"}, NEW n \in BOOLEAN, Acknowledge(kind, n)
      PROVE  Inv'
  BY <1>3, AcknowledgeInv
<1>4. CASE RemoveAcknowledgement \/ \E e \in ackEvents : ExpireAcknowledgement(e)
  BY <1>4, UnacknowledgeInv
<1>5. ASSUME NEW forced \in BOOLEAN, CustomNotification(forced) PROVE Inv'
  BY <1>5, CustomInv
<1>6. CASE DisableFlapDetection
  BY <1>6, DisableFlapDetectionInv
<1>7. ASSUME NEW zone \in Zones, EnableFlapDetection(zone) PROVE Inv'
  BY <1>7, EnableFlapDetectionInv
<1>8. CASE StartDowntime \/ EndDowntime
  BY <1>8, DowntimesInv
<1>9. CASE Tick \/ ChangeEnvironment
  BY <1>9, EnvironmentInv
<1> QED BY <1>1, <1>2, <1>3, <1>4, <1>5, <1>6, <1>7, <1>8, <1>9 DEF Next

LEMMA InvHolds == Spec => []Inv
  BY InitInv, InvStep, PTL DEF Spec

\* Every field of a service has its type in every reachable state: attempts are
\* never counted beyond max_check_attempts(), no time that the handlers store is
\* in the future, and one notification of a problem is remembered at most.
THEOREM TypeCorrect == Spec => []TypeOK
<1>1. Inv => TypeOK
  <2> SUFFICES ASSUME Inv PROVE TypeOK
    OBVIOUS
  <2>1. svc \in ServiceType(now) /\ \A m, n \in svc.normal : m = n
    BY DEF Inv, Good, Typed
  <2>2. Cardinality(svc.normal) <= 1
    <3>1. CASE svc.normal = {}
      BY <3>1, FS_EmptySet
    <3>2. CASE svc.normal # {}
      <4>1. PICK n \in svc.normal : TRUE
        BY <3>2
      <4>2. svc.normal = {n}
        BY <2>1, <4>1
      <4>3. Cardinality({n}) = 1
        BY FS_Singleton
      <4> QED BY <4>2, <4>3
    <3> QED BY <3>1, <3>2
  <2> QED BY <2>1, <2>2 DEF Inv, Surroundings, TypeOK
<1> QED BY <1>1, InvHolds, PTL

\* A problem is hard exactly when all the attempts were used for it or the host
\* had a problem too: handle_async_check_result() leaves such a state whatever
\* the record was before, and no command or notification disturbs it.
THEOREM HardIsConfirmedHolds == Spec => []HardIsConfirmed
<1>1. Inv => HardIsConfirmed
  BY DEF Inv, Confirmation, HardIsConfirmed
<1> QED BY <1>1, InvHolds, PTL

\* Unless recoveries are sent outside of the time period anyway, notify()
\* announces a recovery only of a service that is OK, and only to contacts that
\* were told of the problem: the contacts that a new notification inherits from
\* the one it replaces are all owed the recovery.
THEOREM NoWrongRecoveryHolds ==
  ASSUME ~SendAnyways
  PROVE  Spec => []NoWrongRecovery
<1>1. Inv => NoWrongRecovery
  BY DEF Inv, Good, Truthful, NoWrongRecovery
<1> QED BY <1>1, InvHolds, PTL

\* With escalations that only add contacts, notify() loses no recovery, except
\* by a notification that sets the count of notifications to 0: who is owed one
\* is remembered and still addressed, because the count only grows.
THEOREM RecoveryKeptHolds ==
  ASSUME ExcuseResets, Widening
  PROVE  Spec => []RecoveryKept
<1>1. Inv => RecoveryKept
  BY DEF Inv, Good, Remembered, RecoveryKept
<1> QED BY <1>1, InvHolds, PTL

\* For a service that is not volatile and has no notification interval, notify()
\* announces a hard state once to a contact, whatever else happens in between:
\* since the last notification is not older than the hard state.
THEOREM NotRepeatedHolds ==
  ASSUME NoRepetition
  PROVE  Spec => []NotRepeated
<1>1. Inv => NotRepeated
  BY DEF Inv, Good, Once, NotRepeated
<1> QED BY <1>1, InvHolds, PTL

=============================================================================
