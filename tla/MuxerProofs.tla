---------------------------- MODULE MuxerProofs ----------------------------
(***************************************************************************)
(* Theorems about Muxer, for every value of its constants.                 *)
(***************************************************************************)
EXTENDS Muxer, SequenceTheorems, TLAPS

-----------------------------------------------------------------------------
(* Sequences and the elements they hold *)

\* What a slice of a sequence is.
LEMMA SliceFacts ==
  ASSUME NEW S, NEW s \in Seq(S), NEW a \in Nat \ {0}, NEW b \in 0 .. Len(s),
         a <= b + 1
  PROVE  /\ SubSeq(s, a, b) \in Seq(S)
         /\ Len(SubSeq(s, a, b)) = b - a + 1
         /\ \A i \in 1 .. b - a + 1 : SubSeq(s, a, b)[i] = s[a + i - 1]
         /\ DOMAIN SubSeq(s, a, b) = 1 .. b - a + 1
  BY SubSeqProperties

\* The elements of a slice are those at its indices.
LEMMA ElemsSlice ==
  ASSUME NEW S, NEW s \in Seq(S), NEW a \in Nat \ {0}, NEW b \in 0 .. Len(s),
         a <= b + 1
  PROVE  Elems(SubSeq(s, a, b)) = {s[i] : i \in a .. b}
<1> DEFINE t == SubSeq(s, a, b)
<1>1. Len(t) = b - a + 1 /\ DOMAIN t = 1 .. b - a + 1
      /\ \A i \in 1 .. b - a + 1 : t[i] = s[a + i - 1]
  BY SliceFacts
<1> HIDE DEF t
<1>2. ASSUME NEW i \in DOMAIN t PROVE t[i] \in {s[k] : k \in a .. b}
  <2>1. a + i - 1 \in a .. b /\ t[i] = s[a + i - 1]
    BY <1>1
  <2> QED BY <2>1
<1>3. ASSUME NEW i \in a .. b PROVE s[i] \in Elems(t)
  <2>1. i - a + 1 \in DOMAIN t /\ t[i - a + 1] = s[i]
    BY <1>1
  <2> QED BY <2>1 DEF Elems
<1> QED BY <1>2, <1>3 DEF Elems, t

\* The elements of what follows the first r.
LEMMA ElemsSuffix ==
  ASSUME NEW S, NEW s \in Seq(S), NEW r \in 0 .. Len(s)
  PROVE  Elems(SubSeq(s, r + 1, Len(s))) = {s[i] : i \in r + 1 .. Len(s)}
<1>1. Len(s) \in Nat
  OBVIOUS
<1>2. r + 1 \in Nat \ {0} /\ Len(s) \in 0 .. Len(s) /\ r + 1 <= Len(s) + 1
  BY <1>1
<1> QED BY <1>2, ElemsSlice

\* Appending adds one element.
LEMMA ElemsAppend ==
  ASSUME NEW S, NEW s \in Seq(S), NEW e \in S
  PROVE  Elems(Append(s, e)) = Elems(s) \cup {e}
<1>1. Append(s, e) \in Seq(S) /\ Len(Append(s, e)) = Len(s) + 1
      /\ \A i \in 1 .. Len(s) : Append(s, e)[i] = s[i]
      /\ Append(s, e)[Len(s) + 1] = e
  BY AppendProperties
<1>2. DOMAIN Append(s, e) = 1 .. Len(s) + 1 /\ DOMAIN s = 1 .. Len(s)
      /\ Len(s) \in Nat
  BY <1>1
<1> QED BY <1>1, <1>2 DEF Elems

\* A concatenation holds the elements of both sequences.
LEMMA ElemsConcat ==
  ASSUME NEW S, NEW s \in Seq(S), NEW t \in Seq(S)
  PROVE  Elems(s \o t) = Elems(s) \cup Elems(t)
<1>1. s \o t \in Seq(S) /\ Len(s \o t) = Len(s) + Len(t)
      /\ \A i \in 1 .. Len(s) + Len(t) :
           (s \o t)[i] = IF i <= Len(s) THEN s[i] ELSE t[i - Len(s)]
  BY ConcatProperties
<1>2. DOMAIN (s \o t) = 1 .. Len(s) + Len(t) /\ DOMAIN s = 1 .. Len(s)
      /\ DOMAIN t = 1 .. Len(t) /\ Len(s) \in Nat /\ Len(t) \in Nat
  BY <1>1
<1>3. Elems(s \o t) \subseteq Elems(s) \cup Elems(t)
  <2> SUFFICES ASSUME NEW i \in 1 .. Len(s) + Len(t)
               PROVE  (s \o t)[i] \in Elems(s) \cup Elems(t)
    BY <1>2 DEF Elems
  <2>1. CASE i <= Len(s)
    BY <2>1, <1>1, <1>2 DEF Elems
  <2>2. CASE ~(i <= Len(s))
    <3>1. i - Len(s) \in DOMAIN t /\ (s \o t)[i] = t[i - Len(s)]
      BY <2>2, <1>1, <1>2
    <3> QED BY <3>1 DEF Elems
  <2> QED BY <2>1, <2>2
<1>4. ASSUME NEW i \in DOMAIN s PROVE s[i] \in Elems(s \o t)
  BY <1>1, <1>2 DEF Elems
<1>5. ASSUME NEW i \in DOMAIN t PROVE t[i] \in Elems(s \o t)
  <2>1. i + Len(s) \in DOMAIN (s \o t) /\ (s \o t)[i + Len(s)] = t[i]
    BY <1>1, <1>2
  <2> QED BY <2>1 DEF Elems
<1> QED BY <1>3, <1>4, <1>5 DEF Elems

\* A sequence that is not empty holds its head and the elements of its tail.
LEMMA ElemsHeadTail ==
  ASSUME NEW S, NEW s \in Seq(S), s # <<>>
  PROVE  /\ Head(s) \in S /\ Tail(s) \in Seq(S) /\ Len(Tail(s)) = Len(s) - 1
         /\ Elems(s) = {Head(s)} \cup Elems(Tail(s))
<1>1. Head(s) \in S /\ Tail(s) \in Seq(S) /\ Len(Tail(s)) = Len(s) - 1
      /\ Len(s) \in Nat \ {0} /\ Head(s) = s[1]
      /\ \A i \in 1 .. Len(s) - 1 : Tail(s)[i] = s[i + 1]
  BY HeadTailProperties, EmptySeq
<1>2. DOMAIN s = 1 .. Len(s) /\ DOMAIN Tail(s) = 1 .. Len(s) - 1
  BY <1>1
<1>3. ASSUME NEW i \in DOMAIN s PROVE s[i] \in {Head(s)} \cup Elems(Tail(s))
  <2>1. CASE i = 1
    BY <2>1, <1>1
  <2>2. CASE i # 1
    <3>1. i - 1 \in DOMAIN Tail(s) /\ Tail(s)[i - 1] = s[i]
      BY <2>2, <1>1, <1>2
    <3> QED BY <3>1 DEF Elems
  <2> QED BY <2>1, <2>2
<1>4. ASSUME NEW i \in DOMAIN Tail(s) PROVE Tail(s)[i] \in Elems(s)
  BY <1>1, <1>2 DEF Elems
<1>5. Head(s) \in Elems(s)
  BY <1>1, <1>2 DEF Elems
<1> QED BY <1>1, <1>3, <1>4, <1>5 DEF Elems

\* The empty sequence holds nothing.
LEMMA ElemsEmpty == Elems(<<>>) = {}
  BY DEF Elems

\* The elements of a sequence over S are in S.
LEMMA ElemsType ==
  ASSUME NEW S, NEW s \in Seq(S)
  PROVE  Elems(s) \subseteq S
  BY DEF Elems

-----------------------------------------------------------------------------
(* The retention file *)

\* Reading from the retention file moves its oldest unread events, at most as
\* many as asked for, and leaves the others unread.
LEMMA TakeFacts ==
  ASSUME NEW S, FileTypeOK(S), NEW n \in Nat, FileTake(n)
  PROVE  /\ Taken(n) \in Seq(S)
         /\ TakenCount(n) \in 0 .. n /\ Len(Taken(n)) = TakenCount(n)
         /\ FileTypeOK(S)'
         /\ fileOpen => Elems(Unread) \subseteq Elems(Taken(n)) \cup Elems(Unread')
         /\ ~fileOpen => Taken(n) = <<>> /\ Unread' = Unread
<1> DEFINE k == TakenCount(n)
<1>1. disk \in Seq(S) /\ Len(disk) \in Nat /\ rd \in 0 .. Len(disk)
  BY DEF FileTypeOK
<1>2. k \in 0 .. n /\ rd + k \in 0 .. Len(disk)
  BY <1>1 DEF TakenCount
<1>3. Taken(n) \in Seq(S) /\ Len(Taken(n)) = k
  BY <1>1, <1>2, SliceFacts DEF Taken
<1>4. Elems(Taken(n)) = {disk[i] : i \in rd + 1 .. rd + k}
  BY <1>1, <1>2, ElemsSlice DEF Taken
<1>5. Elems(Unread) = {disk[i] : i \in rd + 1 .. Len(disk)}
  BY <1>1, ElemsSlice DEF Unread
<1>6. CASE ~fileOpen
  <2>1. UNCHANGED fileVars /\ k = 0
    BY <1>6 DEF FileTake, TakenCount
  <2>2. Taken(n) = <<>>
    BY <2>1, <1>3, EmptySeq
  <2> QED BY <1>2, <1>3, <1>6, <2>1, <2>2 DEF FileTypeOK, Unread, fileVars
<1>7. CASE fileOpen /\ Len(disk) - rd < n
  <2>1. fileOpen' = FALSE /\ disk' = <<>> /\ rd' = 0 /\ k = Len(disk) - rd
    BY <1>7 DEF FileTake, TakenCount
  <2>2. Elems(Unread) = Elems(Taken(n))
    BY <2>1, <1>1, <1>4, <1>5
  <2>3. FileTypeOK(S)'
    <3>1. <<>> \in Seq(S) /\ Len(<<>>) = 0
      BY EmptySeq
    <3>2. disk' \in Seq(S) /\ rd' \in 0 .. Len(disk')
      BY <2>1, <3>1
    <3> QED BY <2>1, <3>2 DEF FileTypeOK
  <2> QED BY <1>2, <1>3, <1>7, <2>2, <2>3
<1>8. CASE fileOpen /\ ~(Len(disk) - rd < n)
  <2>1. PICK d \in Erasable(n) : /\ disk' = SubSeq(disk, d + 1, Len(disk))
                                 /\ rd' = rd + n - d
                                 /\ fileOpen' = fileOpen
    BY <1>8 DEF FileTake
  <2>2. k = n /\ rd + n \in 0 .. Len(disk)
    BY <1>1, <1>8 DEF TakenCount
  <2>3. d \in 0 .. rd + n /\ d <= Len(disk)
    BY <1>1, <2>2 DEF Erasable
  <2>4. disk' \in Seq(S) /\ Len(disk') = Len(disk) - d
        /\ \A i \in 1 .. Len(disk) - d : disk'[i] = disk[d + i]
    <3>1. d + 1 \in Nat \ {0} /\ d + 1 <= Len(disk) + 1
      BY <2>3
    <3> QED BY <2>1, <2>3, <3>1, <1>1, SliceFacts
  <2>5. rd' \in 0 .. Len(disk')
    BY <2>1, <2>2, <2>3, <2>4, <1>1
  <2>6. FileTypeOK(S)'
    BY <2>1, <2>4, <2>5, <1>8 DEF FileTypeOK
  <2>7. Elems(Unread') = {disk'[i] : i \in rd' + 1 .. Len(disk')}
    <3>3. Elems(SubSeq(disk', rd' + 1, Len(disk')))
            = {disk'[i] : i \in rd' + 1 .. Len(disk')}
      BY <2>4, <2>5, ElemsSuffix
    <3>4. Unread' = SubSeq(disk', rd' + 1, Len(disk'))
      BY DEF Unread
    <3> QED BY <3>3, <3>4
  <2>8. ASSUME NEW i \in rd + 1 .. Len(disk), i > rd + n
        PROVE  disk[i] \in Elems(Unread')
    <3>3. /\ rd' = rd + n - d /\ Len(disk') = Len(disk) - d
          /\ d \in Nat /\ rd \in Nat /\ Len(disk) \in Nat /\ i \in Nat
          /\ d <= rd + n /\ rd + n < i /\ i <= Len(disk)
      BY <2>1, <2>3, <2>4, <2>8, <1>1
    <3>4. i - d \in rd + n - d + 1 .. Len(disk) - d /\ i - d \in 1 .. Len(disk) - d
      BY ONLY <3>3, n \in Nat
    <3>1. i - d \in rd' + 1 .. Len(disk') /\ i - d \in 1 .. Len(disk) - d
      BY <3>3, <3>4
    <3>2. disk'[i - d] = disk[i]
      BY <3>1, <2>3, <2>4, <1>1
    <3> QED BY <3>1, <3>2, <2>7
  <2>9. Elems(Unread) \subseteq Elems(Taken(n)) \cup Elems(Unread')
    BY <1>1, <1>4, <1>5, <2>2, <2>8
  <2> QED BY <1>2, <1>3, <1>8, <2>6, <2>9
<1> QED BY <1>6, <1>7, <1>8

\* Closing the retention file keeps its type.
LEMMA CloseType ==
  ASSUME NEW S, FileTypeOK(S), FileClose
  PROVE  FileTypeOK(S)'
<1>1. fileOpen' = FALSE /\ rd' = 0 /\ disk' = disk /\ disk \in Seq(S)
  BY DEF FileClose, FileTypeOK
<1>2. disk' \in Seq(S) /\ rd' \in 0 .. Len(disk')
  BY <1>1, LenProperties
<1> QED BY <1>1, <1>2 DEF FileTypeOK

\* ack_events(): how long the queue gets, and that nothing goes but what is
\* acknowledged.
LEMMA AckFacts ==
  ASSUME TypeOK, NEW count \in Nat, AckEvents(count)
  PROVE  /\ FileTypeOK(Event)'
         /\ events' \in Seq(Event) /\ pos' \in 0 .. Len(events')
         /\ acked' \in SUBSET Event /\ acked \subseteq acked'
         /\ acked' = acked \cup {events[i] : i \in 1 .. Popped(count)}
         /\ Popped(count) \in 0 .. pos /\ pos' = pos - Popped(count)
         /\ \A i \in 1 .. pos' : events'[i] = events[i + Popped(count)]
         /\ Len(events') <= Len(events) \/ Len(events') <= QueueMax
         /\ Elems(events) \cup Elems(Unread)
              \subseteq Elems(events') \cup Elems(Unread') \cup acked'
<1> DEFINE n == Popped(count)
           room == Room(Len(events) - n)
           rest == SubSeq(events, n + 1, Len(events))
<1>1. events \in Seq(Event) /\ Len(events) \in Nat /\ pos \in 0 .. Len(events)
      /\ FileTypeOK(Event) /\ acked \in SUBSET Event
  BY DEF TypeOK
<1>2. n \in 0 .. pos /\ n \in 0 .. Len(events)
  BY <1>1 DEF Popped
<1>3. room \in Nat /\ (room = 0 \/ Len(events) - n + room = QueueMax)
  BY <1>1, <1>2, MuxerAssumption DEF Room
<1>4. /\ events' = rest \o Taken(room)
      /\ pos' = pos - n
      /\ acked' = acked \cup Elems(SubSeq(events, 1, n))
      /\ FileTake(room)
  BY DEF AckEvents
<1>5. rest \in Seq(Event) /\ Len(rest) = Len(events) - n
      /\ \A i \in 1 .. Len(events) - n : rest[i] = events[n + i]
  BY <1>1, <1>2, SliceFacts
<1>6. /\ Taken(room) \in Seq(Event)
      /\ TakenCount(room) \in 0 .. room /\ Len(Taken(room)) = TakenCount(room)
      /\ FileTypeOK(Event)'
      /\ Elems(Unread) \subseteq Elems(Taken(room)) \cup Elems(Unread')
  BY <1>1, <1>3, <1>4, TakeFacts
<1> HIDE DEF n, room, rest
<1>7. events' \in Seq(Event) /\ Len(events') = Len(events) - n + TakenCount(room)
      /\ \A i \in 1 .. Len(events) - n : events'[i] = rest[i]
  <2>1. rest \o Taken(room) \in Seq(Event)
        /\ Len(rest \o Taken(room)) = Len(rest) + Len(Taken(room))
        /\ \A i \in 1 .. Len(rest) + Len(Taken(room)) :
             (rest \o Taken(room))[i] = IF i <= Len(rest) THEN rest[i]
                                        ELSE Taken(room)[i - Len(rest)]
    BY <1>5, <1>6, ConcatProperties
  <2> QED BY <1>1, <1>2, <1>4, <1>5, <1>6, <2>1
<1>8. pos' \in 0 .. Len(events')
  BY <1>1, <1>2, <1>3, <1>4, <1>6, <1>7
<1>9. Len(events') <= Len(events) \/ Len(events') <= QueueMax
  BY <1>1, <1>2, <1>3, <1>6, <1>7, MuxerAssumption
<1>10. \A i \in 1 .. pos' : events'[i] = events[i + n]
  BY <1>1, <1>2, <1>4, <1>5, <1>7
<1>11. Elems(SubSeq(events, 1, n)) = {events[i] : i \in 1 .. n}
  BY <1>1, <1>2, ElemsSlice
<1>12. acked' = acked \cup {events[i] : i \in 1 .. n}
  BY <1>4, <1>11
<1>13. {events[i] : i \in 1 .. n} \subseteq Event
  BY <1>1, <1>2
<1>14. Elems(events') = Elems(rest) \cup Elems(Taken(room))
  BY <1>4, <1>5, <1>6, ElemsConcat
<1>15. Elems(rest) = {events[i] : i \in n + 1 .. Len(events)}
  BY <1>1, <1>2, ElemsSlice DEF rest
<1>16. Elems(events) \subseteq Elems(rest) \cup acked'
  <2> SUFFICES ASSUME NEW i \in 1 .. Len(events)
               PROVE  events[i] \in Elems(rest) \cup acked'
    BY <1>1 DEF Elems
  <2>1. CASE i <= n
    BY <2>1, <1>2, <1>12
  <2>2. CASE ~(i <= n)
    <3>1. i \in n + 1 .. Len(events)
      BY <2>2, <1>1, <1>2
    <3> QED BY <3>1, <1>15
  <2> QED BY <2>1, <2>2
<1>17. acked' \in SUBSET Event /\ acked \subseteq acked'
  BY <1>1, <1>12, <1>13
<1>18. Elems(events) \cup Elems(Unread)
         \subseteq Elems(events') \cup Elems(Unread') \cup acked'
  BY <1>6, <1>14, <1>16
<1> QED BY <1>2, <1>4, <1>6, <1>7, <1>8, <1>9, <1>10, <1>12, <1>17, <1>18 DEF n

-----------------------------------------------------------------------------
(* Type correctness *)

\* A muxer starts well typed.
LEMMA InitTypeOK == Init => TypeOK
<1> SUFFICES ASSUME Init PROVE TypeOK
  OBVIOUS
<1>1. <<>> \in Seq(Event) /\ Len(<<>>) = 0
  BY EmptySeq
<1>2. /\ events \in Seq(Event) /\ memfile \in Seq(Event) /\ todo \in Seq(Event)
      /\ pos \in 0 .. Len(events)
  BY <1>1 DEF Init
<1>3. FileTypeOK(Event)
  <2>1. fileOpen = FALSE /\ rd = 0 /\ disk \in Seq(Event) /\ rd \in 0 .. Len(disk)
    BY <1>1 DEF Init, FileInit
  <2> QED BY <2>1 DEF FileTypeOK
<1>4. /\ tpc \in [Slots -> TaskPc] /\ tsize \in [Slots -> Nat]
      /\ tbatch \in [Slots -> Seq(Event)] /\ twritten \in [Slots -> Nat]
  BY <1>1 DEF Init, TaskPc
<1>5. pc \in {"idle", "enter", "push", "full", "spill"} /\ next \in 0 .. MaxEvents
  BY MuxerAssumption DEF Init
<1>6. alive \in BOOLEAN /\ handler \in BOOLEAN /\ handlerSet \in BOOLEAN
      /\ readerRunning \in BOOLEAN /\ pushed \in BOOLEAN /\ session \in BOOLEAN
  BY DEF Init
<1> QED BY <1>2, <1>3, <1>4, <1>5, <1>6 DEF Init, TypeOK

\* Every step keeps the types: one case per action.
LEMMA NextTypeOK == TypeOK /\ [Next]_vars => TypeOK'
<1> SUFFICES ASSUME TypeOK, [Next]_vars PROVE TypeOK'
  OBVIOUS
<1> USE MuxerAssumption
<1>t. FileTypeOK(Event) /\ events \in Seq(Event) /\ pos \in 0 .. Len(events)
      /\ Len(events) \in Nat /\ todo \in Seq(Event) /\ memfile \in Seq(Event)
      /\ disk \in Seq(Event) /\ Len(disk) \in Nat /\ rd \in 0 .. Len(disk)
  BY DEF TypeOK, FileTypeOK
<1>e. <<>> \in Seq(Event) /\ Len(<<>>) = 0
  BY EmptySeq
<1>1. ASSUME NEW n \in 1 .. MaxBatch, PublishCall(n) PROVE TypeOK'
  <2>1. [i \in 1 .. n |-> next + i] \in Seq(Event)
    BY <1>1 DEF PublishCall, TypeOK, Event
  <2> QED BY <1>1, <2>1 DEF PublishCall, TypeOK, FileTypeOK, fileVars,
             queueVars, taskVars, feederVars, clientVars, history, bounds
<1>2. CASE PublishLock
  BY <1>2 DEF PublishLock, TypeOK, FileTypeOK, fileVars,
     queueVars, taskVars, feederVars, clientVars, history, bounds
<1>3. CASE PublishPush
  <2>1. Head(todo) \in Event /\ Tail(todo) \in Seq(Event)
    BY <1>3, <1>t, ElemsHeadTail DEF PublishPush
  <2>2. events' \in Seq(Event) /\ pos' \in 0 .. Len(events') /\ pushed' \in BOOLEAN
    <3>1. CASE Head(todo) \in Rejected
      BY <1>3, <1>t, <3>1 DEF PublishPush, TypeOK
    <3>2. CASE Head(todo) \notin Rejected
      <4>1. events' = Append(events, Head(todo)) /\ pos' = pos /\ pushed' = TRUE
        BY <1>3, <3>2 DEF PublishPush, PushToQueue
      <4>2. events' \in Seq(Event) /\ Len(events') = Len(events) + 1
        BY <4>1, <1>t, <2>1, AppendProperties
      <4> QED BY <4>1, <4>2, <1>t
    <3> QED BY <3>1, <3>2
  <2> QED BY <1>3, <2>1, <2>2 DEF PublishPush, TypeOK, FileTypeOK, fileVars,
             taskVars, feederVars, clientVars, history, bounds
<1>4. CASE PublishUnlock
  <2>1. readerRunning' \in BOOLEAN /\ tpc' \in [Slots -> TaskPc]
        /\ UNCHANGED <<tsize, tbatch, twritten>>
    BY <1>4 DEF PublishUnlock, ExecuteReader, TypeOK, TaskPc, taskVars
  <2> QED BY <1>4, <2>1 DEF PublishUnlock, TypeOK, FileTypeOK, fileVars,
             queueVars, feederVars, clientVars, history, bounds
<1>5. CASE PublishRelock
  BY <1>5 DEF PublishRelock, TypeOK, FileTypeOK, fileVars,
     queueVars, taskVars, feederVars, clientVars, history, bounds
<1>6. CASE PublishSpill
  <2>1. Head(todo) \in Event /\ Tail(todo) \in Seq(Event)
    BY <1>6, <1>t, ElemsHeadTail DEF PublishSpill
  <2>2. FileTypeOK(Event)'
    <3>1. CASE Head(todo) \in Rejected
      BY <1>6, <1>t, <3>1 DEF PublishSpill, FileTypeOK, fileVars
    <3>2. CASE Head(todo) \notin Rejected
      <4>1. fileOpen' = TRUE /\ disk' = Append(disk, Head(todo)) /\ rd' = rd
        BY <1>6, <3>2 DEF PublishSpill, FileWrite
      <4>2. disk' \in Seq(Event) /\ Len(disk') = Len(disk) + 1
        BY <4>1, <1>t, <2>1, AppendProperties
      <4>3. rd' \in 0 .. Len(disk')
        BY <4>1, <4>2, <1>t
      <4> QED BY <4>1, <4>2, <4>3 DEF FileTypeOK
    <3> QED BY <3>1, <3>2
  <2> QED BY <1>6, <2>1, <2>2 DEF PublishSpill, TypeOK,
             queueVars, taskVars, feederVars, clientVars, history, bounds
<1>7. CASE PublishWriteFails
  <2>1. Head(todo) \in Event /\ Tail(todo) \in Seq(Event)
    BY <1>7, <1>t, ElemsHeadTail DEF PublishWriteFails
  <2>2. FileTypeOK(Event)'
    BY <1>7, <1>t, CloseType DEF PublishWriteFails
  <2> QED BY <1>7, <2>1, <2>2 DEF PublishWriteFails, TypeOK,
             queueVars, taskVars, feederVars, clientVars
<1>8. CASE PublishOpenFails
  <2>1. Elems(todo) \subseteq Event
    BY <1>t, ElemsType
  <2> QED BY <1>8, <1>e, <2>1 DEF PublishOpenFails, TypeOK, FileTypeOK, fileVars,
             queueVars, taskVars, feederVars, clientVars
<1>9. CASE PublishReturn
  BY <1>9 DEF PublishReturn, TypeOK, FileTypeOK, fileVars,
     queueVars, taskVars, feederVars, clientVars, history, bounds
<1>10. CASE NackEvents
  BY <1>10, <1>t DEF NackEvents, TypeOK, FileTypeOK, fileVars,
     taskVars, feederVars, pubVars, history, bounds
<1>11. CASE Read
  <2>1. events[pos + 1] \in Event /\ pos' \in 0 .. Len(events)
    BY <1>11, <1>t DEF Read
  <2> QED BY <1>11, <2>1 DEF Read, TypeOK, FileTypeOK, fileVars,
             taskVars, feederVars, pubVars, bounds
<1>12. CASE Disconnect
  <2>0. session' = FALSE /\ cuts' = cuts + 1
    BY <1>12 DEF Disconnect
  <2>1. session' \in BOOLEAN
    BY <2>0
  <2>2. cuts' \in Nat
    BY <2>0 DEF TypeOK
  <2> QED BY <1>12, <2>1, <2>2 DEF Disconnect, TypeOK, FileTypeOK, fileVars,
             queueVars, taskVars, feederVars, pubVars, history
<1>13. ASSUME NEW n \in 1 .. MaxEvents + OverAck, FailoverAck(n) PROVE TypeOK'
  <2>1. n \in Nat /\ AckEvents(n)
    BY <1>13 DEF FailoverAck
  <2>2. FileTypeOK(Event)' /\ events' \in Seq(Event) /\ pos' \in 0 .. Len(events')
        /\ acked' \in SUBSET Event
    BY <2>1, AckFacts
  <2>3. unacked' \in Nat
    BY <1>13, <2>1 DEF FailoverAck, TypeOK
  <2> QED BY <1>13, <2>2, <2>3 DEF FailoverAck, TypeOK,
             taskVars, feederVars, pubVars, bounds
<1>14. CASE SetHandler
  BY <1>14 DEF SetHandler, TypeOK, FileTypeOK, fileVars,
     queueVars, taskVars, pubVars, clientVars, history, bounds
<1>15. CASE ClearHandler
  BY <1>15 DEF ClearHandler, TypeOK, FileTypeOK, fileVars,
     queueVars, taskVars, pubVars, clientVars, history, bounds
<1>16. ASSUME NEW s \in Slots, TaskTake(s) PROVE TypeOK'
  BY <1>16 DEF TaskTake, TypeOK, TaskPc, FileTypeOK, fileVars,
     queueVars, feederVars, pubVars, clientVars, history, bounds
<1>17. ASSUME NEW s \in Slots, TaskSize(s) PROVE TypeOK'
  BY <1>17, <1>t DEF TaskSize, TypeOK, TaskPc, FileTypeOK, fileVars,
     queueVars, feederVars, pubVars, clientVars, history, bounds
<1>18. ASSUME NEW s \in Slots, TaskRead(s) PROVE TypeOK'
  <2> DEFINE n == IF tsize[s] < Len(events) - pos THEN tsize[s] ELSE Len(events) - pos
  <2>1. tsize[s] \in Nat
    BY <1>18 DEF TypeOK
  <2>2. n \in 0 .. Len(events) - pos
    BY <2>1, <1>t
  <2>3. tbatch' = [tbatch EXCEPT ![s] = SubSeq(events, pos + 1, pos + n)]
        /\ pos' = pos + n
    BY <1>18 DEF TaskRead
  <2> HIDE DEF n
  <2>4. SubSeq(events, pos + 1, pos + n) \in Seq(Event) /\ pos + n \in 0 .. Len(events)
    BY <2>2, <1>t, SliceFacts
  <2>5. tbatch' \in [Slots -> Seq(Event)] /\ pos' \in 0 .. Len(events)
    BY <2>3, <2>4 DEF TypeOK
  <2>6. tpc' \in [Slots -> TaskPc]
    BY <1>18 DEF TaskRead, TypeOK, TaskPc
  <2>7. UNCHANGED <<fileVars, alive, events, memfile, readerRunning, tsize,
                    twritten, feederVars, pubVars, clientVars, history, bounds>>
    BY <1>18 DEF TaskRead
  <2> QED BY <2>5, <2>6, <2>7 DEF TypeOK, FileTypeOK, fileVars,
             feederVars, pubVars, clientVars, history, bounds
<1>19. ASSUME NEW s \in Slots, NEW n \in 0 .. MaxEvents, TaskOnEvents(s, n)
       PROVE  TypeOK'
  <2>1. tbatch[s] \in Seq(Event) /\ n \in 0 .. Len(tbatch[s])
    BY <1>19 DEF TaskOnEvents, TypeOK
  <2>2. Elems(SubSeq(tbatch[s], 1, n)) \subseteq Event
    <3>1. 1 \in Nat \ {0} /\ 1 <= n + 1
      BY <2>1
    <3>2. SubSeq(tbatch[s], 1, n) \in Seq(Event)
      BY <2>1, <3>1, SliceFacts
    <3> QED BY <3>2, ElemsType
  <2> QED BY <1>19, <2>2 DEF TaskOnEvents, TypeOK, TaskPc, FileTypeOK, fileVars,
             queueVars, feederVars, pubVars, clientVars
<1>20. ASSUME NEW s \in Slots, TaskAck(s) PROVE TypeOK'
  <2>1. twritten[s] \in Nat /\ AckEvents(twritten[s])
    BY <1>20 DEF TaskAck, TypeOK
  <2>2. FileTypeOK(Event)' /\ events' \in Seq(Event) /\ pos' \in 0 .. Len(events')
        /\ acked' \in SUBSET Event
    BY <2>1, AckFacts
  <2> QED BY <1>20, <2>2 DEF TaskAck, TypeOK, TaskPc, FileTypeOK, fileVars,
             feederVars, pubVars, clientVars, bounds
<1>21. ASSUME NEW s \in Slots, TaskFinish(s) PROVE TypeOK'
  BY <1>21, <1>e DEF TaskFinish, TypeOK, TaskPc, FileTypeOK, fileVars,
     queueVars, feederVars, pubVars, clientVars, history, bounds
<1>g. ASSUME Gone
      PROVE  /\ alive' \in BOOLEAN /\ events' \in Seq(Event) /\ pos' \in 0 .. Len(events')
             /\ handler' \in BOOLEAN /\ handlerSet' \in BOOLEAN
             /\ session' \in BOOLEAN /\ unacked' \in Nat
             /\ readerRunning' \in BOOLEAN /\ tpc' \in [Slots -> TaskPc]
             /\ tbatch' \in [Slots -> Seq(Event)] /\ tsize' \in [Slots -> Nat]
             /\ twritten' \in [Slots -> Nat]
  <2>1. events' \in Seq(Event) /\ pos' \in 0 .. Len(events')
    BY <1>g, <1>e DEF Gone
  <2> QED BY <1>g, <1>e, <2>1 DEF Gone, TaskPc
<1>22. CASE Destroy
  <2>1. PICK k \in 0 .. Len(events) :
          /\ failures' = IF Persistent /\ k < Len(events) THEN failures + 1
                                                          ELSE failures
          /\ memfile' = memfile \o SubSeq(events, 1, k)
          /\ lost' = lost \cup (Elems(SubSeq(events, k + 1, Len(events))) \ Elems(disk))
    BY <1>22 DEF Destroy
  <2>2. SubSeq(events, 1, k) \in Seq(Event) /\ SubSeq(events, k + 1, Len(events)) \in Seq(Event)
    BY <1>t, SliceFacts
  <2>3. memfile' \in Seq(Event)
    BY <1>t, <2>1, <2>2, ConcatProperties
  <2>4. lost' \in SUBSET Event
    BY <2>1, <2>2, ElemsType DEF TypeOK
  <2>5. FileTypeOK(Event)'
    BY <1>22, <1>t, CloseType DEF Destroy
  <2>6. failures' \in Nat
    BY <2>1 DEF TypeOK
  <2> QED BY <1>22, <1>g, <2>3, <2>4, <2>5, <2>6 DEF Destroy, TypeOK, pubVars
<1>23. CASE Crash
  <2>1. PICK k \in rd .. Len(disk) : disk' = SubSeq(disk, 1, k)
    BY <1>23 DEF Crash, FileCrash
  <2>2. disk' \in Seq(Event)
    BY <1>t, <2>1, SliceFacts
  <2>3. FileTypeOK(Event)'
    <3>1. fileOpen' = FALSE /\ rd' = 0
      BY <1>23 DEF Crash, FileCrash
    <3>2. rd' \in 0 .. Len(disk')
      BY <2>2, <3>1, LenProperties
    <3> QED BY <3>1, <3>2, <2>2 DEF FileTypeOK
  <2>4. Unread \in Seq(Event)
    BY <1>t, SliceFacts DEF Unread
  <2>5. Elems(events) \subseteq Event /\ Elems(Unread) \subseteq Event
        /\ Elems(todo) \subseteq Event
    BY <1>t, <2>4, ElemsType
  <2>6. lost' \in SUBSET Event
    BY <1>23, <2>5 DEF Crash, TypeOK
  <2>7. Gone /\ pc' = "idle" /\ todo' = <<>> /\ pushed' = FALSE
        /\ UNCHANGED <<memfile, next, delivered, acked, restarts, failures, cuts>>
        /\ crashes' \in Nat
    BY <1>23 DEF Crash, TypeOK
  <2>8. pc' \in {"idle", "enter", "push", "full", "spill"} /\ todo' \in Seq(Event)
        /\ pushed' \in BOOLEAN /\ next' \in 0 .. MaxEvents /\ memfile' \in Seq(Event)
    BY <2>7, <1>t, <1>e DEF TypeOK
  <2> QED BY <1>g, <2>3, <2>6, <2>7, <2>8 DEF TypeOK
<1>24. CASE Create
  <2> DEFINE mem == IF Persistent THEN memfile ELSE <<>>
             want == InitialRoom(Len(mem))
             n == IF Len(disk) < want THEN Len(disk) ELSE want
             loaded == SubSeq(disk, 1, n)
  <2>1. mem \in Seq(Event) /\ Len(mem) \in Nat
    BY <1>t, <1>e
  <2>2. want \in Nat \ {0}
    BY <2>1 DEF InitialRoom
  <2>3. n \in 0 .. Len(disk)
    BY <2>2, <1>t
  <2>4. loaded \in Seq(Event) /\ Len(loaded) = n
    BY <2>3, <1>t, SliceFacts
  <2>5. /\ events' = mem \o loaded /\ pos' = LoadedPos(loaded)
        /\ IF Len(disk) < want
           THEN fileOpen' = FALSE /\ disk' = <<>> /\ rd' = 0
           ELSE /\ fileOpen' = TRUE
                /\ \E d \in 0 .. n - 1 : /\ disk' = SubSeq(disk, d + 1, Len(disk))
                                        /\ rd' = n - d
    BY <1>24 DEF Create
  <2> HIDE DEF mem, want, n, loaded
  <2>6. events' \in Seq(Event) /\ Len(events') = Len(mem) + n
    BY <2>1, <2>4, <2>5, ConcatProperties
  <2>7. pos' \in 0 .. Len(events')
    BY <2>1, <2>3, <2>4, <2>5, <2>6 DEF LoadedPos
  <2>8. FileTypeOK(Event)'
    <3>1. CASE Len(disk) < want
      <4>1. fileOpen' = FALSE /\ disk' \in Seq(Event) /\ rd' = 0 /\ Len(disk') = 0
        BY <3>1, <2>5, <1>e
      <4>2. rd' \in 0 .. Len(disk')
        BY <4>1
      <4> QED BY <4>1, <4>2 DEF FileTypeOK
    <3>2. CASE ~(Len(disk) < want)
      <4>1. PICK d \in 0 .. n - 1 : /\ disk' = SubSeq(disk, d + 1, Len(disk))
                                    /\ rd' = n - d
        BY <3>2, <2>5
      <4>2. d + 1 \in Nat \ {0} /\ d + 1 <= Len(disk) + 1
        BY <2>3, <1>t
      <4>3. disk' \in Seq(Event) /\ Len(disk') = Len(disk) - d
        BY <4>1, <4>2, <1>t, SliceFacts
      <4> QED BY <3>2, <4>1, <4>3, <2>3, <2>5, <1>t DEF FileTypeOK
    <3> QED BY <3>1, <3>2
  <2> QED BY <1>24, <1>e, <2>6, <2>7, <2>8 DEF Create, TypeOK,
             taskVars, feederVars, pubVars, clientVars, history
<1>25. CASE UNCHANGED vars
  BY <1>25 DEF vars, TypeOK, FileTypeOK, fileVars, queueVars, taskVars, feederVars,
     pubVars, clientVars, history, bounds
<1> QED
  BY <1>1, <1>2, <1>3, <1>4, <1>5, <1>6, <1>7, <1>8, <1>9, <1>10, <1>11, <1>12,
     <1>13, <1>14, <1>15, <1>16, <1>17, <1>18, <1>19, <1>20, <1>21, <1>22, <1>23,
     <1>24, <1>25
  DEF Next, Publish

\* Every variable of the muxer keeps its type; in particular _pos stays within
\* _events, and the read offset within the retention file.
THEOREM TypeCorrect == Spec => []TypeOK
<1> QED BY InitTypeOK, NextTypeOK, PTL DEF Spec

-----------------------------------------------------------------------------
(* No event disappears *)

\* The steps that neither move an event nor start a call of publish().
Still ==
  /\ UNCHANGED <<fileVars, alive, events, memfile, todo, next, acked, lost, restarts,
                 failures>>
  /\ pc = "idle" => pc' = "idle"
  /\ pc' = "idle" => pc = "idle" \/ todo = <<>>

\* An acknowledgement, from either kind of consumer.
Acking(count) ==
  /\ alive /\ AckEvents(count)
  /\ UNCHANGED <<alive, memfile, pc, todo, next, lost, restarts, failures>>

\* Every step is one of these.
LEMMA StepCases ==
  ASSUME TypeOK, [Next]_vars
  PROVE  \/ Still
         \/ \E n \in 1 .. MaxBatch : PublishCall(n)
         \/ PublishPush \/ PublishSpill \/ PublishWriteFails \/ PublishOpenFails
         \/ \E count \in Nat : Acking(count)
         \/ Destroy \/ Crash \/ Create
<1>1. ASSUME PublishLock \/ PublishUnlock \/ PublishRelock \/ PublishReturn
      PROVE  Still
  BY <1>1 DEF PublishLock, PublishUnlock, PublishRelock, PublishReturn, Still,
     queueVars, history, bounds
<1>2. ASSUME NackEvents \/ Read \/ Disconnect \/ SetHandler \/ ClearHandler
      PROVE  Still
  BY <1>2 DEF NackEvents, Read, Disconnect, SetHandler, ClearHandler, Still,
     queueVars, pubVars, history, bounds
<1>3. ASSUME NEW s \in Slots,
             \/ TaskTake(s) \/ TaskSize(s) \/ TaskRead(s) \/ TaskFinish(s)
             \/ \E n \in 0 .. MaxEvents : TaskOnEvents(s, n)
      PROVE  Still
  BY <1>3 DEF TaskTake, TaskSize, TaskRead, TaskOnEvents, TaskFinish, Still,
     queueVars, pubVars, history, bounds
<1>4. ASSUME NEW n \in 1 .. MaxEvents + OverAck, FailoverAck(n)
      PROVE  n \in Nat /\ Acking(n)
  BY <1>4, MuxerAssumption DEF FailoverAck, Acking, Free, pubVars, bounds
<1>5. ASSUME NEW s \in Slots, TaskAck(s)
      PROVE  twritten[s] \in Nat /\ Acking(twritten[s])
  BY <1>5 DEF TaskAck, Acking, Free, pubVars, bounds, TypeOK
<1>6. ASSUME UNCHANGED vars PROVE Still
  BY <1>6 DEF vars, Still, queueVars, pubVars, history, bounds
<1> QED BY <1>1, <1>2, <1>3, <1>4, <1>5, <1>6 DEF Next, Publish

\* Without a muxer object there is no open file, no queue and no publish(), and
\* without publish() no batch; the memory file only exists without a muxer
\* object, and only for a persistent muxer.
Lifecycle ==
  /\ ~alive => ~fileOpen /\ events = <<>> /\ pc = "idle"
  /\ pc = "idle" => todo = <<>>
  /\ alive \/ ~Persistent => memfile = <<>>

\* Lifecycle holds at the start.
LEMMA InitLifecycle == Init => Lifecycle
  BY DEF Init, FileInit, Lifecycle

\* Every step keeps Lifecycle.
LEMMA NextLifecycle ==
  ASSUME TypeOK, Lifecycle, [Next]_vars
  PROVE  Lifecycle'
<1>1. CASE Still
  BY <1>1 DEF Still, Lifecycle, fileVars
<1>2. CASE \E n \in 1 .. MaxBatch : PublishCall(n)
  BY <1>2 DEF PublishCall, Lifecycle, fileVars, queueVars
<1>3. CASE PublishPush \/ PublishSpill \/ PublishWriteFails
  BY <1>3 DEF PublishPush, PublishSpill, PublishWriteFails, Lifecycle, queueVars
<1>4. CASE PublishOpenFails
  BY <1>4 DEF PublishOpenFails, Lifecycle, fileVars, queueVars
<1>5. CASE \E count \in Nat : Acking(count)
  BY <1>5 DEF Acking, Lifecycle
<1>6. CASE Destroy
  <2>1. alive' = FALSE /\ fileOpen' = FALSE /\ events' = <<>> /\ alive
        /\ pc' = "idle" /\ todo' = <<>>
    BY <1>6 DEF Destroy, Gone, FileClose, pubVars, Lifecycle
  <2>2. ASSUME ~Persistent PROVE memfile' = <<>>
    <3>1. PICK k \in 0 .. Len(events) :
            k = 0 /\ memfile' = memfile \o SubSeq(events, 1, k)
      BY <1>6, <2>2 DEF Destroy
    <3>2. memfile = <<>> /\ events \in Seq(Event)
      BY <2>1 DEF Lifecycle, TypeOK
    <3>3. SubSeq(events, 1, 0) \in Seq(Event) /\ Len(SubSeq(events, 1, 0)) = 0
      BY <3>2, SliceFacts
    <3>4. SubSeq(events, 1, 0) = <<>>
      BY <3>3, EmptySeq
    <3> QED BY <3>1, <3>2, <3>4, ConcatEmptySeq, EmptySeq
  <2> QED BY <2>1, <2>2 DEF Lifecycle
<1>7. CASE Crash
  BY <1>7 DEF Crash, Gone, FileCrash, Lifecycle
<1>8. CASE Create
  BY <1>8 DEF Create, Lifecycle, pubVars
<1> QED BY <1>1, <1>2, <1>3, <1>4, <1>5, <1>6, <1>7, <1>8, StepCases

\* The events that are accounted for.
Accounted ==
  Rejected \cup Elems(todo) \cup Elems(events) \cup Elems(Unread)
  \cup Elems(memfile) \cup acked \cup lost

\* What the steps do to the retention file, as seen through Unread.
LEMMA UnreadAppend ==
  ASSUME NEW S, FileTypeOK(S), NEW e \in S, FileWrite(e)
  PROVE  Elems(Unread') = Elems(Unread) \cup {e}
<1>1. disk \in Seq(S) /\ Len(disk) \in Nat /\ rd \in 0 .. Len(disk)
  BY DEF FileTypeOK
<1>2. disk' = Append(disk, e) /\ rd' = rd
  BY DEF FileWrite
<1>3. disk' \in Seq(S) /\ Len(disk') = Len(disk) + 1 /\ disk'[Len(disk) + 1] = e
      /\ \A i \in 1 .. Len(disk) : disk'[i] = disk[i]
  BY <1>1, <1>2, AppendProperties
<1>4. rd' \in 0 .. Len(disk')
  BY <1>1, <1>2, <1>3
<1>5. Elems(SubSeq(disk', rd' + 1, Len(disk'))) = {disk'[i] : i \in rd' + 1 .. Len(disk')}
  BY <1>3, <1>4, ElemsSuffix
<1>6. Elems(SubSeq(disk, rd + 1, Len(disk))) = {disk[i] : i \in rd + 1 .. Len(disk)}
  BY <1>1, ElemsSuffix
<1>7. {disk'[i] : i \in rd' + 1 .. Len(disk')}
        = {disk[i] : i \in rd + 1 .. Len(disk)} \cup {e}
  BY <1>1, <1>2, <1>3
<1> QED BY <1>5, <1>6, <1>7 DEF Unread

\* Closing the file makes all that is on disk unread again.
LEMMA UnreadReset ==
  ASSUME NEW S, FileTypeOK(S)
  PROVE  /\ Elems(Unread) \subseteq Elems(disk)
         /\ rd = 0 => Elems(Unread) = Elems(disk)
<1>1. disk \in Seq(S) /\ Len(disk) \in Nat /\ rd \in 0 .. Len(disk)
      /\ DOMAIN disk = 1 .. Len(disk)
  BY DEF FileTypeOK
<1>2. Elems(Unread) = {disk[i] : i \in rd + 1 .. Len(disk)}
  BY <1>1, ElemsSuffix DEF Unread
<1>3. Elems(disk) = {disk[i] : i \in 1 .. Len(disk)}
  BY <1>1 DEF Elems
<1>4. {disk[i] : i \in rd + 1 .. Len(disk)} \subseteq {disk[i] : i \in 1 .. Len(disk)}
  BY <1>1
<1>5. ASSUME rd = 0 PROVE rd + 1 .. Len(disk) = 1 .. Len(disk)
  BY <1>5, <1>1
<1>6. ASSUME rd = 0 PROVE Elems(Unread) = Elems(disk)
  BY <1>2, <1>3, <1>5, <1>6
<1> QED BY <1>2, <1>3, <1>4, <1>6

\* After the file is closed, whatever the way, all that is on disk is unread.
LEMMA UnreadClosed ==
  ASSUME NEW S, FileTypeOK(S)', rd' = 0
  PROVE  Elems(Unread') = Elems(disk')
<1>1. disk' \in Seq(S) /\ 0 \in 0 .. Len(disk') /\ DOMAIN (disk') = 1 .. Len(disk')
  BY LenProperties DEF FileTypeOK
<1>2. Elems(SubSeq(disk', 0 + 1, Len(disk'))) = {disk'[i] : i \in 0 + 1 .. Len(disk')}
  BY <1>1, ElemsSuffix
<1>3. Unread' = SubSeq(disk', 0 + 1, Len(disk'))
  BY DEF Unread
<1>4. 0 + 1 .. Len(disk') = 1 .. Len(disk')
  OBVIOUS
<1>5. Elems(disk') = {disk'[i] : i \in 1 .. Len(disk')}
  BY <1>1 DEF Elems
<1> QED BY <1>2, <1>3, <1>4, <1>5

\* What the constructor loads (n events) and what it leaves unread, once the
\* parts that hold d of them are erased, is all that was on disk.
LEMMA LoadFacts ==
  ASSUME NEW S, NEW s \in Seq(S), NEW n \in 0 .. Len(s), NEW d \in 0 .. n
  PROVE  LET t == SubSeq(s, d + 1, Len(s))
         IN  Elems(s) \subseteq Elems(SubSeq(s, 1, n))
                                  \cup Elems(SubSeq(t, n - d + 1, Len(t)))
<1> DEFINE t == SubSeq(s, d + 1, Len(s))
<1>1. Len(s) \in Nat /\ DOMAIN s = 1 .. Len(s)
  OBVIOUS
<1>2. d + 1 \in Nat \ {0} /\ d + 1 <= Len(s) + 1 /\ Len(s) \in 0 .. Len(s)
      /\ n - d \in Nat
  BY <1>1
<1>3. t \in Seq(S) /\ Len(t) = Len(s) - d
      /\ \A i \in 1 .. Len(s) - d : t[i] = s[d + i]
  <2> DEFINE a == d + 1
             b == Len(s)
  <2>0. a \in Nat \ {0} /\ b \in 0 .. Len(s) /\ a <= b + 1 /\ t = SubSeq(s, a, b)
    BY <1>2
  <2> HIDE DEF a, b, t
  <2>1. /\ t \in Seq(S)
        /\ Len(t) = b - a + 1
        /\ \A i \in 1 .. b - a + 1 : t[i] = s[a + i - 1]
    BY <2>0, SliceFacts
  <2>2. b - a + 1 = Len(s) - d /\ \A i \in Int : a + i - 1 = d + i
    BY <1>1 DEF a, b
  <2> QED BY <2>1, <2>2
<1> HIDE DEF t
<1>4. n - d \in 0 .. Len(t)
  BY <1>1, <1>3
<1>5. Elems(SubSeq(t, n - d + 1, Len(t))) = {t[i] : i \in n - d + 1 .. Len(t)}
  BY <1>3, <1>4, ElemsSuffix
<1>6. Elems(SubSeq(s, 1, n)) = {s[i] : i \in 1 .. n}
  <2>1. 1 \in Nat \ {0} /\ 1 <= n + 1
    OBVIOUS
  <2> QED BY <2>1, <1>1, ElemsSlice
<1>7. ASSUME NEW i \in 1 .. Len(s)
      PROVE  s[i] \in {s[j] : j \in 1 .. n} \cup {t[j] : j \in n - d + 1 .. Len(t)}
  <2>1. CASE i > n
    <3>1. i - d \in n - d + 1 .. Len(t) /\ i - d \in 1 .. Len(s) - d /\ d + (i - d) = i
      BY <1>1, <1>3, <2>1
    <3>2. t[i - d] = s[i]
      BY <3>1, <1>3
    <3> QED BY <3>1, <3>2
  <2>2. CASE ~(i > n)
    BY <1>1, <2>2
  <2> QED BY <2>1, <2>2
<1> QED BY <1>1, <1>5, <1>6, <1>7 DEF Elems, t

\* Every step keeps Conservation: what it takes from one place it puts in
\* another, or counts as acknowledged or lost.
LEMMA NextConservation ==
  ASSUME TypeOK, TypeOK', Lifecycle, Conservation, [Next]_vars
  PROVE  Conservation'
<1>u. FileTypeOK(Event) /\ FileTypeOK(Event)' /\ events \in Seq(Event)
      /\ todo \in Seq(Event) /\ memfile \in Seq(Event) /\ next \in Nat
  BY DEF TypeOK
<1>v. disk \in Seq(Event)
  BY <1>u DEF FileTypeOK
<1>t. FileTypeOK(Event) /\ FileTypeOK(Event)' /\ events \in Seq(Event)
      /\ todo \in Seq(Event) /\ memfile \in Seq(Event) /\ Len(events) \in Nat
      /\ next \in Nat /\ Len(disk) \in Nat
  BY <1>u, <1>v, LenProperties
<1>a. 1 .. next \subseteq Accounted
  BY DEF Conservation, Accounted
<1>b. ASSUME next' = next, Accounted \subseteq Accounted' PROVE Conservation'
  BY <1>a, <1>b DEF Conservation, Accounted
<1>1. CASE Still
  BY <1>1, <1>b DEF Still, Accounted, Unread, fileVars
<1>2. ASSUME NEW n \in 1 .. MaxBatch, PublishCall(n) PROVE Conservation'
  <2>1. todo' = [i \in 1 .. n |-> next + i] /\ next' = next + n
    BY <1>2 DEF PublishCall
  <2>2. Accounted \subseteq Accounted' \cup Elems(todo)
    BY <1>2 DEF PublishCall, Accounted, Unread, fileVars, queueVars, history
  <2>3. ASSUME NEW e \in next + 1 .. next + n PROVE e \in Elems(todo')
    <3>1. e - next \in 1 .. n /\ e = next + (e - next)
      BY <1>t
    <3>2. DOMAIN (todo') = 1 .. n /\ todo'[e - next] = e
      BY <2>1, <3>1
    <3> QED BY <3>1, <3>2 DEF Elems
  <2>4. Elems(todo) = {}
    BY <1>2, ElemsEmpty DEF PublishCall, Lifecycle
  <2>5. Elems(todo') \subseteq Accounted'
    BY DEF Accounted
  <2>6. ASSUME NEW e \in 1 .. next + n PROVE e \in Accounted'
    <3>1. CASE e <= next
      BY <3>1, <1>a, <1>t, <2>2, <2>4
    <3>2. CASE ~(e <= next)
      <4>1. e \in next + 1 .. next + n
        BY <3>2, <1>t
      <4> QED BY <4>1, <2>3, <2>5
    <3> QED BY <3>1, <3>2
  <2> QED BY <2>1, <2>6 DEF Conservation, Accounted
<1>3. CASE PublishPush
  <2>1. todo # <<>> /\ todo' = Tail(todo) /\ Elems(todo) = {Head(todo)} \cup Elems(Tail(todo))
        /\ Head(todo) \in Event
    BY <1>3, <1>t, ElemsHeadTail DEF PublishPush
  <2>2. Elems(events') = Elems(events) \cup {Head(todo)}
        \/ (Head(todo) \in Rejected /\ events' = events)
    <3>1. CASE Head(todo) \in Rejected
      BY <1>3, <3>1 DEF PublishPush
    <3>2. CASE Head(todo) \notin Rejected
      <4>1. events' = Append(events, Head(todo))
        BY <1>3, <3>2 DEF PublishPush, PushToQueue
      <4>2. Elems(Append(events, Head(todo))) = Elems(events) \cup {Head(todo)}
        BY <1>t, <2>1, ElemsAppend
      <4> QED BY <4>1, <4>2
    <3> QED BY <3>1, <3>2
  <2>3. UNCHANGED <<Unread, memfile, acked, lost, next>>
    BY <1>3 DEF PublishPush, fileVars, history, Unread
  <2> QED BY <1>b, <2>1, <2>2, <2>3 DEF Accounted
<1>4. CASE PublishSpill
  <2>1. todo # <<>> /\ todo' = Tail(todo) /\ Elems(todo) = {Head(todo)} \cup Elems(Tail(todo))
        /\ Head(todo) \in Event
    BY <1>4, <1>t, ElemsHeadTail DEF PublishSpill
  <2>2. Elems(Unread') = Elems(Unread) \cup {Head(todo)}
        \/ (Head(todo) \in Rejected /\ Unread' = Unread)
    <3>1. CASE Head(todo) \in Rejected
      BY <1>4, <3>1 DEF PublishSpill, fileVars, Unread
    <3>2. CASE Head(todo) \notin Rejected
      BY <1>4, <3>2, <1>t, <2>1, UnreadAppend DEF PublishSpill
    <3> QED BY <3>1, <3>2
  <2>3. UNCHANGED <<events, memfile, acked, lost, next>>
    BY <1>4 DEF PublishSpill, queueVars, history
  <2> QED BY <1>b, <2>1, <2>2, <2>3 DEF Accounted
<1>c. ASSUME FileClose PROVE Elems(Unread) \subseteq Elems(Unread')
  BY <1>c, <1>t, UnreadReset, UnreadClosed DEF FileClose
<1>5. CASE PublishWriteFails
  <2>1. todo # <<>> /\ todo' = Tail(todo) /\ Elems(todo) = {Head(todo)} \cup Elems(Tail(todo))
        /\ lost' = lost \cup {Head(todo)} /\ FileClose
    BY <1>5, <1>t, ElemsHeadTail DEF PublishWriteFails
  <2>2. UNCHANGED <<events, memfile, acked, next>>
    BY <1>5 DEF PublishWriteFails, queueVars
  <2> QED BY <1>b, <1>c, <2>1, <2>2 DEF Accounted
<1>6. CASE PublishOpenFails
  <2>1. lost' = lost \cup (Elems(todo) \ Rejected)
        /\ UNCHANGED <<events, memfile, acked, next, Unread>>
    BY <1>6 DEF PublishOpenFails, queueVars, fileVars, Unread
  <2> QED BY <1>b, <2>1 DEF Accounted
<1>7. ASSUME NEW count \in Nat, Acking(count) PROVE Conservation'
  <2>1. AckEvents(count) /\ UNCHANGED <<memfile, todo, next, lost>>
    BY <1>7 DEF Acking
  <2>2. Elems(events) \cup Elems(Unread) \cup acked
          \subseteq Elems(events') \cup Elems(Unread') \cup acked'
    BY <2>1, AckFacts
  <2> QED BY <1>b, <2>1, <2>2 DEF Accounted
<1>8. CASE Destroy
  <2>1. PICK k \in 0 .. Len(events) :
          /\ memfile' = memfile \o SubSeq(events, 1, k)
          /\ lost' = lost \cup (Elems(SubSeq(events, k + 1, Len(events))) \ Elems(disk))
    BY <1>8 DEF Destroy
  <2>2. FileClose /\ UNCHANGED <<todo, next, acked>>
    BY <1>8 DEF Destroy, pubVars
  <2>3. SubSeq(events, 1, k) \in Seq(Event)
        /\ Elems(SubSeq(events, 1, k)) = {events[i] : i \in 1 .. k}
    <3>1. 1 \in Nat \ {0} /\ 1 <= k + 1
      OBVIOUS
    <3> QED BY <3>1, <1>t, SliceFacts, ElemsSlice
  <2>4. Elems(SubSeq(events, k + 1, Len(events))) = {events[i] : i \in k + 1 .. Len(events)}
    BY <1>t, ElemsSuffix
  <2>5. Elems(memfile') = Elems(memfile) \cup {events[i] : i \in 1 .. k}
    <3> DEFINE saved == SubSeq(events, 1, k)
    <3>1. memfile \in Seq(Event) /\ saved \in Seq(Event) /\ memfile' = memfile \o saved
          /\ Elems(saved) = {events[i] : i \in 1 .. k}
      BY <1>t, <2>1, <2>3
    <3> HIDE DEF saved
    <3>2. Elems(memfile \o saved) = Elems(memfile) \cup Elems(saved)
      BY <3>1, ElemsConcat
    <3> QED BY <3>1, <3>2
  <2>6. Elems(Unread') = Elems(disk)
    BY <1>t, <2>2, UnreadClosed DEF FileClose
  <2>7. Elems(events) \subseteq {events[i] : i \in 1 .. k} \cup {events[i] : i \in k + 1 .. Len(events)}
    <3> SUFFICES ASSUME NEW i \in 1 .. Len(events)
                 PROVE  events[i] \in {events[j] : j \in 1 .. k}
                                        \cup {events[j] : j \in k + 1 .. Len(events)}
      BY <1>t DEF Elems
    <3>1. i \in 1 .. k \/ i \in k + 1 .. Len(events)
      BY <1>t
    <3> QED BY <3>1
  <2>8. Elems(Unread) \subseteq Elems(disk)
    BY <1>t, UnreadReset
  <2> QED BY <1>b, <2>1, <2>2, <2>4, <2>5, <2>6, <2>7, <2>8 DEF Accounted
<1>9. CASE Crash
  <2>1. lost' = lost \cup ((Elems(events) \cup Elems(Unread) \cup Elems(todo))
                             \ (Rejected \cup Elems(disk')))
        /\ UNCHANGED <<memfile, next, acked>>
    BY <1>9 DEF Crash
  <2>2. Elems(Unread') = Elems(disk')
    BY <1>9, <1>t, UnreadClosed DEF Crash, FileCrash
  <2> QED BY <1>b, <2>1, <2>2 DEF Accounted
<1>10. CASE Create
  <2> DEFINE mem == IF Persistent THEN memfile ELSE <<>>
             want == InitialRoom(Len(mem))
             n == IF Len(disk) < want THEN Len(disk) ELSE want
             loaded == SubSeq(disk, 1, n)
  <2>1. mem \in Seq(Event) /\ Len(mem) \in Nat /\ Elems(mem) = Elems(memfile)
    <3>1. mem = memfile
      BY DEF Lifecycle
    <3> HIDE DEF mem
    <3> QED BY <3>1, <1>t
  <2>2. want \in Nat \ {0}
    BY <2>1, MuxerAssumption DEF InitialRoom
  <2>3. n \in 0 .. Len(disk) /\ disk \in Seq(Event)
    BY <2>2, <1>t DEF FileTypeOK
  <2>4. loaded \in Seq(Event)
    BY <2>3, <1>t, SliceFacts
  <2>5. /\ events' = mem \o loaded
        /\ IF Len(disk) < want
           THEN fileOpen' = FALSE /\ disk' = <<>> /\ rd' = 0
           ELSE /\ fileOpen' = TRUE
                /\ \E d \in 0 .. n - 1 : /\ disk' = SubSeq(disk, d + 1, Len(disk))
                                        /\ rd' = n - d
        /\ UNCHANGED <<todo, next, acked, lost>>
    BY <1>10 DEF Create, pubVars, history
  <2>6. Elems(Unread) = Elems(disk) /\ Elems(events) = {}
    <3>1. rd = 0 /\ events = <<>>
      BY <1>10, <1>t DEF Create, Lifecycle, FileTypeOK
    <3> QED BY <3>1, <1>t, UnreadReset, ElemsEmpty
  <2>7. Len(disk) < want => n = Len(disk)
    OBVIOUS
  <2>8. loaded = SubSeq(disk, 1, n)
    OBVIOUS
  <2> HIDE DEF mem, want, n, loaded
  <2>9. Elems(disk) \subseteq Elems(loaded) \cup Elems(Unread')
    <3>1. CASE Len(disk) < want
      <4>1. Elems(SubSeq(disk, 0 + 1, Len(disk))) = {disk[i] : i \in 0 + 1 .. Len(disk)}
        BY <1>t, <2>3, ElemsSuffix
      <4>2. loaded = SubSeq(disk, 0 + 1, Len(disk))
        BY <2>7, <2>8, <3>1
      <4>3. DOMAIN disk = 1 .. Len(disk) /\ 0 + 1 .. Len(disk) = 1 .. Len(disk)
        BY <2>3
      <4>4. Elems(disk) = Elems(loaded)
        BY <4>1, <4>2, <4>3 DEF Elems
      <4> QED BY <4>4
    <3>2. CASE ~(Len(disk) < want)
      <4>1. PICK d \in 0 .. n - 1 : /\ disk' = SubSeq(disk, d + 1, Len(disk))
                                    /\ rd' = n - d
        BY <3>2, <2>5
      <4>2. d \in 0 .. n
        BY <2>3, <1>t
      <4> DEFINE t == SubSeq(disk, d + 1, Len(disk))
      <4>3. Elems(disk) \subseteq Elems(SubSeq(disk, 1, n)) \cup Elems(SubSeq(t, n - d + 1, Len(t)))
        BY <2>3, <4>2, LoadFacts
      <4>4. Unread' = SubSeq(t, n - d + 1, Len(t))
        BY <4>1 DEF Unread
      <4> QED BY <2>8, <4>3, <4>4
    <3> QED BY <3>1, <3>2
  <2>10. Elems(events') = Elems(memfile) \cup Elems(loaded)
    BY <2>1, <2>4, <2>5, ElemsConcat
  <2> QED BY <1>b, <2>5, <2>6, <2>9, <2>10 DEF Accounted
<1> QED BY <1>1, <1>2, <1>3, <1>4, <1>5, <1>6, <1>7, <1>8, <1>9, <1>10, StepCases

\* No event that was sent to the muxer and passes its filter disappears
\* without being acknowledged or hit by an I/O error or a crash, whatever the
\* interleaving of publish(), the consumer, destructions and constructions.
\* The invariant is inductive with the type of the variables and the
\* lifecycle of the muxer's files.
THEOREM ConservationHolds == Spec => []Conservation
<1>1. Init => Conservation
  BY DEF Init, Conservation
<1>2. Init => TypeOK /\ Lifecycle /\ Conservation
  BY <1>1, InitTypeOK, InitLifecycle
<1>3. TypeOK /\ Lifecycle /\ Conservation /\ [Next]_vars
        => (TypeOK /\ Lifecycle /\ Conservation)'
  BY NextTypeOK, NextLifecycle, NextConservation
<1> QED BY <1>2, <1>3, PTL DEF Spec

-----------------------------------------------------------------------------
(* The limit of the memory queue *)

\* The memory file holds what the queue held, so it is bounded like it.
Bounded == QueueBound /\ Len(memfile) <= QueueMax + restarts

\* Every step keeps the bounds on memory and on the memory file.
LEMMA NextBounded ==
  ASSUME TypeOK, TypeOK', Lifecycle, Bounded, [Next]_vars
  PROVE  Bounded'
<1>t. events \in Seq(Event) /\ memfile \in Seq(Event) /\ todo \in Seq(Event)
      /\ events' \in Seq(Event) /\ memfile' \in Seq(Event)
      /\ restarts \in Nat /\ QueueMax \in Nat \ {0}
  BY MuxerAssumption DEF TypeOK
<1>l. Len(events) \in Nat /\ Len(memfile) \in Nat
      /\ Len(events') \in Nat /\ Len(memfile') \in Nat
  BY <1>t, LenProperties
<1>b. Len(events) <= QueueMax + restarts /\ Len(memfile) <= QueueMax + restarts
  BY DEF Bounded, QueueBound
<1>s. ASSUME Len(events') <= QueueMax + restarts', Len(memfile') <= QueueMax + restarts'
      PROVE  Bounded'
  BY <1>s DEF Bounded, QueueBound
<1>e. Len(<<>>) = 0
  BY EmptySeq
<1>1. CASE Still
  BY <1>1, <1>b, <1>s DEF Still
<1>2. CASE \E n \in 1 .. MaxBatch : PublishCall(n)
  BY <1>2, <1>b, <1>s DEF PublishCall, queueVars, bounds
<1>3. CASE PublishPush
  <2>1. Len(events) < QueueMax /\ memfile' = memfile /\ restarts' = restarts
    BY <1>3 DEF PublishPush, HasRoom, bounds
  <2>2. events' = events \/ events' = Append(events, Head(todo))
    BY <1>3 DEF PublishPush, PushToQueue
  <2>3. Len(Append(events, Head(todo))) = Len(events) + 1
    BY <1>3, <1>t, ElemsHeadTail, AppendProperties DEF PublishPush
  <2>4. Len(events') <= Len(events) + 1
    BY <2>2, <2>3, <1>l
  <2> QED BY <1>b, <1>l, <1>s, <1>t, <2>1, <2>4
<1>4. CASE PublishSpill \/ PublishWriteFails \/ PublishOpenFails
  BY <1>4, <1>b, <1>s DEF PublishSpill, PublishWriteFails, PublishOpenFails,
     queueVars, bounds
<1>5. ASSUME NEW count \in Nat, Acking(count) PROVE Bounded'
  <2>1. AckEvents(count) /\ memfile' = memfile /\ restarts' = restarts
    BY <1>5 DEF Acking
  <2>2. Len(events') <= Len(events) \/ Len(events') <= QueueMax
    BY <2>1, AckFacts
  <2> QED BY <1>b, <1>l, <1>s, <1>t, <2>1, <2>2
<1>6. CASE Destroy
  <2>1. PICK k \in 0 .. Len(events) : memfile' = memfile \o SubSeq(events, 1, k)
    BY <1>6 DEF Destroy
  <2>2. events' = <<>> /\ restarts' = restarts /\ alive
    BY <1>6 DEF Destroy, Gone
  <2>3. SubSeq(events, 1, k) \in Seq(Event) /\ Len(SubSeq(events, 1, k)) = k
    <3>1. 1 \in Nat \ {0} /\ 1 <= k + 1
      OBVIOUS
    <3> QED BY <3>1, <1>t, SliceFacts
  <2>4. memfile = <<>>
    BY <2>2 DEF Lifecycle
  <2>5. Len(memfile') = k
    <3>1. Len(memfile \o SubSeq(events, 1, k)) = Len(memfile) + Len(SubSeq(events, 1, k))
      BY <1>t, <2>3, ConcatProperties
    <3> QED BY <1>e, <2>1, <2>3, <2>4, <3>1
  <2> QED BY <1>b, <1>e, <1>l, <1>s, <1>t, <2>2, <2>5
<1>7. CASE Crash
  <2>1. events' = <<>> /\ restarts' = restarts /\ memfile' = memfile
    BY <1>7 DEF Crash, Gone
  <2> QED BY <1>b, <1>e, <1>s, <1>t, <2>1
<1>8. CASE Create
  <2> DEFINE mem == IF Persistent THEN memfile ELSE <<>>
             want == InitialRoom(Len(mem))
             n == IF Len(disk) < want THEN Len(disk) ELSE want
  <2>1. mem \in Seq(Event) /\ Len(mem) \in Nat /\ Len(mem) <= QueueMax + restarts
    <3>1. mem = memfile
      BY DEF Lifecycle
    <3> HIDE DEF mem
    <3> QED BY <3>1, <1>t, <1>l, <1>b
  <2>2. disk \in Seq(Event) /\ Len(disk) \in Nat
    <3>1. FileTypeOK(Event)
      BY DEF TypeOK
    <3>2. disk \in Seq(Event)
      BY <3>1 DEF FileTypeOK
    <3> QED BY <3>2, LenProperties
  <2>3. want \in Nat \ {0} /\ Len(mem) + want <= QueueMax + (restarts + 1)
    <3>1. ASSUME NEW k \in Nat, k <= QueueMax + restarts
          PROVE  InitialRoom(k) \in Nat \ {0} /\ k + InitialRoom(k) <= QueueMax + (restarts + 1)
      BY <3>1, <1>t DEF InitialRoom
    <3> HIDE DEF mem
    <3> QED BY <3>1, <2>1
  <2>4. n \in 0 .. Len(disk) /\ n <= want
    BY <2>2, <2>3
  <2>5. events' = mem \o SubSeq(disk, 1, n) /\ memfile' = <<>> /\ restarts' = restarts + 1
    BY <1>8 DEF Create
  <2> HIDE DEF mem, want, n
  <2>6. SubSeq(disk, 1, n) \in Seq(Event) /\ Len(SubSeq(disk, 1, n)) = n
    <3>1. 1 \in Nat \ {0} /\ 1 <= n + 1
      BY <2>4
    <3> QED BY <3>1, <2>2, <2>4, SliceFacts
  <2>7. Len(mem \o SubSeq(disk, 1, n)) = Len(mem) + n
    BY <2>1, <2>6, ConcatProperties
  <2>8. Len(events') <= QueueMax + restarts'
    BY <1>t, <2>1, <2>2, <2>3, <2>4, <2>5, <2>7
  <2>9. Len(memfile') <= QueueMax + restarts'
    BY <1>e, <1>t, <2>5
  <2> QED BY <1>s, <2>8, <2>9
<1> QED BY <1>1, <1>2, <1>3, <1>4, <1>5, <1>6, <1>7, <1>8, StepCases

\* The memory queue never holds more than its limit and one event per restart,
\* which the constructor may read in excess: neither publish() nor the refill
\* of ack_events() overshoots it.
THEOREM QueueBoundHolds == Spec => []QueueBound
<1>1. Init => Bounded
  BY EmptySeq, MuxerAssumption DEF Init, Bounded, QueueBound
<1>2. Init => TypeOK /\ Lifecycle /\ Bounded
  BY <1>1, InitTypeOK, InitLifecycle
<1>3. TypeOK /\ Lifecycle /\ Bounded /\ [Next]_vars
        => (TypeOK /\ Lifecycle /\ Bounded)'
  BY NextTypeOK, NextLifecycle, NextBounded
<1>4. Bounded => QueueBound
  BY DEF Bounded
<1> QED BY <1>2, <1>3, <1>4, PTL DEF Spec

-----------------------------------------------------------------------------
(* One reader task at a time *)

\* A posted or running task has raised _reader_running.
FlagRaised == \A s \in Slots : tpc[s] # "none" => readerRunning

\* The steps that leave the reader tasks alone.
LEMMA TasksKept ==
  ASSUME [Next]_vars
  PROVE  \/ UNCHANGED <<readerRunning, tpc>>
         \/ ExecuteReader
         \/ \E s \in Slots :
              /\ tpc[s] # "none" /\ readerRunning' = readerRunning
              /\ \E v \in TaskPc : tpc' = [tpc EXCEPT ![s] = v]
         \/ \E s \in Slots :
              /\ tpc[s] # "none" /\ readerRunning' = FALSE
              /\ tpc' = [tpc EXCEPT ![s] = "none"]
         \/ Gone
<1> DEFINE Kept == UNCHANGED <<readerRunning, tpc>>
           Moved == \E s \in Slots :
              /\ tpc[s] # "none" /\ readerRunning' = readerRunning
              /\ \E v \in TaskPc : tpc' = [tpc EXCEPT ![s] = v]
<1>1. ASSUME \E n \in 1 .. MaxBatch : PublishCall(n) PROVE Kept
  BY <1>1 DEF PublishCall, taskVars
<1>2. ASSUME \/ PublishLock \/ PublishPush \/ PublishRelock \/ PublishSpill
             \/ PublishReturn \/ PublishWriteFails \/ PublishOpenFails
      PROVE  Kept
  BY <1>2 DEF PublishLock, PublishPush, PublishRelock, PublishSpill,
     PublishReturn, PublishWriteFails, PublishOpenFails, taskVars
<1>3. ASSUME PublishUnlock PROVE Kept \/ ExecuteReader
  BY <1>3 DEF PublishUnlock, taskVars
<1>4. ASSUME \/ NackEvents \/ Read \/ Disconnect \/ SetHandler \/ ClearHandler \/ Create
             \/ \E n \in 1 .. MaxEvents + OverAck : FailoverAck(n)
      PROVE  Kept
  BY <1>4 DEF NackEvents, Read, Disconnect, SetHandler, ClearHandler, Create,
     FailoverAck, taskVars
<1>5. ASSUME NEW s \in Slots,
             \/ TaskTake(s) \/ TaskSize(s) \/ TaskRead(s) \/ TaskAck(s)
             \/ \E n \in 0 .. MaxEvents : TaskOnEvents(s, n)
      PROVE  Moved
  <2>1. tpc[s] # "none" /\ readerRunning' = readerRunning
    BY <1>5 DEF TaskTake, TaskSize, TaskRead, TaskAck, TaskOnEvents
  <2>2. \E v \in TaskPc : tpc' = [tpc EXCEPT ![s] = v]
    BY <1>5 DEF TaskTake, TaskSize, TaskRead, TaskAck, TaskOnEvents, TaskPc
  <2> QED BY <2>1, <2>2
<1>6. ASSUME NEW s \in Slots, TaskFinish(s)
      PROVE  tpc[s] # "none" /\ readerRunning' = FALSE /\ tpc' = [tpc EXCEPT ![s] = "none"]
  BY <1>6 DEF TaskFinish
<1>7. ASSUME Destroy \/ Crash PROVE Gone
  BY <1>7 DEF Destroy, Crash
<1>8. ASSUME UNCHANGED vars PROVE Kept
  BY <1>8 DEF vars, taskVars
<1> QED BY <1>1, <1>2, <1>3, <1>4, <1>5, <1>6, <1>7, <1>8 DEF Next, Publish

\* Every step keeps OneReader: a task is posted only when the flag is lowered,
\* that is, when there is none.
LEMMA NextOneReader ==
  ASSUME TypeOK, OneReader, FlagRaised, [Next]_vars
  PROVE  (OneReader /\ FlagRaised)'
<1>t. tpc \in [Slots -> TaskPc]
  BY DEF TypeOK
<1>1. CASE UNCHANGED <<readerRunning, tpc>>
  BY <1>1 DEF OneReader, FlagRaised
<1>2. CASE ExecuteReader
  <2>1. CASE readerRunning
    BY <1>2, <2>1 DEF ExecuteReader, OneReader, FlagRaised, taskVars
  <2>2. CASE ~readerRunning
    <3>1. PICK s \in Slots : tpc[s] = "none" /\ tpc' = [tpc EXCEPT ![s] = "posted"]
      BY <1>2, <2>2 DEF ExecuteReader
    <3>2. \A t \in Slots : t # s => tpc'[t] = "none"
      BY <1>t, <2>2, <3>1 DEF FlagRaised
    <3>3. OneReader'
      BY <3>2 DEF OneReader
    <3>4. readerRunning' = TRUE
      BY <1>2, <2>2 DEF ExecuteReader
    <3>5. FlagRaised'
      BY <3>4 DEF FlagRaised
    <3> QED BY <3>3, <3>5
  <2> QED BY <2>1, <2>2
<1>3. CASE \E s \in Slots : /\ tpc[s] # "none" /\ readerRunning' = readerRunning
                            /\ \E v \in TaskPc : tpc' = [tpc EXCEPT ![s] = v]
  BY <1>t, <1>3 DEF OneReader, FlagRaised
<1>4. CASE \E s \in Slots : /\ tpc[s] # "none" /\ readerRunning' = FALSE
                            /\ tpc' = [tpc EXCEPT ![s] = "none"]
  <2>1. \A t \in Slots : tpc'[t] = "none"
    BY <1>t, <1>4 DEF OneReader
  <2> QED BY <2>1 DEF OneReader, FlagRaised
<1>5. CASE Gone
  <2>1. \A t \in Slots : tpc'[t] = "none"
    BY <1>5 DEF Gone
  <2> QED BY <2>1 DEF OneReader, FlagRaised
<1> QED BY <1>1, <1>2, <1>3, <1>4, <1>5, TasksKept

\* A handler is never called by two tasks at once, however publish() calls
\* and pool threads interleave: the compare-exchange on _reader_running lets
\* one task in, and it is lowered only by the task that raised it.
THEOREM OneReaderHolds == Spec => []OneReader
<1>1. Init => TypeOK /\ OneReader /\ FlagRaised
  BY InitTypeOK DEF Init, OneReader, FlagRaised
<1>2. TypeOK /\ OneReader /\ FlagRaised /\ [Next]_vars
        => (TypeOK /\ OneReader /\ FlagRaised)'
  BY NextTypeOK, NextOneReader
<1> QED BY <1>1, <1>2, PTL DEF Spec

-----------------------------------------------------------------------------
(* A failover only has its events forgotten once it was given them *)

\* With a failover no reader task goes beyond the test of the handler, and
\* during a connection all that precedes _pos was given to the stream.
Given ==
  /\ ~handler
  /\ \A s \in Slots : tpc[s] \in {"none", "posted"}
  /\ session => alive
  /\ session => \A i \in 1 .. pos : events[i] \in delivered
  /\ acked \subseteq delivered

\* The steps of a failover that change nothing of this.
Quiet ==
  /\ UNCHANGED <<alive, events, pos, session, acked, delivered, handler>>
  /\ \A s \in Slots : tpc'[s] \in {"none", "posted"}

\* Every step of a muxer with a failover keeps Given.
LEMMA NextGiven ==
  ASSUME ~Feeder, TypeOK, TypeOK', Given, [Next]_vars
  PROVE  Given'
<1>t. events \in Seq(Event) /\ Len(events) \in Nat /\ pos \in 0 .. Len(events)
      /\ tpc \in [Slots -> TaskPc]
  <2>1. events \in Seq(Event) /\ pos \in 0 .. Len(events) /\ tpc \in [Slots -> TaskPc]
    BY Zenon DEF TypeOK
  <2>2. Len(events) \in Nat
    BY <2>1, LenProperties
  <2> QED BY <2>1, <2>2
<1>g. /\ ~handler /\ \A s \in Slots : tpc[s] \in {"none", "posted"}
      /\ session => alive
      /\ session => \A i \in 1 .. pos : events[i] \in delivered
      /\ acked \subseteq delivered
  BY DEF Given
<1>q. ASSUME Quiet PROVE Given'
  BY <1>q, <1>g DEF Quiet, Given
<1>1. ASSUME \E n \in 1 .. MaxBatch : PublishCall(n) PROVE Quiet
  BY <1>1, <1>g DEF PublishCall, Quiet, taskVars, queueVars, feederVars, clientVars, history
<1>2. ASSUME PublishLock \/ PublishRelock \/ PublishSpill \/ PublishReturn PROVE Quiet
  BY <1>2, <1>g DEF PublishLock, PublishRelock, PublishSpill, PublishReturn, Quiet,
     taskVars, queueVars, feederVars, clientVars, history
<1>3. ASSUME PublishWriteFails \/ PublishOpenFails PROVE Quiet
  BY <1>3, <1>g DEF PublishWriteFails, PublishOpenFails, Quiet,
     taskVars, queueVars, feederVars, clientVars
<1>4. ASSUME PublishUnlock PROVE Quiet
  <2>1. \A s \in Slots : tpc'[s] \in {"none", "posted"}
    BY <1>4, <1>g, <1>t DEF PublishUnlock, ExecuteReader, taskVars
  <2> QED BY <1>4, <2>1 DEF PublishUnlock, Quiet, queueVars, feederVars, clientVars, history
<1>5. CASE PublishPush
  <2>1. UNCHANGED <<alive, session, acked, delivered, handler, tpc>> /\ pos' = pos
    BY <1>5 DEF PublishPush, PushToQueue, taskVars, feederVars, clientVars, history
  <2>2. \A i \in 1 .. pos : events'[i] = events[i]
    <3>1. events' = events \/ events' = Append(events, Head(todo))
      BY <1>5 DEF PublishPush, PushToQueue
    <3>2. Head(todo) \in Event
      BY <1>5, ElemsHeadTail DEF PublishPush, TypeOK
    <3>3. \A i \in 1 .. Len(events) : Append(events, Head(todo))[i] = events[i]
      BY <3>2, <1>t, AppendProperties
    <3> QED BY <3>1, <3>3, <1>t
  <2> QED BY <1>g, <2>1, <2>2 DEF Given
<1>6. CASE NackEvents
  <2>1. UNCHANGED <<alive, acked, delivered, handler, tpc>> /\ pos' = 0 /\ alive
    BY <1>6 DEF NackEvents, Free, taskVars, feederVars, history
  <2>2. \A i \in 1 .. pos' : FALSE
    BY <2>1
  <2> QED BY <1>g, <2>1, <2>2 DEF Given
<1>7. CASE Read
  <2>1. UNCHANGED <<alive, acked, handler, tpc, events>> /\ pos' = pos + 1 /\ session
        /\ delivered' = delivered \cup {events[pos + 1]}
    BY <1>7 DEF Read, taskVars, feederVars
  <2>2. \A i \in 1 .. pos' : i \in 1 .. pos \/ i = pos + 1
    BY <2>1, <1>t
  <2> QED BY <1>g, <2>1, <2>2 DEF Given
<1>8. CASE Disconnect
  BY <1>8, <1>g DEF Disconnect, Given, taskVars, feederVars, history
<1>9. ASSUME NEW n \in 1 .. MaxEvents + OverAck, FailoverAck(n) PROVE Given'
  <2>1. n \in Nat /\ AckEvents(n) /\ session
        /\ UNCHANGED <<alive, session, delivered, handler, tpc>>
    BY <1>9, MuxerAssumption DEF FailoverAck, taskVars, feederVars
  <2>2. /\ acked' = acked \cup {events[i] : i \in 1 .. Popped(n)}
        /\ Popped(n) \in 0 .. pos /\ pos' = pos - Popped(n)
        /\ \A i \in 1 .. pos' : events'[i] = events[i + Popped(n)]
    BY <2>1, AckFacts
  <2>3. acked' \subseteq delivered
    <3>1. \A i \in 1 .. Popped(n) : i \in 1 .. pos
      BY <2>2, <1>t
    <3> QED BY <1>g, <2>1, <2>2, <3>1
  <2>4. \A i \in 1 .. pos' : i + Popped(n) \in 1 .. pos
    BY <2>2, <1>t
  <2> QED BY <1>g, <2>1, <2>2, <2>3, <2>4 DEF Given
<1>10. ASSUME SetHandler \/ ClearHandler PROVE FALSE
  BY <1>10, <1>g DEF SetHandler, ClearHandler
<1>11. ASSUME NEW s \in Slots, TaskTake(s) PROVE Quiet
  BY <1>11, <1>g, <1>t DEF TaskTake, Quiet, queueVars, feederVars, clientVars, history
<1>12. ASSUME NEW s \in Slots,
              \/ TaskSize(s) \/ TaskRead(s) \/ TaskAck(s) \/ TaskFinish(s)
              \/ \E n \in 0 .. MaxEvents : TaskOnEvents(s, n)
       PROVE  FALSE
  BY <1>12, <1>g DEF TaskSize, TaskRead, TaskAck, TaskFinish, TaskOnEvents
<1>13. CASE Destroy \/ Crash
  <2>1. Gone /\ UNCHANGED <<acked, delivered>>
    BY <1>13 DEF Destroy, Crash
  <2>2. handler' = FALSE /\ session' = FALSE /\ \A s \in Slots : tpc'[s] = "none"
    BY <2>1 DEF Gone
  <2> QED BY <1>g, <2>1, <2>2 DEF Given
<1>14. CASE Create
  <2>1. UNCHANGED <<acked, delivered, handler, tpc, session>> /\ ~alive
    BY <1>14 DEF Create, taskVars, feederVars, clientVars, history
  <2> QED BY <1>g, <2>1 DEF Given
<1>15. ASSUME UNCHANGED vars PROVE Quiet
  BY <1>15, <1>g DEF vars, Quiet, taskVars, queueVars, feederVars, clientVars, history
<1> QED
  BY <1>q, <1>1, <1>2, <1>3, <1>4, <1>5, <1>6, <1>7, <1>8, <1>9, <1>10, <1>11, <1>12,
     <1>13, <1>14, <1>15
  DEF Next, Publish

\* With a failover, whatever it acknowledges and however often it reconnects,
\* crashes and restarts included, no event is forgotten that was not given to
\* its stream: nack_events() at the start of each connection is what makes the
\* position found in a reloaded queue harmless.
THEOREM AckedWereDeliveredHolds ==
  ASSUME ~Feeder
  PROVE  Spec => []AckedWereDelivered
<1>1. Init => TypeOK /\ Given
  BY InitTypeOK DEF Init, Given
<1>2. TypeOK /\ Given /\ [Next]_vars => (TypeOK /\ Given)'
  BY NextTypeOK, NextGiven
<1>3. Given => AckedWereDelivered
  BY DEF Given, AckedWereDelivered
<1> QED BY <1>1, <1>2, <1>3, PTL DEF Spec

-----------------------------------------------------------------------------
(* No event is held twice *)

\* No event occurs twice in a sequence.
Distinct(s) == \A i, j \in DOMAIN s : i # j => s[i] # s[j]

Disjoint(S, T) == S \cap T = {}

\* What a concatenation is, index by index.
LEMMA ConcatFacts ==
  ASSUME NEW S, NEW s \in Seq(S), NEW t \in Seq(S)
  PROVE  /\ s \o t \in Seq(S) /\ DOMAIN s = 1 .. Len(s) /\ DOMAIN t = 1 .. Len(t)
         /\ DOMAIN (s \o t) = 1 .. Len(s) + Len(t) /\ Len(s) \in Nat /\ Len(t) \in Nat
         /\ \A i \in 1 .. Len(s) : (s \o t)[i] = s[i]
         /\ \A i \in 1 .. Len(t) : (s \o t)[i + Len(s)] = t[i]
<1>1. s \o t \in Seq(S) /\ Len(s \o t) = Len(s) + Len(t)
      /\ \A i \in 1 .. Len(s) + Len(t) :
           (s \o t)[i] = IF i <= Len(s) THEN s[i] ELSE t[i - Len(s)]
  BY ConcatProperties
<1>2. DOMAIN (s \o t) = 1 .. Len(s) + Len(t) /\ DOMAIN s = 1 .. Len(s)
      /\ DOMAIN t = 1 .. Len(t) /\ Len(s) \in Nat /\ Len(t) \in Nat
  BY <1>1
<1>3. ASSUME NEW i \in 1 .. Len(s) PROVE (s \o t)[i] = s[i]
  BY <1>1, <1>2
<1>4. ASSUME NEW i \in 1 .. Len(t) PROVE (s \o t)[i + Len(s)] = t[i]
  <2>1. i + Len(s) \in 1 .. Len(s) + Len(t) /\ ~(i + Len(s) <= Len(s))
        /\ i + Len(s) - Len(s) = i
    BY <1>2
  <2> QED BY <1>1, <2>1
<1> QED BY <1>1, <1>2, <1>3, <1>4

\* Nothing occurs twice in a concatenation when nothing does in its parts and
\* they have nothing in common.
LEMMA DistinctConcat ==
  ASSUME NEW S, NEW s \in Seq(S), NEW t \in Seq(S), Distinct(s), Distinct(t),
         Disjoint(Elems(s), Elems(t))
  PROVE  Distinct(s \o t)
<1> DEFINE u == s \o t
<1>1. /\ DOMAIN s = 1 .. Len(s) /\ DOMAIN t = 1 .. Len(t)
      /\ DOMAIN u = 1 .. Len(s) + Len(t) /\ Len(s) \in Nat /\ Len(t) \in Nat
      /\ \A i \in 1 .. Len(s) : u[i] = s[i]
      /\ \A i \in 1 .. Len(t) : u[i + Len(s)] = t[i]
  BY ConcatFacts
<1> HIDE DEF u
<1>2. ASSUME NEW i \in DOMAIN u
      PROVE  \/ i \in DOMAIN s /\ u[i] = s[i]
             \/ i - Len(s) \in DOMAIN t /\ u[i] = t[i - Len(s)]
  <2>1. CASE i <= Len(s)
    BY <1>1, <2>1
  <2>2. CASE ~(i <= Len(s))
    <3>1. i - Len(s) \in 1 .. Len(t) /\ (i - Len(s)) + Len(s) = i
      BY <1>1, <2>2
    <3> QED BY <1>1, <3>1
  <2> QED BY <2>1, <2>2
<1>3. \A i \in DOMAIN s, j \in DOMAIN t : s[i] # t[j]
  BY DEF Disjoint, Elems
<1>4. ASSUME NEW i \in DOMAIN u, NEW j \in DOMAIN u, i # j PROVE u[i] # u[j]
  <2>1. i \in Nat /\ j \in Nat /\ Len(s) \in Nat
    BY <1>1
  <2>2. i - Len(s) # j - Len(s)
    BY <1>4, <2>1
  <2> QED BY <1>2, <1>3, <1>4, <2>2 DEF Distinct
<1> QED BY <1>4 DEF Distinct, u

\* And the parts of a sequence in which nothing occurs twice.
LEMMA DistinctParts ==
  ASSUME NEW S, NEW s \in Seq(S), NEW t \in Seq(S), Distinct(s \o t)
  PROVE  Distinct(s) /\ Distinct(t) /\ Disjoint(Elems(s), Elems(t))
<1> DEFINE u == s \o t
<1>1. /\ DOMAIN s = 1 .. Len(s) /\ DOMAIN t = 1 .. Len(t)
      /\ DOMAIN u = 1 .. Len(s) + Len(t) /\ Len(s) \in Nat /\ Len(t) \in Nat
      /\ \A i \in 1 .. Len(s) : u[i] = s[i]
      /\ \A i \in 1 .. Len(t) : u[i + Len(s)] = t[i]
  BY ConcatFacts
<1>u. Distinct(u)
  OBVIOUS
<1> HIDE DEF u
<1>2. Distinct(s)
  BY <1>1, <1>u DEF Distinct
<1>3. ASSUME NEW i \in DOMAIN t, NEW j \in DOMAIN t, i # j PROVE t[i] # t[j]
  <2>1. i + Len(s) \in DOMAIN u /\ j + Len(s) \in DOMAIN u /\ i + Len(s) # j + Len(s)
    BY <1>1, <1>3
  <2>2. u[i + Len(s)] # u[j + Len(s)]
    BY <1>u, <2>1 DEF Distinct
  <2> QED BY <1>1, <2>2
<1>4. ASSUME NEW i \in DOMAIN s, NEW j \in DOMAIN t PROVE s[i] # t[j]
  <2>1. i \in DOMAIN u /\ j + Len(s) \in DOMAIN u /\ i # j + Len(s)
    BY <1>1
  <2>2. u[i] # u[j + Len(s)]
    BY <1>u, <2>1 DEF Distinct
  <2> QED BY <1>1, <2>2
<1>5. Disjoint(Elems(s), Elems(t))
  BY <1>4 DEF Disjoint, Elems
<1> QED BY <1>2, <1>3, <1>5 DEF Distinct

\* Two slices that follow each other are one slice.
LEMMA SliceSplit ==
  ASSUME NEW S, NEW s \in Seq(S), NEW a \in Nat, NEW b \in Nat, NEW c \in 0 .. Len(s),
         a <= b, b <= c
  PROVE  SubSeq(s, a + 1, c) = SubSeq(s, a + 1, b) \o SubSeq(s, b + 1, c)
<1> DEFINE l == SubSeq(s, a + 1, b)
           r == SubSeq(s, b + 1, c)
           u == SubSeq(s, a + 1, c)
<1>0. Len(s) \in Nat
  OBVIOUS
<1>1. /\ l \in Seq(S) /\ Len(l) = b - a
      /\ \A i \in 1 .. b - a : l[i] = s[a + i]
  <2>1. a + 1 \in Nat \ {0} /\ b \in 0 .. Len(s) /\ a + 1 <= b + 1
    BY <1>0
  <2>2. /\ l \in Seq(S) /\ Len(l) = b - (a + 1) + 1
        /\ \A i \in 1 .. b - (a + 1) + 1 : l[i] = s[(a + 1) + i - 1]
    BY <2>1, SliceFacts
  <2> QED BY <2>1, <2>2
<1>2. /\ r \in Seq(S) /\ Len(r) = c - b
      /\ \A i \in 1 .. c - b : r[i] = s[b + i]
  <2>1. b + 1 \in Nat \ {0} /\ c \in 0 .. Len(s) /\ b + 1 <= c + 1
    BY <1>0
  <2>2. /\ r \in Seq(S) /\ Len(r) = c - (b + 1) + 1
        /\ \A i \in 1 .. c - (b + 1) + 1 : r[i] = s[(b + 1) + i - 1]
    BY <2>1, SliceFacts
  <2> QED BY <2>1, <2>2
<1>3. /\ u \in Seq(S) /\ Len(u) = c - a
      /\ \A i \in 1 .. c - a : u[i] = s[a + i]
  <2>1. a + 1 \in Nat \ {0} /\ c \in 0 .. Len(s) /\ a + 1 <= c + 1
    BY <1>0
  <2>2. /\ u \in Seq(S) /\ Len(u) = c - (a + 1) + 1
        /\ \A i \in 1 .. c - (a + 1) + 1 : u[i] = s[(a + 1) + i - 1]
    BY <2>1, SliceFacts
  <2> QED BY <2>1, <2>2
<1> HIDE DEF l, r, u
<1>4. /\ l \o r \in Seq(S) /\ Len(l) \in Nat /\ Len(r) \in Nat
      /\ \A i \in 1 .. Len(l) : (l \o r)[i] = l[i]
      /\ \A i \in 1 .. Len(r) : (l \o r)[i + Len(l)] = r[i]
      /\ Len(l \o r) = Len(l) + Len(r)
  <2>1. l \in Seq(S) /\ r \in Seq(S)
    BY <1>1, <1>2
  <2>2. Len(l \o r) = Len(l) + Len(r)
    BY <2>1, ConcatProperties
  <2> QED BY <2>1, <2>2, ConcatFacts
<1>5. Len(l) + Len(r) = Len(u) /\ Len(l) = b - a /\ Len(r) = c - b
  BY <1>0, <1>1, <1>2, <1>3
<1>6. ASSUME NEW i \in 1 .. Len(u) PROVE (l \o r)[i] = u[i]
  <2>1. CASE i <= Len(l)
    <3>1. i \in 1 .. Len(l) /\ i \in 1 .. b - a /\ i \in 1 .. c - a
      BY <1>0, <1>3, <1>4, <1>5, <2>1
    <3> QED BY <1>1, <1>3, <1>4, <3>1
  <2>2. CASE ~(i <= Len(l))
    <3> DEFINE k == i - Len(l)
    <3>1. k \in 1 .. Len(r) /\ k \in 1 .. c - b /\ i \in 1 .. c - a
          /\ k + Len(l) = i /\ b + k = a + i
      BY <1>0, <1>3, <1>4, <1>5, <2>2
    <3> HIDE DEF k
    <3>2. (l \o r)[k + Len(l)] = r[k] /\ r[k] = s[b + k] /\ u[i] = s[a + i]
      BY <1>2, <1>3, <1>4, <3>1
    <3> QED BY <3>1, <3>2
  <2> QED BY <2>1, <2>2
<1>7. l \o r = u
  BY <1>3, <1>4, <1>5, <1>6, SeqEqual
<1> QED BY <1>7 DEF l, r, u

\* What follows the first r elements.
LEMMA SuffixFacts ==
  ASSUME NEW S, NEW s \in Seq(S), NEW r \in 0 .. Len(s)
  PROVE  LET t == SubSeq(s, r + 1, Len(s))
         IN  /\ t \in Seq(S) /\ Len(t) = Len(s) - r
             /\ \A i \in 1 .. Len(s) - r : t[i] = s[r + i]
<1>0. Len(s) \in Nat
  OBVIOUS
<1>1. r + 1 \in Nat \ {0} /\ r + 1 <= Len(s) + 1 /\ Len(s) \in 0 .. Len(s)
  BY <1>0
<1> DEFINE t == SubSeq(s, r + 1, Len(s))
<1>2. /\ t \in Seq(S) /\ Len(t) = Len(s) - (r + 1) + 1
      /\ \A i \in 1 .. Len(s) - (r + 1) + 1 : t[i] = s[(r + 1) + i - 1]
  BY <1>1, SliceFacts
<1> QED BY <1>0, <1>2

\* Reading from the retention file takes a first part of what is unread.
LEMMA TakeSplit ==
  ASSUME NEW S, FileTypeOK(S), NEW n \in Nat, FileTake(n)
  PROVE  Taken(n) \in Seq(S) /\ Unread' \in Seq(S) /\ Unread = Taken(n) \o Unread'
<1> DEFINE k == TakenCount(n)
<1>1. disk \in Seq(S) /\ Len(disk) \in Nat /\ rd \in 0 .. Len(disk)
  BY DEF FileTypeOK
<1>2. k \in Nat /\ rd + k \in 0 .. Len(disk)
  BY <1>1 DEF TakenCount
<1>3. Taken(n) \in Seq(S) /\ FileTypeOK(S)'
  BY TakeFacts
<1>4. Unread = Taken(n) \o SubSeq(disk, rd + k + 1, Len(disk))
  <2>1. rd \in Nat /\ rd + k \in Nat /\ Len(disk) \in 0 .. Len(disk)
        /\ rd <= rd + k /\ rd + k <= Len(disk)
    BY <1>1, <1>2
  <2> HIDE DEF k
  <2>2. SubSeq(disk, rd + 1, Len(disk))
          = SubSeq(disk, rd + 1, rd + k) \o SubSeq(disk, (rd + k) + 1, Len(disk))
    BY <1>1, <2>1, SliceSplit
  <2> QED BY <2>2 DEF Unread, Taken, k
<1>5. Unread' \in Seq(S)
  <2>1. /\ disk' \in Seq(S) /\ rd' \in 0 .. Len(disk') /\ Len(disk') \in Nat
    BY <1>3 DEF FileTypeOK
  <2>2. SubSeq(disk', rd' + 1, Len(disk')) \in Seq(S)
    BY <2>1, SuffixFacts
  <2> QED BY <2>2 DEF Unread
<1>6. SubSeq(disk, rd + k + 1, Len(disk)) = Unread'
  <2>1. CASE ~fileOpen
    <3>1. k = 0 /\ disk' = disk /\ rd' = rd
      BY <2>1 DEF FileTake, TakenCount, fileVars
    <3>2. rd + k + 1 = rd' + 1
      BY <1>1, <3>1
    <3> QED BY <3>1, <3>2 DEF Unread
  <2>2. CASE fileOpen /\ Len(disk) - rd < n
    <3>1. k = Len(disk) - rd /\ disk' = <<>> /\ rd' = 0
      BY <2>2 DEF FileTake, TakenCount
    <3> DEFINE l == SubSeq(disk, rd + k + 1, Len(disk))
    <3>2. rd + k + 1 = Len(disk) + 1
      BY <1>1, <3>1
    <3>3. Len(disk) + 1 \in Nat \ {0} /\ Len(disk) \in 0 .. Len(disk)
          /\ Len(disk) + 1 <= Len(disk) + 1 /\ Len(disk) - (Len(disk) + 1) + 1 = 0
      BY <1>1
    <3>4. l \in Seq(S) /\ Len(l) = 0
      BY <1>1, <3>2, <3>3, SliceFacts
    <3>5. l = <<>>
      BY <3>4, EmptySeq
    <3>6. Unread' = SubSeq(<<>>, 0 + 1, Len(<<>>))
      BY <3>1 DEF Unread
    <3>7. <<>> \in Seq(S) /\ Len(<<>>) = 0
      BY EmptySeq
    <3>8. SubSeq(<<>>, 1, 0) \in Seq(S) /\ Len(SubSeq(<<>>, 1, 0)) = 0
      BY <3>7, SliceFacts
    <3>9. Unread' = <<>>
      BY <3>6, <3>7, <3>8, EmptySeq
    <3> QED BY <3>5, <3>9
  <2>3. CASE fileOpen /\ ~(Len(disk) - rd < n)
    <3>1. PICK d \in Erasable(n) : /\ disk' = SubSeq(disk, d + 1, Len(disk))
                                   /\ rd' = rd + n - d
      BY <2>3 DEF FileTake
    <3>2. k = n /\ d \in 0 .. rd + n /\ d <= Len(disk) /\ rd + n <= Len(disk)
      BY <1>1, <2>3 DEF TakenCount, Erasable
    <3> HIDE DEF k
    <3>3. /\ disk' \in Seq(S) /\ Len(disk') = Len(disk) - d
          /\ \A i \in 1 .. Len(disk) - d : disk'[i] = disk[d + i]
      <4>1. d + 1 \in Nat \ {0} /\ d + 1 <= Len(disk) + 1 /\ Len(disk) \in 0 .. Len(disk)
        BY <1>1, <3>2
      <4> QED BY <1>1, <3>1, <3>2, <4>1, SliceFacts
    <3> DEFINE l == SubSeq(disk, rd + n + 1, Len(disk))
               r == SubSeq(disk', rd' + 1, Len(disk'))
    <3>4. /\ l \in Seq(S) /\ Len(l) = Len(disk) - (rd + n)
          /\ \A i \in 1 .. Len(disk) - (rd + n) : l[i] = disk[rd + n + i]
      <4>1. rd + n + 1 \in Nat \ {0} /\ rd + n + 1 <= Len(disk) + 1
            /\ Len(disk) \in 0 .. Len(disk)
        BY <1>1, <3>2
      <4>2. /\ l \in Seq(S) /\ Len(l) = Len(disk) - (rd + n + 1) + 1
            /\ \A i \in 1 .. Len(disk) - (rd + n + 1) + 1 : l[i] = disk[(rd + n + 1) + i - 1]
        BY <1>1, <4>1, SliceFacts
      <4> QED BY <1>1, <3>2, <4>2
    <3>5. /\ r \in Seq(S) /\ Len(r) = Len(disk') - rd'
          /\ \A i \in 1 .. Len(disk') - rd' : r[i] = disk'[rd' + i]
      <4>1. rd' \in 0 .. Len(disk')
        BY <1>3 DEF FileTypeOK
      <4> QED BY <3>3, <4>1, SuffixFacts
    <3> HIDE DEF l, r
    <3>6. Len(disk') - rd' = Len(disk) - (rd + n)
      BY <1>1, <3>1, <3>2, <3>3
    <3>7. ASSUME NEW i \in 1 .. Len(disk) - (rd + n) PROVE l[i] = r[i]
      <4>1. rd' + i \in 1 .. Len(disk) - d /\ d + (rd' + i) = rd + n + i
        BY <1>1, <3>1, <3>2
      <4>2. r[i] = disk'[rd' + i] /\ disk'[rd' + i] = disk[d + (rd' + i)]
        BY <3>3, <3>5, <3>6, <4>1
      <4> QED BY <3>4, <4>1, <4>2
    <3>8. l = r
      BY <3>4, <3>5, <3>6, <3>7, SeqEqual
    <3>9. rd + k + 1 = rd + n + 1
      BY <3>2
    <3> QED BY <3>8, <3>9 DEF l, r, Unread
  <2> QED BY <2>1, <2>2, <2>3
<1> QED BY <1>3, <1>4, <1>5, <1>6

\* Nothing was lost or reloaded so far.
Intact == alive /\ restarts = 0 /\ failures = 0

\* The places that hold events have none in common, hold none twice and none
\* that was acknowledged; and they hold nothing that is still to be published.
Single(q, u, b, a, n) ==
  /\ Distinct(q) /\ Distinct(u) /\ Distinct(b)
  /\ Disjoint(Elems(q), Elems(u)) /\ Disjoint(Elems(q), Elems(b))
  /\ Disjoint(Elems(u), Elems(b))
  /\ Disjoint(a, Elems(q) \cup Elems(u) \cup Elems(b))
  /\ Elems(q) \cup Elems(u) \cup Elems(b) \cup a \subseteq 1 .. n

EachOnce == Intact => Single(events, Unread, todo, acked, next)

\* The head of a sequence in which nothing occurs twice.
LEMMA DistinctTail ==
  ASSUME NEW S, NEW s \in Seq(S), s # <<>>, Distinct(s)
  PROVE  Distinct(Tail(s)) /\ Head(s) \notin Elems(Tail(s))
<1>1. Tail(s) \in Seq(S) /\ Len(Tail(s)) = Len(s) - 1 /\ Len(s) \in Nat \ {0}
      /\ Head(s) = s[1] /\ \A i \in 1 .. Len(s) - 1 : Tail(s)[i] = s[i + 1]
  BY HeadTailProperties, EmptySeq
<1> DEFINE t == Tail(s)
<1>2. DOMAIN s = 1 .. Len(s) /\ DOMAIN t = 1 .. Len(s) - 1
  BY <1>1
<1>3. \A i \in DOMAIN t : i + 1 \in DOMAIN s /\ i + 1 # 1 /\ t[i] = s[i + 1]
  BY <1>1, <1>2
<1>4. 1 \in DOMAIN s /\ \A i, j \in DOMAIN t : i # j => i + 1 # j + 1
  BY <1>1, <1>2
<1> HIDE DEF t
<1>5. Distinct(t)
  BY <1>3, <1>4 DEF Distinct
<1>6. \A i \in DOMAIN t : t[i] # s[1]
  BY <1>3, <1>4 DEF Distinct
<1> QED BY <1>1, <1>5, <1>6 DEF Elems, t

\* Another event is appended.
LEMMA DistinctAppend ==
  ASSUME NEW S, NEW s \in Seq(S), NEW e \in S, Distinct(s), e \notin Elems(s)
  PROVE  Distinct(Append(s, e))
<1> DEFINE t == Append(s, e)
<1>1. /\ t \in Seq(S) /\ Len(t) = Len(s) + 1 /\ Len(s) \in Nat
      /\ \A i \in 1 .. Len(s) : t[i] = s[i]
      /\ t[Len(s) + 1] = e
  BY AppendProperties
<1> HIDE DEF t
<1>2. DOMAIN t = 1 .. Len(s) + 1 /\ DOMAIN s = 1 .. Len(s)
  BY <1>1
<1>3. \A i \in DOMAIN t : (i = Len(s) + 1 /\ t[i] = e) \/ (i \in DOMAIN s /\ t[i] = s[i])
  <2>1. \A i \in DOMAIN t : i = Len(s) + 1 \/ i \in DOMAIN s
    BY <1>1, <1>2
  <2> QED BY <1>1, <1>2, <2>1
<1>4. \A i \in DOMAIN s : s[i] # e
  BY DEF Elems
<1> QED BY <1>3, <1>4 DEF Distinct, t

\* Writing to the retention file appends to what is unread.
LEMMA WriteUnread ==
  ASSUME NEW S, FileTypeOK(S), NEW e \in S, FileWrite(e)
  PROVE  Unread \in Seq(S) /\ Unread' = Append(Unread, e)
<1>1. disk \in Seq(S) /\ rd \in 0 .. Len(disk) /\ Len(disk) \in Nat
  BY DEF FileTypeOK
<1>2. disk' = Append(disk, e) /\ rd' = rd
  BY DEF FileWrite
<1> DEFINE d == Append(disk, e)
           u == SubSeq(disk, rd + 1, Len(disk))
           v == SubSeq(d, rd + 1, Len(d))
           w == Append(u, e)
<1>3. d \in Seq(S) /\ Len(d) = Len(disk) + 1 /\ d[Len(disk) + 1] = e
      /\ \A i \in 1 .. Len(disk) : d[i] = disk[i]
  BY <1>1, AppendProperties
<1>4. /\ u \in Seq(S) /\ Len(u) = Len(disk) - rd
      /\ \A i \in 1 .. Len(disk) - rd : u[i] = disk[rd + i]
  BY <1>1, SuffixFacts
<1> HIDE DEF d
<1>5. /\ v \in Seq(S) /\ Len(v) = Len(d) - rd
      /\ \A i \in 1 .. Len(d) - rd : v[i] = d[rd + i]
  <2>1. rd \in 0 .. Len(d)
    BY <1>1, <1>3
  <2> QED BY <1>3, <2>1, SuffixFacts
<1> HIDE DEF u, v
<1>6. w \in Seq(S) /\ Len(w) = Len(u) + 1 /\ w[Len(u) + 1] = e
      /\ \A i \in 1 .. Len(u) : w[i] = u[i]
  BY <1>4, AppendProperties
<1> HIDE DEF w
<1>7. Len(v) = Len(w)
  BY <1>1, <1>3, <1>4, <1>5, <1>6
<1>8. ASSUME NEW i \in 1 .. Len(v) PROVE v[i] = w[i]
  <2>1. v[i] = d[rd + i]
    BY <1>5
  <2>2. CASE i <= Len(u)
    <3>1. i \in 1 .. Len(u) /\ i \in 1 .. Len(disk) - rd /\ rd + i \in 1 .. Len(disk)
      BY <1>1, <1>4, <2>2
    <3> QED BY <1>3, <1>4, <1>6, <2>1, <3>1
  <2>3. CASE ~(i <= Len(u))
    <3>1. i = Len(u) + 1 /\ rd + i = Len(disk) + 1
      BY <1>1, <1>3, <1>4, <1>5, <2>3
    <3> QED BY <1>3, <1>6, <2>1, <3>1
  <2> QED BY <2>2, <2>3
<1>9. v = w
  BY <1>5, <1>6, <1>7, <1>8, SeqEqual
<1> QED BY <1>2, <1>4, <1>9 DEF Unread, d, u, v, w

\* Every step keeps EachOnce, or gives up Intact.
LEMMA NextEachOnce ==
  ASSUME TypeOK, TypeOK', Lifecycle, EachOnce, [Next]_vars
  PROVE  EachOnce'
<1> SUFFICES ASSUME Intact' PROVE Single(events', Unread', todo', acked', next')
  BY DEF EachOnce
<1>t. FileTypeOK(Event) /\ events \in Seq(Event) /\ todo \in Seq(Event) /\ next \in Nat
      /\ restarts \in Nat /\ failures \in Nat /\ pos \in 0 .. Len(events)
  BY DEF TypeOK
<1>u. Unread \in Seq(Event)
  <2>1. disk \in Seq(Event) /\ rd \in 0 .. Len(disk)
    BY <1>t DEF FileTypeOK
  <2> QED BY <2>1, SuffixFacts DEF Unread
<1>o. ASSUME Intact PROVE Single(events, Unread, todo, acked, next)
  BY <1>o DEF EachOnce
<1>1. CASE Still
  <2>1. Intact /\ UNCHANGED <<events, Unread, todo, acked, next>>
    BY <1>1 DEF Still, Intact, Unread, fileVars
  <2> QED BY <1>o, <2>1
<1>2. ASSUME NEW n \in 1 .. MaxBatch, PublishCall(n)
      PROVE  Single(events', Unread', todo', acked', next')
  <2>1. Intact /\ UNCHANGED <<events, Unread, acked>>
    BY <1>2 DEF PublishCall, Intact, Unread, fileVars, queueVars, history, bounds
  <2>2. todo' = [i \in 1 .. n |-> next + i] /\ next' = next + n
    BY <1>2 DEF PublishCall
  <2> DEFINE b == [i \in 1 .. n |-> next + i]
  <2>3. n \in Nat /\ DOMAIN b = 1 .. n /\ \A i \in 1 .. n : b[i] = next + i
    OBVIOUS
  <2> HIDE DEF b
  <2>4. Distinct(b)
    BY <1>t, <2>3 DEF Distinct
  <2>5. \A e \in Elems(b) : e \in next + 1 .. next + n
    BY <1>t, <2>3 DEF Elems
  <2>6. Disjoint(1 .. next, Elems(b)) /\ Elems(b) \subseteq 1 .. next + n
        /\ 1 .. next \subseteq 1 .. next + n
    BY <1>t, <2>3, <2>5 DEF Disjoint
  <2>7. Single(events, Unread, b, acked, next + n)
    BY <1>o, <2>1, <2>4, <2>6 DEF Single, Disjoint
  <2> QED BY <2>1, <2>2, <2>7 DEF b
<1>h. ASSUME todo # <<>>, Intact
      PROVE  /\ Head(todo) \in Event /\ Tail(todo) \in Seq(Event)
             /\ Distinct(Tail(todo)) /\ Head(todo) \notin Elems(Tail(todo))
             /\ Elems(todo) = {Head(todo)} \cup Elems(Tail(todo))
  <2>1. Distinct(todo)
    BY <1>h, <1>o DEF Single
  <2> QED BY <1>h, <1>t, <2>1, DistinctTail, ElemsHeadTail
<1>3. CASE PublishPush
  <2>1. Intact /\ todo # <<>> /\ todo' = Tail(todo) /\ UNCHANGED <<Unread, acked, next>>
    BY <1>3 DEF PublishPush, Intact, Unread, fileVars, history, bounds
  <2>2. CASE Head(todo) \in Rejected
    <3>1. events' = events
      BY <1>3, <2>2 DEF PublishPush
    <3> QED BY <1>o, <1>h, <2>1, <3>1 DEF Single, Disjoint
  <2>3. CASE Head(todo) \notin Rejected
    <3> DEFINE e == Head(todo)
               q == Append(events, e)
    <3>1. events' = q
      BY <1>3, <2>3 DEF PublishPush, PushToQueue
    <3>2. e \in Event /\ e \in Elems(todo) /\ Distinct(events) /\ e \notin Elems(events)
      BY <1>o, <1>h, <2>1 DEF Single, Disjoint
    <3>3. Distinct(q) /\ Elems(q) = Elems(events) \cup {e}
      BY <1>t, <3>2, DistinctAppend, ElemsAppend
    <3> HIDE DEF e, q
    <3>4. Single(q, Unread, Tail(todo), acked, next)
      BY <1>o, <1>h, <2>1, <3>2, <3>3 DEF Single, Disjoint, e
    <3> QED BY <2>1, <3>1, <3>4
  <2> QED BY <2>2, <2>3
<1>4. CASE PublishSpill
  <2>1. Intact /\ todo # <<>> /\ todo' = Tail(todo) /\ UNCHANGED <<events, acked, next>>
    BY <1>4 DEF PublishSpill, Intact, queueVars, history, bounds
  <2>2. CASE Head(todo) \in Rejected
    <3>1. Unread' = Unread
      BY <1>4, <2>2 DEF PublishSpill, Unread, fileVars
    <3> QED BY <1>o, <1>h, <2>1, <3>1 DEF Single, Disjoint
  <2>3. CASE Head(todo) \notin Rejected
    <3> DEFINE e == Head(todo)
               u == Append(Unread, e)
    <3>0. e \in Event /\ FileWrite(e)
      BY <1>4, <1>h, <2>1, <2>3 DEF PublishSpill
    <3>1. Unread' = u
      BY <1>t, <3>0, WriteUnread
    <3>2. e \in Elems(todo) /\ Distinct(Unread) /\ e \notin Elems(Unread)
      BY <1>o, <1>h, <2>1 DEF Single, Disjoint
    <3>3. Distinct(u) /\ Elems(u) = Elems(Unread) \cup {e}
      BY <1>u, <3>0, <3>2, DistinctAppend, ElemsAppend
    <3> HIDE DEF e, u
    <3>4. Single(events, u, Tail(todo), acked, next)
      BY <1>o, <1>h, <2>1, <3>2, <3>3 DEF Single, Disjoint, e
    <3> QED BY <2>1, <3>1, <3>4
  <2> QED BY <2>2, <2>3
<1>5. ASSUME NEW count \in Nat, Acking(count)
      PROVE  Single(events', Unread', todo', acked', next')
  <2> DEFINE n == Popped(count)
             room == Room(Len(events) - n)
             old == SubSeq(events, 1, n)
             rest == SubSeq(events, n + 1, Len(events))
             got == Taken(room)
             left == Unread'
  <2>1. Intact /\ UNCHANGED <<todo, next>> /\ AckEvents(count)
    BY <1>5 DEF Acking, Intact
  <2>2. /\ events' = rest \o got /\ acked' = acked \cup Elems(old) /\ FileTake(room)
    BY <2>1 DEF AckEvents
  <2>3. Len(events) \in Nat /\ n \in 0 .. Len(events)
    BY <1>t DEF Popped
  <2>4. room \in Nat
    BY <2>3, MuxerAssumption DEF Room
  <2> HIDE DEF n, room
  <2>5. got \in Seq(Event) /\ left \in Seq(Event) /\ Unread = got \o left
    BY <1>t, <2>2, <2>4, TakeSplit
  <2>6. events = old \o rest /\ old \in Seq(Event) /\ rest \in Seq(Event)
    <3>1. Len(events) \in 0 .. Len(events) /\ 0 <= n /\ n <= Len(events) /\ n \in Nat
      BY <2>3
    <3>2. SubSeq(events, 1, Len(events))
            = SubSeq(events, 1, n) \o SubSeq(events, n + 1, Len(events))
      <4> DEFINE z == 0
      <4>1. z \in Nat /\ z + 1 = 1 /\ z <= n
        BY <3>1
      <4> HIDE DEF z
      <4>2. SubSeq(events, z + 1, Len(events))
              = SubSeq(events, z + 1, n) \o SubSeq(events, n + 1, Len(events))
        BY <1>t, <3>1, <4>1, SliceSplit
      <4> QED BY <4>1, <4>2
    <3>3. old \in Seq(Event) /\ rest \in Seq(Event)
      BY <1>t, <2>3, <3>1, SliceFacts, SuffixFacts
    <3>4. SubSeq(events, 1, Len(events)) = events
      <4> DEFINE w == SubSeq(events, 0 + 1, Len(events))
      <4>1. 0 \in 0 .. Len(events) /\ Len(events) - 0 = Len(events)
        BY <2>3
      <4>2. w \in Seq(Event) /\ Len(w) = Len(events) - 0
            /\ \A i \in 1 .. Len(events) - 0 : w[i] = events[0 + i]
        BY <1>t, <4>1, SuffixFacts
      <4> HIDE DEF w
      <4>3. Len(w) = Len(events) /\ \A i \in 1 .. Len(w) : w[i] = events[i]
        BY <2>3, <4>1, <4>2
      <4>4. w = events
        BY <1>t, <4>2, <4>3, SeqEqual
      <4> QED BY <4>4 DEF w
    <3>5. events = old \o rest
      BY <3>2, <3>4
    <3> QED BY <3>3, <3>5
  <2> HIDE DEF old, rest, got, left
  <2>7. /\ Distinct(old) /\ Distinct(rest) /\ Disjoint(Elems(old), Elems(rest))
        /\ Elems(events) = Elems(old) \cup Elems(rest)
    <3>1. Distinct(old \o rest)
      BY <1>o, <2>1, <2>6 DEF Single
    <3> QED BY <2>6, <3>1, DistinctParts, ElemsConcat
  <2>8. /\ Distinct(got) /\ Distinct(left) /\ Disjoint(Elems(got), Elems(left))
        /\ Elems(Unread) = Elems(got) \cup Elems(left)
    <3>1. Distinct(got \o left)
      BY <1>o, <2>1, <2>5 DEF Single
    <3> QED BY <2>5, <3>1, DistinctParts, ElemsConcat
  <2>9. Distinct(rest \o got) /\ Elems(rest \o got) = Elems(rest) \cup Elems(got)
    <3>1. Disjoint(Elems(rest), Elems(got))
      BY <1>o, <2>1, <2>7, <2>8 DEF Single, Disjoint
    <3> QED BY <2>5, <2>6, <2>7, <2>8, <3>1, DistinctConcat, ElemsConcat
  <2> DEFINE q == rest \o got
             a == acked \cup Elems(old)
  <2>10. Single(q, left, todo, a, next)
    <3>1. Elems(q) = Elems(rest) \cup Elems(got) /\ Distinct(q) /\ Distinct(left)
      BY <2>8, <2>9
    <3> HIDE DEF q
    <3> QED BY <1>o, <2>1, <2>7, <2>8, <3>1 DEF Single, Disjoint
  <2> QED BY <2>1, <2>2, <2>10 DEF left
<1>6. ASSUME PublishWriteFails \/ PublishOpenFails PROVE FALSE
  <2>1. failures' = failures + 1 /\ failures' = 0
    BY <1>6 DEF PublishWriteFails, PublishOpenFails, Intact
  <2> QED BY <1>t, <2>1
<1>7. ASSUME Destroy \/ Crash PROVE FALSE
  BY <1>7 DEF Destroy, Crash, Gone, Intact
<1>8. ASSUME Create PROVE FALSE
  <2>1. restarts' = restarts + 1 /\ restarts' = 0
    BY <1>8 DEF Create, Intact
  <2> QED BY <1>t, <2>1
<1> QED BY <1>1, <1>2, <1>3, <1>4, <1>5, <1>6, <1>7, <1>8, StepCases

\* As long as the retention file was not reopened, no event is held twice by
\* the memory queue, the file and the batch of publish(), nor is one held that
\* was acknowledged: moving events from file to memory leaves no copy behind,
\* although erased parts and the read offset move independently.
THEOREM NoDuplicateHolds == Spec => []NoDuplicate
<1>1. Init => TypeOK /\ Lifecycle /\ EachOnce
  <2> SUFFICES ASSUME Init PROVE EachOnce
    BY InitTypeOK, InitLifecycle
  <2>1. events = <<>> /\ todo = <<>> /\ acked = {} /\ disk = <<>> /\ rd = 0
    BY DEF Init, FileInit
  <2>2. Unread = <<>>
    <3>1. <<>> \in Seq(Event) /\ Len(<<>>) = 0
      BY EmptySeq
    <3>2. SubSeq(<<>>, 1, 0) \in Seq(Event) /\ Len(SubSeq(<<>>, 1, 0)) = 0
      BY <3>1, SliceFacts
    <3> QED BY <2>1, <3>1, <3>2, EmptySeq DEF Unread
  <2>3. Distinct(<<>>) /\ Elems(<<>>) = {}
    BY ElemsEmpty DEF Distinct
  <2>4. Single(<<>>, <<>>, <<>>, {}, next)
    BY <2>3 DEF Single, Disjoint
  <2> QED BY <2>1, <2>2, <2>4 DEF EachOnce
<1>2. TypeOK /\ Lifecycle /\ EachOnce /\ [Next]_vars => (TypeOK /\ Lifecycle /\ EachOnce)'
  BY NextTypeOK, NextLifecycle, NextEachOnce
<1>3. TypeOK /\ EachOnce => NoDuplicate
  <2> SUFFICES ASSUME TypeOK, EachOnce, Intact
               PROVE  Distinct(Pipeline) /\ Disjoint(acked, Elems(Pipeline))
    BY DEF NoDuplicate, Intact, Distinct, Disjoint, Elems
  <2>1. Single(events, Unread, todo, acked, next)
    BY DEF EachOnce
  <2>2. events \in Seq(Event) /\ todo \in Seq(Event) /\ Unread \in Seq(Event)
    <3>1. disk \in Seq(Event) /\ rd \in 0 .. Len(disk)
      BY DEF TypeOK, FileTypeOK
    <3> QED BY <3>1, SuffixFacts DEF TypeOK, Unread
  <2> DEFINE m == events \o Unread
  <2>3. m \in Seq(Event) /\ Distinct(m) /\ Elems(m) = Elems(events) \cup Elems(Unread)
    BY <2>1, <2>2, DistinctConcat, ElemsConcat, ConcatFacts DEF Single
  <2> HIDE DEF m
  <2>4. Distinct(m \o todo) /\ Elems(m \o todo) = Elems(m) \cup Elems(todo)
    <3>1. Disjoint(Elems(m), Elems(todo)) /\ Distinct(todo)
      BY <2>1, <2>3 DEF Single, Disjoint
    <3>2. Distinct(m \o todo)
      BY <2>2, <2>3, <3>1, DistinctConcat
    <3>3. Elems(m \o todo) = Elems(m) \cup Elems(todo)
      BY <2>2, <2>3, ElemsConcat
    <3> QED BY <3>2, <3>3
  <2>5. Pipeline = m \o todo
    BY DEF Pipeline, m
  <2>6. Disjoint(acked, Elems(m \o todo))
    BY <2>1, <2>3, <2>4 DEF Single
  <2> QED BY <2>4, <2>5, <2>6
<1> QED BY <1>1, <1>2, <1>3, PTL DEF Spec

=============================================================================
