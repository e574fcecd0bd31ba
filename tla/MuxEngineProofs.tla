-------------------------- MODULE MuxEngineProofs ---------------------------
(***************************************************************************)
(* Proofs about MuxEngine, for any number of publishers, muxers and        *)
(* events: its types, one batch at a time, no gap for a subscribed muxer,  *)
(* no event that disappears, and the implementation of Broadcast.          *)
(***************************************************************************)
EXTENDS MuxEngine, SequenceFacts

-----------------------------------------------------------------------------
(* The inductive invariant, in parts *)

\* A thread between its compare-exchange and the end of its own publish().
Inside(t) == pc[t] \in {"swap", "first"}

\* One thread is inside at a time; all that is being handed is one batch, which
\* is not empty, and the flag is up meanwhile.
Exclusive ==
  /\ \A t, u \in Thread : Inside(t) /\ Inside(u) => t = u
  /\ \A t \in Thread : pc[t] = "swap" => jobs = {}
  /\ \A t \in Thread : Inside(t) => sending
  /\ jobs # {} => sending
  /\ \A j, k \in jobs : j.batch = k.batch
  /\ \A j \in jobs : j.batch # <<>>
  /\ \A t \in Thread : pc[t] = "first" => batch[t] # <<>>
  /\ \A t \in Thread, j \in jobs : pc[t] = "first" => batch[t] = j.batch

\* A muxer is subscribed once, from its creation until it is unsubscribed after
\* its destruction, which its own thread runs.
Subscribed ==
  /\ \A i, k \in DOMAIN muxers : muxers[i] = muxers[k] => i = k
  /\ \A i \in DOMAIN muxers : muxers[i] \notin fresh
  /\ \A m \in live : \E i \in DOMAIN muxers : muxers[i] = m
  /\ \A m \in live \cup fresh : pc[m] = "idle"

\* The muxers being handed the batch are alive, and different.
Targets ==
  /\ \A j \in jobs : j.mux \in live
  /\ \A j, k \in jobs : j.mux = k.mux => j = k
  /\ \A t \in Thread : pc[t] # "first" => first[t] = NoMux
  /\ \A t \in Thread : pc[t] = "first" => first[t] \in live
  /\ \A t \in Thread, j \in jobs : pc[t] = "first" => first[t] # j.mux

\* Somebody is handing a batch to m.
BeingHanded(m) ==
  \/ \E j \in jobs : j.mux = m
  \/ \E t \in Thread : pc[t] = "first" /\ first[t] = m

\* The events sent since m subscribed.
Since(m) == SubSeq(log, from[m] + 1, Len(log))

\* What a muxer got, and what is being handed to it, are the events sent since.
Continues ==
  /\ \A m \in Mux : from[m] <= Len(log)
  /\ \A m \in fresh : got[m] = <<>>
  /\ \A j \in jobs : got[j.mux] \o j.batch = Since(j.mux)
  /\ \A t \in Thread : pc[t] = "first" => got[first[t]] \o batch[t] = Since(first[t])
  /\ \A m \in live : ~BeingHanded(m) => got[m] = Since(m)

\* The cache file is opened once, when stop() ends.
CacheOpened ==
  /\ cacheFile => pc[Main] = "done"
  /\ added # <<>> => cacheFile

\* Until the engine is unloaded no published event depends on the cache on disk.
Elsewhere ==
  ToSet(kiew) \cup (UNION {ToSet(b) : b \in Batches}) \cup Handed \cup ToSet(added)
  \cup dropped

KeptElsewhere == state # "unloaded" => nullCache \/ 1 .. next \subseteq Elsewhere

-----------------------------------------------------------------------------
(* Types *)

Pc == SendPc \cup {"wait", "after", "done"}

\* What ~callback_caller() changes: the flag goes down, and a thread that waits
\* goes on; no other thread moves.
LEMMA ReleaseFacts ==
  ASSUME NEW b, NEW js, NEW ts, NEW pcs \in [Thread -> Pc],
         sending \in BOOLEAN, Release(b, js, ts, pcs)
  PROVE  /\ sending' \in BOOLEAN /\ pc' \in [Thread -> Pc]
         /\ \A t \in Thread : pc'[t] = pcs[t] \/ (pcs[t] = "wait" /\ pc'[t] = "after")
         /\ Held(b, js, ts) => sending' = sending
<1>1. CASE Held(b, js, ts)
  BY <1>1 DEF Release
<1>2. CASE ~Held(b, js, ts)
  BY <1>2 DEF Release, Pc
<1> QED BY <1>1, <1>2

\* unsubscribe_muxer() erases one expired entry, if there is one.
LEMMA UnsubscribeFacts ==
  ASSUME muxers \in Seq(Mux), NEW m \in Mux, Unsubscribe(m)
  PROVE  /\ muxers' \in Seq(Mux)
         /\ \/ muxers' = muxers
            \/ \E i \in DOMAIN muxers :
                 muxers[i] \notin live /\ muxers' = RemoveAt(muxers, i)
<1> DEFINE Expired == {i \in DOMAIN muxers : muxers[i] \notin live}
<1>1. DOMAIN muxers = 1 .. Len(muxers) /\ Len(muxers) \in Nat
  BY LenProperties
<1>2. CASE Expired = {}
  BY <1>2 DEF Unsubscribe
<1>3. CASE Expired # {}
  <2>1. PICK x \in Expired : \A y \in Expired : x <= y
    <3>1. Expired \subseteq Nat
      BY <1>1
    <3> QED BY <1>3, <3>1, Least
  <2>2. \A k \in 1 .. x - 1 : muxers[k] \in live
    BY <1>1, <2>1
  <2>3. Erased \in DOMAIN muxers /\ muxers[Erased] \notin live
    BY <2>1, <2>2 DEF Erased
  <2>4. muxers' = RemoveAt(muxers, Erased)
    BY <1>3 DEF Unsubscribe
  <2>5. muxers' \in Seq(Mux)
    BY <1>1, <2>3, <2>4, RemoveFacts
  <2> QED BY <2>3, <2>4, <2>5
<1> QED BY <1>2, <1>3

LEMMA InitTypeOK == Init => TypeOK
<1> SUFFICES ASSUME Init PROVE TypeOK
  OBVIOUS
<1>1. cache \in Seq(EventId)
  <2>1. SetToSeq(OldEvents) \in Seq(OldEvents)
    BY SetToSeqType, MuxEngineAssumption
  <2> QED BY <2>1, SeqMonotonic DEF Init, EventId
<1>2. <<>> \in Seq(EventId) /\ <<>> \in Seq(Mux)
  BY EmptySeq
<1>3. next \in 0 .. MaxEvents
  BY MuxEngineAssumption DEF Init
<1>4. /\ state \in {"not_started", "running", "stopped", "unloaded"}
      /\ kiew \in Seq(EventId) /\ muxers \in Seq(Mux) /\ added \in Seq(EventId)
      /\ log \in Seq(EventId)
  BY <1>2 DEF Init
<1>5. /\ live \subseteq Mux /\ fresh \subseteq Mux /\ dropped \subseteq EventId
      /\ jobs \subseteq [mux : Mux, batch : Seq(EventId)]
      /\ sending \in BOOLEAN /\ cacheFile \in BOOLEAN /\ nullCache \in BOOLEAN
  BY DEF Init
<1>6. /\ pc \in [Thread -> SendPc \cup {"wait", "after", "done"}]
      /\ \A t \in Publisher : pc[t] \in SendPc
  BY DEF Init, Thread, SendPc
<1>7. /\ first \in [Thread -> Mux \cup {NoMux}] /\ batch \in [Thread -> Seq(EventId)]
      /\ got \in [Mux -> Seq(EventId)] /\ from \in [Mux -> Nat]
  BY <1>2 DEF Init
<1> QED BY <1>1, <1>3, <1>4, <1>5, <1>6, <1>7 DEF TypeOK

\* The threads that publish wait for nobody.
LEMMA PublisherReturns ==
  ASSUME NEW t \in Publisher
  PROVE  ~Waits(t)
  BY MuxEngineAssumption DEF Waits

LEMMA NextTypeOK == TypeOK /\ [Next]_vars => TypeOK'
<1> SUFFICES ASSUME TypeOK, [Next]_vars PROVE TypeOK'
  OBVIOUS
<1> USE MuxEngineAssumption
<1>t. /\ kiew \in Seq(EventId) /\ muxers \in Seq(Mux) /\ live \subseteq Mux
      /\ sending \in BOOLEAN /\ cacheFile \in BOOLEAN
      /\ jobs \subseteq [mux : Mux, batch : Seq(EventId)]
      /\ cache \in Seq(EventId) /\ added \in Seq(EventId)
      /\ pc \in [Thread -> Pc] /\ (\A t \in Publisher : pc[t] \in SendPc)
      /\ first \in [Thread -> Mux \cup {NoMux}]
      /\ batch \in [Thread -> Seq(EventId)]
      /\ next \in 0 .. MaxEvents /\ fresh \subseteq Mux
      /\ got \in [Mux -> Seq(EventId)] /\ from \in [Mux -> Nat]
      /\ log \in Seq(EventId) /\ dropped \subseteq EventId
      /\ nullCache \in BOOLEAN
  BY DEF TypeOK, Pc
<1>p. Publisher \subseteq Thread /\ Mux \subseteq Thread /\ Main \in Thread
  BY DEF Thread
<1>e. <<>> \in Seq(EventId)
  BY EmptySeq
<1>1. ASSUME NEW t \in Thread, SendCas(t) PROVE TypeOK'
  <2>1. pc' \in [Thread -> Pc] /\ \A u \in Publisher : pc'[u] \in SendPc
    <3>1. \/ pc' = [pc EXCEPT ![t] = Returned(t)]
          \/ pc' = [pc EXCEPT ![t] = "swap"]
      BY <1>1 DEF SendCas
    <3>2. Returned(t) \in {"after", "idle"} /\ (t \in Publisher => Returned(t) = "idle")
      BY PublisherReturns DEF Returned
    <3> QED BY <1>t, <1>p, <3>1, <3>2 DEF Pc, SendPc
  <2>2. sending' \in BOOLEAN
    BY <1>t, <1>1 DEF SendCas
  <2> QED BY <1>1, <2>1, <2>2 DEF SendCas, TypeOK, cacheVars, history, Pc
<1>2. ASSUME NEW t \in Thread, SendNothing(t) PROVE TypeOK'
  <2>1. pc' \in [Thread -> Pc] /\ \A u \in Publisher : pc'[u] \in SendPc
    BY <1>t, <1>p, <1>2, PublisherReturns DEF SendNothing, Returned, Pc, SendPc
  <2> QED BY <1>2, <2>1 DEF SendNothing, TypeOK, cacheVars, history, Pc
<1>3. ASSUME NEW t \in Thread, SendSwap(t) PROVE TypeOK'
  <2>1. pc' \in [Thread -> Pc] /\ \A u \in Publisher : pc'[u] \in SendPc
    BY <1>t, <1>p, <1>3 DEF SendSwap, Pc, SendPc
  <2>2. PICK i \in Lockable :
          /\ first' = [first EXCEPT ![t] = muxers[i]]
          /\ jobs' = jobs \cup {[mux |-> muxers[k], batch |-> kiew] : k \in Lockable \ {i}}
    BY <1>3 DEF SendSwap
  <2>3. \A k \in Lockable : muxers[k] \in Mux
    BY <1>t DEF Lockable
  <2>4. first' \in [Thread -> Mux \cup {NoMux}]
    BY <1>t, <2>2, <2>3
  <2>5. jobs' \subseteq [mux : Mux, batch : Seq(EventId)]
    BY <1>t, <2>2, <2>3
  <2>6. kiew' \in Seq(EventId) /\ log' \in Seq(EventId)
        /\ batch' \in [Thread -> Seq(EventId)]
    BY <1>t, <1>e, <1>3, ConcatProperties DEF SendSwap
  <2> QED BY <1>3, <2>1, <2>4, <2>5, <2>6 DEF SendSwap, TypeOK, cacheVars, Pc
<1>4. ASSUME NEW t \in Thread, SendToNobody(t) PROVE TypeOK'
  <2>1. pc' \in [Thread -> Pc] /\ \A u \in Publisher : pc'[u] \in SendPc
    BY <1>t, <1>p, <1>4, PublisherReturns DEF SendToNobody, Returned, Pc, SendPc
  <2>2. kiew' \in Seq(EventId) /\ log' \in Seq(EventId)
    BY <1>t, <1>e, <1>4, ConcatProperties DEF SendToNobody
  <2>3. dropped' \subseteq EventId
    BY <1>t, <1>4, ToSetType DEF SendToNobody
  <2> QED BY <1>4, <2>1, <2>2, <2>3 DEF SendToNobody, TypeOK, cacheVars, Pc
<1>5. ASSUME NEW t \in Thread, SendFirst(t) PROVE TypeOK'
  <2> DEFINE pcs == [pc EXCEPT ![t] = IF Waits(t) THEN "wait" ELSE "idle"]
  <2>1. pcs \in [Thread -> Pc] /\ \A u \in Publisher : pcs[u] \in SendPc
    BY <1>t, <1>p, PublisherReturns DEF Pc, SendPc
  <2>2. Release(batch[t], jobs, Senders \ {t}, pcs)
    BY <1>5 DEF SendFirst
  <2> HIDE DEF pcs
  <2>3. /\ sending' \in BOOLEAN /\ pc' \in [Thread -> Pc]
        /\ \A u \in Thread : pc'[u] = pcs[u] \/ (pcs[u] = "wait" /\ pc'[u] = "after")
    BY <1>t, <2>1, <2>2, ReleaseFacts
  <2>4. \A u \in Publisher : pc'[u] \in SendPc
    BY <1>p, <2>1, <2>3 DEF SendPc
  <2>5. batch' \in [Thread -> Seq(EventId)]
    BY <1>t, <1>e, <1>5 DEF SendFirst
  <2>6. got' \in [Mux -> Seq(EventId)]
    BY <1>t, <1>5, ConcatProperties DEF SendFirst
  <2>7. first' \in [Thread -> Mux \cup {NoMux}]
    BY <1>t, <1>5 DEF SendFirst
  <2> QED BY <1>5, <2>3, <2>4, <2>5, <2>6, <2>7 DEF SendFirst, TypeOK, cacheVars, Pc
<1>6. ASSUME NEW j \in jobs, RunJob(j) PROVE TypeOK'
  <2>1. Release(j.batch, jobs \ {j}, Senders, pc)
    BY <1>6 DEF RunJob
  <2>2. /\ sending' \in BOOLEAN /\ pc' \in [Thread -> Pc]
        /\ \A u \in Thread : pc'[u] = pc[u] \/ (pc[u] = "wait" /\ pc'[u] = "after")
    BY <1>t, <2>1, ReleaseFacts
  <2>3. \A u \in Publisher : pc'[u] \in SendPc
    BY <1>t, <1>p, <2>2 DEF SendPc
  <2>4. got' \in [Mux -> Seq(EventId)]
    BY <1>t, <1>6, ConcatProperties DEF RunJob
  <2>5. jobs' \subseteq [mux : Mux, batch : Seq(EventId)]
    BY <1>t, <1>6 DEF RunJob
  <2> QED BY <1>6, <2>2, <2>3, <2>4, <2>5 DEF RunJob, TypeOK, cacheVars, Pc
<1>7. ASSUME NEW t \in Thread, NEW n \in 1 .. MaxDeque, Publish(t, n) PROVE TypeOK'
  <2> DEFINE es == [i \in 1 .. n |-> next + i]
  <2>1. next + n <= MaxEvents /\ next' = next + n /\ next' \in 0 .. MaxEvents
    BY <1>t, <1>7 DEF Publish
  <2>2. \A i \in 1 .. n : next + i \in EventId
    BY <1>t, <2>1 DEF EventId
  <2>3. es \in Seq(EventId)
    BY <2>2
  <2> HIDE DEF es
  <2>4. kiew' \in Seq(EventId) /\ added' \in Seq(EventId) /\ nullCache' \in BOOLEAN
    <3>1. kiew \o es \in Seq(EventId) /\ added \o es \in Seq(EventId)
      BY <1>t, <2>3, ConcatProperties
    <3>2. /\ kiew' = kiew \/ kiew' = kiew \o es
          /\ added' = added \/ added' = added \o es
          /\ nullCache' = nullCache \/ nullCache' = TRUE
      BY <1>7 DEF Publish, es
    <3> QED BY <1>t, <3>1, <3>2
  <2>5. pc' \in [Thread -> Pc] /\ \A u \in Publisher : pc'[u] \in SendPc
    <3>1. pc' = pc \/ pc' = [pc EXCEPT ![t] = "cas"]
      BY <1>7 DEF Publish
    <3> QED BY <1>t, <1>p, <3>1 DEF Pc, SendPc
  <2> QED BY <1>7, <2>1, <2>4, <2>5 DEF Publish, TypeOK, Pc
<1>8. ASSUME Start PROVE TypeOK'
  <2>1. pc' \in [Thread -> Pc] /\ \A u \in Publisher : pc'[u] \in SendPc
    BY <1>t, <1>p, <1>8 DEF Start, Pc, SendPc
  <2>2. kiew' \in Seq(EventId)
    BY <1>t, <1>8, ConcatProperties DEF Start
  <2> QED BY <1>8, <2>1, <2>2 DEF Start, TypeOK, cacheVars, history, Pc
<1>9. ASSUME Stop PROVE TypeOK'
  <2>1. pc' \in [Thread -> Pc] /\ \A u \in Publisher : pc'[u] \in SendPc
    BY <1>t, <1>p, <1>9 DEF Stop, Pc, SendPc
  <2> QED BY <1>9, <2>1 DEF Stop, TypeOK, cacheVars, history, Pc
<1>10. ASSUME StopOpenCache PROVE TypeOK'
  <2>1. pc' \in [Thread -> Pc] /\ \A u \in Publisher : pc'[u] \in SendPc
    BY <1>t, <1>p, <1>10 DEF StopOpenCache, Pc, SendPc
  <2>2. batch' \in [Thread -> Seq(EventId)]
    BY <1>t, <1>e, <1>10 DEF StopOpenCache
  <2>3. cacheFile' \in BOOLEAN
    BY <1>10 DEF StopOpenCache
  <2> QED BY <1>10, <2>1, <2>2, <2>3 DEF StopOpenCache, TypeOK, history, Pc
<1>11. ASSUME Unload PROVE TypeOK'
  <2>1. cache' \in Seq(EventId) /\ kiew' \in Seq(EventId) /\ added' \in Seq(EventId)
    BY <1>t, <1>e, <1>11, ConcatProperties DEF Unload, Unprocessed
  <2>2. dropped' \subseteq EventId
    BY <1>t, <1>11, ToSetType DEF Unload
  <2> QED BY <1>11, <2>1, <2>2 DEF Unload, TypeOK, threadVars
<1>12. ASSUME NEW m \in Mux, Subscribe(m) PROVE TypeOK'
  <2>1. muxers' \in Seq(Mux)
    BY <1>t, <1>12, AppendProperties DEF Subscribe
  <2>2. from' \in [Mux -> Nat]
    BY <1>t, <1>12, LenProperties DEF Subscribe
  <2> QED BY <1>12, <2>1, <2>2 DEF Subscribe, TypeOK, cacheVars, threadVars
<1>13. ASSUME NEW m \in Mux, Expire(m) PROVE TypeOK'
  <2>1. pc' \in [Thread -> Pc] /\ \A u \in Publisher : pc'[u] \in SendPc
    BY <1>t, <1>p, <1>13 DEF Expire, Pc, SendPc
  <2> QED BY <1>13, <2>1 DEF Expire, TypeOK, cacheVars, history, Pc
<1>14. ASSUME NEW m \in Mux, Unsubscribe(m) PROVE TypeOK'
  <2>1. pc' \in [Thread -> Pc] /\ \A u \in Publisher : pc'[u] \in SendPc
    BY <1>t, <1>p, <1>14 DEF Unsubscribe, Pc, SendPc
  <2>2. batch' \in [Thread -> Seq(EventId)]
    BY <1>t, <1>e, <1>14 DEF Unsubscribe
  <2>3. muxers' \in Seq(Mux)
    BY <1>t, <1>14, UnsubscribeFacts DEF Unsubscribe
  <2> QED BY <1>14, <2>1, <2>2, <2>3 DEF Unsubscribe, TypeOK, cacheVars, history, Pc
<1>15. CASE UNCHANGED vars
  BY <1>15 DEF TypeOK, vars, cacheVars, threadVars, history
<1> QED BY <1>1, <1>2, <1>3, <1>4, <1>5, <1>6, <1>7, <1>8, <1>9, <1>10, <1>11,
           <1>12, <1>13, <1>14, <1>15 DEF Next, Send

\* The engine keeps its types: the publishers never block in publish().
THEOREM TypeCorrect == Spec => []TypeOK
<1> QED BY InitTypeOK, NextTypeOK, PTL DEF Spec

-----------------------------------------------------------------------------
(* What the steps do to the batch in progress *)

\* A step that hands nothing, and moves no thread into or out of
\* _send_to_subscribers() behind its compare-exchange.
Calm ==
  /\ UNCHANGED <<muxers, live, fresh, jobs, first, sending, got, from, log>>
  /\ \A t \in Thread : \/ pc'[t] = pc[t]
                       \/ ~Inside(t) /\ pc'[t] \notin {"swap", "first"}
  /\ \A m \in live \cup fresh : pc'[m] = pc[m]
  /\ \A t \in Thread : pc[t] = "first" => batch'[t] = batch[t]

\* A thread wins the compare-exchange.
Wins(t) ==
  /\ pc[t] = "cas" /\ ~sending /\ sending' = TRUE
  /\ pc' = [pc EXCEPT ![t] = "swap"]
  /\ UNCHANGED <<state, kiew, muxers, live, jobs, cacheVars, first, batch, next,
                 fresh, history>>

LEMMA CasCases ==
  ASSUME TypeOK, Subscribed, NEW t \in Thread, SendCas(t)
  PROVE  Wins(t) \/ Calm
<1>1. CASE sending
  <2>1. pc' = [pc EXCEPT ![t] = Returned(t)] /\ Returned(t) \in {"after", "idle"}
    BY <1>1 DEF SendCas, Returned
  <2>2. UNCHANGED <<muxers, live, fresh, jobs, first, sending, got, from, log, batch>>
    BY <1>1 DEF SendCas, history
  <2>3. pc[t] = "cas" /\ pc \in [Thread -> Pc] /\ live \subseteq Mux /\ fresh \subseteq Mux
    BY DEF SendCas, TypeOK, Pc
  <2>4. \A m \in live \cup fresh : m # t /\ m \in Thread
    BY <2>3 DEF Subscribed, Thread
  <2>5. \A u \in Thread : u # t => pc'[u] = pc[u]
    BY <2>1, <2>3
  <2>6. pc'[t] \notin {"swap", "first"} /\ ~Inside(t)
    BY <2>1, <2>3 DEF Inside
  <2> QED BY <2>2, <2>4, <2>5, <2>6 DEF Calm
<1>2. CASE ~sending
  BY <1>2 DEF SendCas, Wins
<1> QED BY <1>1, <1>2

LEMMA CalmSteps ==
  ASSUME TypeOK, Subscribed,
         \/ \E t \in Thread, n \in 1 .. MaxDeque : Publish(t, n)
         \/ Start \/ Stop \/ StopOpenCache \/ Unload \/ UNCHANGED vars
  PROVE  Calm
<1>t. /\ pc \in [Thread -> Pc] /\ batch \in [Thread -> Seq(EventId)]
      /\ live \subseteq Mux /\ fresh \subseteq Mux
  BY DEF TypeOK, Pc
<1>m. /\ Main \in Thread /\ Main \notin live \cup fresh
      /\ \A t \in Publisher : t \in Thread /\ t \notin live \cup fresh
      /\ \A m \in live \cup fresh : m \in Thread
  BY <1>t, MuxEngineAssumption DEF Thread
<1>1. ASSUME NEW t \in Thread, NEW n \in 1 .. MaxDeque, Publish(t, n) PROVE Calm
  <2>1. /\ t \in Publisher /\ pc[t] = "idle"
        /\ pc' = pc \/ pc' = [pc EXCEPT ![t] = "cas"]
        /\ UNCHANGED <<muxers, live, fresh, jobs, first, sending, got, from, log, batch>>
    BY <1>1 DEF Publish
  <2> QED BY <1>t, <1>m, <2>1 DEF Calm, Inside
<1>2. ASSUME Start \/ Stop PROVE Calm
  <2>1. /\ pc[Main] = "idle" /\ pc' = [pc EXCEPT ![Main] = "cas"]
        /\ UNCHANGED <<muxers, live, fresh, jobs, first, sending, got, from, log, batch>>
    BY <1>2 DEF Start, Stop, history
  <2> QED BY <1>t, <1>m, <2>1 DEF Calm, Inside
<1>3. ASSUME StopOpenCache PROVE Calm
  <2>1. /\ pc[Main] = "after" /\ pc' = [pc EXCEPT ![Main] = "done"]
        /\ batch' = [batch EXCEPT ![Main] = <<>>]
        /\ UNCHANGED <<muxers, live, fresh, jobs, first, sending, got, from, log>>
    BY <1>3 DEF StopOpenCache, history
  <2> QED BY <1>t, <1>m, <2>1 DEF Calm, Inside
<1>4. ASSUME Unload \/ UNCHANGED vars PROVE Calm
  <2>1. UNCHANGED <<pc, muxers, live, fresh, jobs, first, sending, got, from, log, batch>>
    BY <1>4 DEF Unload, vars, threadVars, history
  <2> QED BY <2>1 DEF Calm
<1> QED BY <1>1, <1>2, <1>3, <1>4

\* The sender finishes its own publish().
LEMMA FirstFacts ==
  ASSUME TypeOK, Exclusive, NEW t \in Thread, SendFirst(t)
  PROVE  /\ pc' \in [Thread -> Pc]
         /\ pc'[t] \in {"idle", "wait", "after"}
         /\ \A u \in Thread \ {t} : \/ pc'[u] = pc[u]
                                    \/ pc[u] = "wait" /\ pc'[u] = "after"
         /\ \A u \in Thread \ {t} : batch'[u] = batch[u]
         /\ first' = [first EXCEPT ![t] = NoMux]
         /\ jobs # {} => sending' = sending
<1> DEFINE pcs == [pc EXCEPT ![t] = IF Waits(t) THEN "wait" ELSE "idle"]
<1>1. pc \in [Thread -> Pc] /\ batch \in [Thread -> Seq(EventId)] /\ sending \in BOOLEAN
  BY DEF TypeOK, Pc
<1>2. /\ pcs \in [Thread -> Pc] /\ pcs[t] \in {"wait", "idle"}
      /\ \A u \in Thread \ {t} : pcs[u] = pc[u]
  BY <1>1 DEF Pc, SendPc
<1>3. Release(batch[t], jobs, Senders \ {t}, pcs)
  BY DEF SendFirst
<1> HIDE DEF pcs
<1>4. /\ pc' \in [Thread -> Pc]
      /\ \A u \in Thread : pc'[u] = pcs[u] \/ (pcs[u] = "wait" /\ pc'[u] = "after")
      /\ Held(batch[t], jobs, Senders \ {t}) => sending' = sending
  BY <1>1, <1>2, <1>3, ReleaseFacts
<1>5. jobs # {} => Held(batch[t], jobs, Senders \ {t})
  BY DEF SendFirst, Exclusive, Held
<1>6. \A u \in Thread \ {t} : batch'[u] = batch[u]
  BY <1>1 DEF SendFirst
<1>7. first' = [first EXCEPT ![t] = NoMux]
  BY DEF SendFirst
<1>8. pc'[t] \in {"idle", "wait", "after"}
  BY <1>2, <1>4
<1>9. \A u \in Thread \ {t} : pc'[u] = pc[u] \/ (pc[u] = "wait" /\ pc'[u] = "after")
  BY <1>2, <1>4
<1> QED BY <1>4, <1>5, <1>6, <1>7, <1>8, <1>9

\* A posted task runs.
LEMMA JobFacts ==
  ASSUME TypeOK, Exclusive, NEW j \in jobs, RunJob(j)
  PROVE  /\ pc' \in [Thread -> Pc]
         /\ \A u \in Thread : pc'[u] = pc[u] \/ (pc[u] = "wait" /\ pc'[u] = "after")
         /\ \A u \in Thread : pc[u] # "swap"
         /\ jobs \ {j} # {} => sending' = sending
         /\ (\E u \in Thread : pc[u] = "first") => sending' = sending
<1>1. pc \in [Thread -> Pc] /\ sending \in BOOLEAN
  BY DEF TypeOK, Pc
<1>2. Release(j.batch, jobs \ {j}, Senders, pc)
  BY DEF RunJob
<1>3. /\ pc' \in [Thread -> Pc]
      /\ \A u \in Thread : pc'[u] = pc[u] \/ (pc[u] = "wait" /\ pc'[u] = "after")
      /\ Held(j.batch, jobs \ {j}, Senders) => sending' = sending
  BY <1>1, <1>2, ReleaseFacts
<1>4. jobs \ {j} # {} => Held(j.batch, jobs \ {j}, Senders)
  BY DEF Exclusive, Held
<1>5. (\E u \in Thread : pc[u] = "first") => Held(j.batch, jobs \ {j}, Senders)
  BY DEF Exclusive, Held, Senders
<1>6. \A u \in Thread : pc[u] # "swap"
  BY DEF Exclusive
<1> QED BY <1>3, <1>4, <1>5, <1>6

-----------------------------------------------------------------------------
(* One batch at a time *)

Control == Exclusive /\ Subscribed /\ Targets

LEMMA InitControl == Init => Control
<1> SUFFICES ASSUME Init PROVE Control
  OBVIOUS
<1>1. /\ muxers = <<>> /\ live = {} /\ jobs = {} /\ fresh = Mux
      /\ \A t \in Thread : pc[t] = "idle" /\ first[t] = NoMux
  BY DEF Init
<1>2. Exclusive
  BY <1>1 DEF Exclusive, Inside
<1>3. Subscribed
  BY <1>1 DEF Subscribed, Thread
<1>4. Targets
  BY <1>1 DEF Targets
<1> QED BY <1>2, <1>3, <1>4 DEF Control

\* Steps that hand nothing.
LEMMA CalmControl ==
  ASSUME TypeOK, Control, Calm
  PROVE  Control'
<1>1. Exclusive'
  BY DEF Control, Exclusive, Calm, Inside
<1>2. Subscribed'
  BY DEF Control, Subscribed, Calm
<1>3. Targets'
  BY DEF Control, Targets, Calm, Inside
<1> QED BY <1>1, <1>2, <1>3 DEF Control

LEMMA WinsControl ==
  ASSUME TypeOK, Control, NEW t \in Thread, Wins(t)
  PROVE  Control'
<1>t. /\ pc \in [Thread -> Pc] /\ live \subseteq Mux /\ fresh \subseteq Mux
      /\ Mux \subseteq Thread
  BY DEF TypeOK, Pc, Thread
<1>1. /\ pc[t] = "cas" /\ pc'[t] = "swap" /\ (\A u \in Thread \ {t} : pc'[u] = pc[u])
      /\ ~sending /\ sending'
      /\ UNCHANGED <<muxers, live, fresh, jobs, first, batch>>
  BY <1>t DEF Wins
<1>2. jobs = {} /\ \A u \in Thread : ~Inside(u)
  BY <1>1 DEF Control, Exclusive
<1>3. Exclusive'
  BY <1>1, <1>2 DEF Exclusive, Inside
<1>4. Subscribed'
  BY <1>t, <1>1 DEF Control, Subscribed
<1>5. Targets'
  BY <1>t, <1>1 DEF Control, Targets
<1> QED BY <1>3, <1>4, <1>5 DEF Control

\* The thread that is inside leaves, with nothing handed.
LEMMA LeavesControl ==
  ASSUME TypeOK, Control, NEW t \in Thread, SendNothing(t) \/ SendToNobody(t)
  PROVE  Control'
<1>t. /\ pc \in [Thread -> Pc] /\ live \subseteq Mux /\ fresh \subseteq Mux
      /\ Mux \subseteq Thread
  BY DEF TypeOK, Pc, Thread
<1>1. /\ pc[t] = "swap" /\ pc'[t] \in {"idle", "after"}
      /\ \A u \in Thread \ {t} : pc'[u] = pc[u]
      /\ UNCHANGED <<muxers, live, fresh, jobs, first, batch>>
  BY <1>t DEF SendNothing, SendToNobody, Returned
<1>2. jobs = {} /\ \A u \in Thread \ {t} : ~Inside(u)
  BY <1>1 DEF Control, Exclusive, Inside
<1>3. Exclusive'
  BY <1>1, <1>2 DEF Exclusive, Inside
<1>4. Subscribed'
  BY <1>t, <1>1 DEF Control, Subscribed
<1>5. Targets'
  BY <1>t, <1>1 DEF Control, Targets
<1> QED BY <1>3, <1>4, <1>5 DEF Control

\* The queue is taken.
LEMMA SwapControl ==
  ASSUME TypeOK, Control, NEW t \in Thread, SendSwap(t)
  PROVE  Control'
<1>t. /\ pc \in [Thread -> Pc] /\ live \subseteq Mux /\ fresh \subseteq Mux
      /\ Mux \subseteq Thread /\ batch \in [Thread -> Seq(EventId)]
      /\ first \in [Thread -> Mux \cup {NoMux}]
  BY DEF TypeOK, Pc, Thread
<1>1. /\ pc[t] = "swap" /\ pc'[t] = "first" /\ (\A u \in Thread \ {t} : pc'[u] = pc[u])
      /\ batch'[t] = kiew /\ kiew # <<>>
      /\ UNCHANGED <<muxers, live, fresh, sending>>
  BY <1>t DEF SendSwap
<1>2. jobs = {} /\ sending /\ \A u \in Thread \ {t} : ~Inside(u)
  BY <1>1 DEF Control, Exclusive, Inside
<1>3. PICK i \in Lockable :
        /\ first' = [first EXCEPT ![t] = muxers[i]]
        /\ jobs' = jobs \cup {[mux |-> muxers[k], batch |-> kiew] : k \in Lockable \ {i}}
  BY DEF SendSwap
<1>4. jobs' = {[mux |-> muxers[k], batch |-> kiew] : k \in Lockable \ {i}}
  BY <1>2, <1>3
<1>5. /\ \A j \in jobs' : j.batch = kiew
      /\ \A j \in jobs' : \E k \in Lockable \ {i} : j = [mux |-> muxers[k], batch |-> kiew]
  BY <1>4
<1>6. Exclusive'
  <2>1. \A u \in Thread \ {t} : pc'[u] \notin {"swap", "first"}
    BY <1>1, <1>2 DEF Inside
  <2> QED BY <1>1, <1>2, <1>5, <2>1 DEF Exclusive, Inside
<1>7. Subscribed'
  BY <1>t, <1>1 DEF Control, Subscribed
<1>8. Targets'
  <2>1. \A u \in Thread \ {t} : pc'[u] # "first" /\ first'[u] = NoMux
    BY <1>t, <1>1, <1>2, <1>3 DEF Control, Targets, Inside
  <2>2. first'[t] = muxers[i] /\ muxers[i] \in live /\ i \in DOMAIN muxers
    BY <1>t, <1>3 DEF Lockable
  <2>3. \A j \in jobs' : j.mux \in live /\ j.mux # muxers[i]
    BY <1>5, <2>2 DEF Lockable, Control, Subscribed
  <2>4. \A j, k \in jobs' : j.mux = k.mux => j = k
    BY <1>5
  <2> QED BY <1>1, <2>1, <2>2, <2>3, <2>4 DEF Targets
<1> QED BY <1>6, <1>7, <1>8 DEF Control

LEMMA FirstControl ==
  ASSUME TypeOK, Control, NEW t \in Thread, SendFirst(t)
  PROVE  Control'
<1>t. /\ pc \in [Thread -> Pc] /\ live \subseteq Mux /\ fresh \subseteq Mux
      /\ Mux \subseteq Thread /\ first \in [Thread -> Mux \cup {NoMux}]
      /\ Exclusive /\ Subscribed /\ Targets
  BY DEF TypeOK, Pc, Thread, Control
<1>f. /\ pc'[t] \in {"idle", "wait", "after"}
      /\ \A u \in Thread \ {t} : pc'[u] = pc[u] \/ (pc[u] = "wait" /\ pc'[u] = "after")
      /\ \A u \in Thread \ {t} : batch'[u] = batch[u]
      /\ first' = [first EXCEPT ![t] = NoMux]
      /\ jobs # {} => sending' = sending
  BY <1>t, FirstFacts
<1>1. pc[t] = "first" /\ UNCHANGED <<muxers, live, fresh, jobs>>
  BY DEF SendFirst
<1>2. \A u \in Thread : pc'[u] \notin {"swap", "first"}
  BY <1>t, <1>f, <1>1 DEF Exclusive, Inside
<1>3. Exclusive'
  <2>1. (jobs # {} => sending)'
    BY <1>t, <1>f, <1>1 DEF Exclusive
  <2> QED BY <1>t, <1>1, <1>2, <2>1 DEF Exclusive, Inside
<1>4. Subscribed'
  <2>1. \A m \in live \cup fresh : pc'[m] = pc[m]
    BY <1>t, <1>f, <1>1 DEF Subscribed
  <2> QED BY <1>t, <1>1, <2>1 DEF Subscribed
<1>5. Targets'
  BY <1>t, <1>f, <1>1, <1>2 DEF Targets
<1> QED BY <1>3, <1>4, <1>5 DEF Control

LEMMA JobControl ==
  ASSUME TypeOK, Control, NEW j \in jobs, RunJob(j)
  PROVE  Control'
<1>t. /\ pc \in [Thread -> Pc] /\ live \subseteq Mux /\ fresh \subseteq Mux
      /\ Mux \subseteq Thread /\ Exclusive /\ Subscribed /\ Targets
  BY DEF TypeOK, Pc, Thread, Control
<1>f. /\ \A u \in Thread : pc'[u] = pc[u] \/ (pc[u] = "wait" /\ pc'[u] = "after")
      /\ \A u \in Thread : pc[u] # "swap"
      /\ jobs \ {j} # {} => sending' = sending
      /\ (\E u \in Thread : pc[u] = "first") => sending' = sending
  BY <1>t, JobFacts
<1>1. jobs' = jobs \ {j} /\ UNCHANGED <<muxers, live, fresh, first, batch>>
  BY DEF RunJob
<1>2. \A u \in Thread : pc'[u] # "swap" /\ (pc'[u] = "first" <=> pc[u] = "first")
  BY <1>f
<1>3. Exclusive'
  <2>1. (jobs # {} => sending)'
    BY <1>t, <1>f, <1>1 DEF Exclusive
  <2>2. (\A u \in Thread : Inside(u) => sending)'
    BY <1>t, <1>f, <1>2 DEF Exclusive, Inside
  <2> QED BY <1>t, <1>1, <1>2, <2>1, <2>2 DEF Exclusive, Inside
<1>4. Subscribed'
  <2>1. \A m \in live \cup fresh : pc'[m] = pc[m]
    BY <1>t, <1>f DEF Subscribed
  <2> QED BY <1>t, <1>1, <2>1 DEF Subscribed
<1>5. Targets'
  BY <1>t, <1>1, <1>2 DEF Targets
<1> QED BY <1>3, <1>4, <1>5 DEF Control

LEMMA SubscribeControl ==
  ASSUME TypeOK, Control, NEW m \in Mux, Subscribe(m)
  PROVE  Control'
<1>t. /\ muxers \in Seq(Mux) /\ Len(muxers) \in Nat /\ DOMAIN muxers = 1 .. Len(muxers)
      /\ Exclusive /\ Subscribed /\ Targets
  BY LenProperties DEF TypeOK, Control
<1>1. /\ m \in fresh /\ fresh' = fresh \ {m} /\ live' = live \cup {m}
      /\ muxers' = Append(muxers, m)
      /\ UNCHANGED <<pc, jobs, first, batch, sending>>
  BY DEF Subscribe, threadVars
<1>2. /\ DOMAIN muxers' = 1 .. Len(muxers) + 1 /\ muxers'[Len(muxers) + 1] = m
      /\ \A i \in 1 .. Len(muxers) : muxers'[i] = muxers[i]
  BY <1>t, <1>1
<1>3. Exclusive'
  BY <1>t, <1>1 DEF Exclusive, Inside
<1>4. Subscribed'
  <2>1. \A i \in 1 .. Len(muxers) : muxers[i] # m /\ muxers[i] \notin fresh
    BY <1>t, <1>1 DEF Subscribed
  <2>2. (\A i, k \in DOMAIN muxers : muxers[i] = muxers[k] => i = k)'
    BY <1>t, <1>2, <2>1 DEF Subscribed
  <2>3. (\A i \in DOMAIN muxers : muxers[i] \notin fresh)'
    BY <1>t, <1>1, <1>2, <2>1
  <2>4. (\A n \in live : \E i \in DOMAIN muxers : muxers[i] = n)'
    <3>1. \A n \in live : \E i \in 1 .. Len(muxers) : muxers[i] = n
      BY <1>t DEF Subscribed
    <3>2. 1 .. Len(muxers) \subseteq 1 .. Len(muxers) + 1
          /\ Len(muxers) + 1 \in 1 .. Len(muxers) + 1
      BY <1>t
    <3> QED BY <1>1, <1>2, <3>1, <3>2
  <2>5. (\A n \in live \cup fresh : pc[n] = "idle")'
    BY <1>t, <1>1 DEF Subscribed
  <2> QED BY <2>2, <2>3, <2>4, <2>5 DEF Subscribed
<1>5. Targets'
  BY <1>t, <1>1 DEF Targets
<1> QED BY <1>3, <1>4, <1>5 DEF Control

LEMMA ExpireControl ==
  ASSUME TypeOK, Control, NEW m \in Mux, Expire(m)
  PROVE  Control'
<1>t. /\ pc \in [Thread -> Pc] /\ live \subseteq Mux /\ fresh \subseteq Mux
      /\ Mux \subseteq Thread /\ Exclusive /\ Subscribed /\ Targets
  BY DEF TypeOK, Pc, Thread, Control
<1>1. /\ m \in live /\ live' = live \ {m} /\ (\A j \in jobs : j.mux # m)
      /\ \A t \in Thread : first[t] # m
      /\ UNCHANGED <<muxers, fresh, jobs, first, batch, sending>>
  BY DEF Expire
<1>2. pc[m] = "idle" /\ pc'[m] = "cas" /\ \A t \in Thread \ {m} : pc'[t] = pc[t]
  BY <1>t, <1>1 DEF Expire, Subscribed
<1>3. Exclusive'
  BY <1>t, <1>1, <1>2 DEF Exclusive, Inside
<1>4. Subscribed'
  <2>1. m \notin fresh
    BY <1>t, <1>1 DEF Subscribed
  <2> QED BY <1>t, <1>1, <1>2, <2>1 DEF Subscribed
<1>5. Targets'
  BY <1>t, <1>1, <1>2 DEF Targets
<1> QED BY <1>3, <1>4, <1>5 DEF Control

LEMMA UnsubscribeControl ==
  ASSUME TypeOK, Control, NEW m \in Mux, Unsubscribe(m)
  PROVE  Control'
<1>t. /\ muxers \in Seq(Mux) /\ Len(muxers) \in Nat /\ DOMAIN muxers = 1 .. Len(muxers)
      /\ pc \in [Thread -> Pc] /\ live \subseteq Mux /\ fresh \subseteq Mux
      /\ Mux \subseteq Thread /\ Exclusive /\ Subscribed /\ Targets
      /\ batch \in [Thread -> Seq(EventId)]
  BY LenProperties DEF TypeOK, Control, Pc, Thread
<1>1. /\ pc[m] = "after" /\ pc'[m] = "idle" /\ (\A t \in Thread \ {m} : pc'[t] = pc[t])
      /\ \A t \in Thread \ {m} : batch'[t] = batch[t]
      /\ UNCHANGED <<live, fresh, jobs, first, sending>>
  BY <1>t DEF Unsubscribe, history
<1>2. Exclusive'
  BY <1>t, <1>1 DEF Exclusive, Inside
<1>3. Subscribed'
  <2>1. \A n \in live \cup fresh : pc'[n] = "idle"
    BY <1>t, <1>1 DEF Subscribed
  <2>2. CASE muxers' = muxers
    BY <1>t, <1>1, <2>1, <2>2 DEF Subscribed
  <2>3. ASSUME NEW i \in DOMAIN muxers, muxers[i] \notin live,
               muxers' = RemoveAt(muxers, i)
        PROVE  Subscribed'
    <3> DEFINE Old(k) == IF k < i THEN k ELSE k + 1
    <3>1. /\ muxers' \in Seq(Mux) /\ Len(muxers') = Len(muxers) - 1
          /\ \A k \in 1 .. Len(muxers) - 1 :
               muxers'[k] = IF k < i THEN muxers[k] ELSE muxers[k + 1]
      BY <1>t, <2>3, RemoveFacts
    <3>2. DOMAIN muxers' = 1 .. Len(muxers) - 1
      BY <3>1
    <3>3. ASSUME NEW k \in DOMAIN muxers'
          PROVE  Old(k) \in DOMAIN muxers /\ muxers'[k] = muxers[Old(k)]
      <4>1. k \in 1 .. Len(muxers) - 1
        BY <3>2
      <4>2. Old(k) \in 1 .. Len(muxers)
        BY <1>t, <4>1
      <4>3. muxers'[k] = muxers[Old(k)]
        BY <3>1, <4>1
      <4> QED BY <1>t, <4>2, <4>3
    <3>4. \A k, l \in DOMAIN muxers' : Old(k) = Old(l) => k = l
      BY <1>t, <3>2
    <3>5. ASSUME NEW k \in DOMAIN muxers, k # i
          PROVE  \E l \in DOMAIN muxers' : muxers'[l] = muxers[k]
      <4>1. CASE k < i
        <5>1. k \in 1 .. Len(muxers) - 1
          BY <1>t, <4>1
        <5> QED BY <3>1, <3>2, <4>1, <5>1
      <4>2. CASE ~(k < i)
        <5>1. k - 1 \in 1 .. Len(muxers) - 1 /\ ~(k - 1 < i) /\ (k - 1) + 1 = k
          BY <1>t, <3>5, <4>2
        <5> QED BY <3>1, <3>2, <5>1
      <4> QED BY <4>1, <4>2
    <3> HIDE DEF Old
    <3>6. \A k, l \in DOMAIN muxers' : muxers'[k] = muxers'[l] => k = l
      BY <1>t, <3>3, <3>4 DEF Subscribed
    <3>7. \A k \in DOMAIN muxers' : muxers'[k] \notin fresh
      BY <1>t, <3>3 DEF Subscribed
    <3>8. \A n \in live : \E l \in DOMAIN muxers' : muxers'[l] = n
      BY <1>t, <2>3, <3>5 DEF Subscribed
    <3> QED BY <1>1, <2>1, <3>6, <3>7, <3>8 DEF Subscribed
  <2> QED BY <1>t, <2>2, <2>3, UnsubscribeFacts
<1>4. Targets'
  BY <1>t, <1>1 DEF Targets
<1> QED BY <1>2, <1>3, <1>4 DEF Control

LEMMA NextControl ==
  ASSUME TypeOK, Control, [Next]_vars
  PROVE  Control'
<1>1. Subscribed
  BY DEF Control
<1> QED BY <1>1, CasCases, CalmSteps, CalmControl, WinsControl, LeavesControl,
           SwapControl, FirstControl, JobControl, SubscribeControl,
           ExpireControl, UnsubscribeControl DEF Next, Send

\* All that is being handed is one batch, and the flag is up meanwhile.
LEMMA ControlOneBatch ==
  ASSUME Control
  PROVE  OneBatch
<1>1. \A b, c \in Batches : b = c
  <2>1. ASSUME NEW t \in Senders, NEW u \in Senders PROVE batch[t] = batch[u]
    BY DEF Control, Exclusive, Inside, Senders
  <2>2. ASSUME NEW t \in Senders, NEW j \in jobs PROVE batch[t] = j.batch
    BY DEF Control, Exclusive, Senders
  <2>3. ASSUME NEW j \in jobs, NEW k \in jobs PROVE j.batch = k.batch
    BY DEF Control, Exclusive
  <2> QED BY <2>1, <2>2, <2>3 DEF Batches
<1>2. CASE Batches = {}
  BY <1>2, FS_EmptySet DEF OneBatch
<1>3. CASE Batches # {}
  <2>1. PICK b : Batches = {b}
    BY <1>1, <1>3
  <2>2. Cardinality(Batches) = 1
    BY <2>1, FS_Singleton
  <2>3. sending
    BY <1>3 DEF Batches, Control, Exclusive, Inside, Senders
  <2> QED BY <2>2, <2>3 DEF OneBatch
<1> QED BY <1>2, <1>3

\* _sending_to_subscribers lets one batch be sent at a time, by any number of
\* threads: the tasks of the pool and the sender always hold the same one.
THEOREM OneBatchHolds == Spec => []OneBatch
<1>1. Init => TypeOK /\ Control
  BY InitTypeOK, InitControl
<1>2. TypeOK /\ Control /\ [Next]_vars => (TypeOK /\ Control)'
  BY NextTypeOK, NextControl
<1>3. TypeOK /\ Control => OneBatch
  BY ControlOneBatch
<1> QED BY <1>1, <1>2, <1>3, PTL DEF Spec

-----------------------------------------------------------------------------
(* No gap *)

\* A step that sends and hands nothing and neither creates nor destroys a muxer.
Steady ==
  /\ UNCHANGED <<live, fresh, jobs, first, got, from, log>>
  /\ \A t \in Thread : (pc'[t] = "first") <=> (pc[t] = "first")
  /\ \A t \in Thread : pc[t] = "first" => batch'[t] = batch[t]

LEMMA SteadySteps ==
  ASSUME TypeOK, Control,
         \/ Calm
         \/ \E t \in Thread : Wins(t) \/ SendNothing(t)
         \/ \E m \in Mux : Unsubscribe(m)
  PROVE  Steady
<1>t. /\ pc \in [Thread -> Pc] /\ batch \in [Thread -> Seq(EventId)]
      /\ Mux \subseteq Thread
  BY DEF TypeOK, Pc, Thread
<1>1. CASE Calm
  BY <1>1 DEF Calm, Steady, Inside
<1>2. ASSUME NEW t \in Thread, Wins(t) PROVE Steady
  BY <1>t, <1>2 DEF Wins, Steady, history
<1>3. ASSUME NEW t \in Thread, SendNothing(t) PROVE Steady
  BY <1>t, <1>3 DEF SendNothing, Steady, history, Returned
<1>4. ASSUME NEW m \in Mux, Unsubscribe(m) PROVE Steady
  BY <1>t, <1>4 DEF Unsubscribe, Steady, history
<1> QED BY <1>1, <1>2, <1>3, <1>4

LEMMA InitContinues == Init => Continues
<1> SUFFICES ASSUME Init PROVE Continues
  OBVIOUS
<1>1. /\ live = {} /\ jobs = {} /\ (\A t \in Thread : pc[t] = "idle")
      /\ (\A m \in Mux : got[m] = <<>> /\ from[m] = 0) /\ fresh = Mux /\ log = <<>>
  BY DEF Init
<1>2. Len(log) = 0
  BY <1>1, EmptySeq
<1>3. \A m \in Mux : from[m] <= Len(log)
  BY <1>1, <1>2
<1> QED BY <1>1, <1>3 DEF Continues

LEMMA SteadyContinues ==
  ASSUME Continues, Steady
  PROVE  Continues'
<1>1. /\ UNCHANGED <<live, fresh, jobs, first, got, from, log>>
      /\ \A t \in Thread : (pc'[t] = "first") <=> (pc[t] = "first")
      /\ \A t \in Thread : pc[t] = "first" => batch'[t] = batch[t]
  BY DEF Steady
<1>2. \A m : BeingHanded(m)' <=> BeingHanded(m)
  BY <1>1 DEF BeingHanded
<1>3. \A m : Since(m)' = Since(m)
  BY <1>1 DEF Since
<1>4. /\ \A m \in Mux : from[m] <= Len(log)
      /\ \A m \in fresh : got[m] = <<>>
      /\ \A j \in jobs : got[j.mux] \o j.batch = Since(j.mux)
      /\ \A t \in Thread : pc[t] = "first" => got[first[t]] \o batch[t] = Since(first[t])
      /\ \A m \in live : ~BeingHanded(m) => got[m] = Since(m)
  BY DEF Continues
<1> HIDE DEF BeingHanded, Since
<1>5. (\A m \in Mux : from[m] <= Len(log))' /\ (\A m \in fresh : got[m] = <<>>)'
  BY <1>1, <1>4
<1>6. (\A j \in jobs : got[j.mux] \o j.batch = Since(j.mux))'
  BY <1>1, <1>3, <1>4
<1>7. (\A t \in Thread : pc[t] = "first" => got[first[t]] \o batch[t] = Since(first[t]))'
  BY <1>1, <1>3, <1>4
<1>8. (\A m \in live : ~BeingHanded(m) => got[m] = Since(m))'
  BY <1>1, <1>2, <1>3, <1>4
<1> QED BY <1>5, <1>6, <1>7, <1>8 DEF Continues

\* The queue that is taken continues what every muxer got.
LEMMA SwapContinues ==
  ASSUME TypeOK, Control, Continues, NEW t \in Thread, SendSwap(t)
  PROVE  Continues'
<1>t. /\ pc \in [Thread -> Pc] /\ batch \in [Thread -> Seq(EventId)]
      /\ log \in Seq(EventId) /\ kiew \in Seq(EventId) /\ live \subseteq Mux
      /\ first \in [Thread -> Mux \cup {NoMux}] /\ from \in [Mux -> Nat]
      /\ Exclusive /\ Subscribed /\ Targets
  BY DEF TypeOK, Pc, Control
<1>1. /\ pc[t] = "swap" /\ pc'[t] = "first" /\ (\A u \in Thread \ {t} : pc'[u] = pc[u])
      /\ batch'[t] = kiew /\ log' = log \o kiew
      /\ UNCHANGED <<live, fresh, got, from>>
  BY <1>t DEF SendSwap
<1>2. jobs = {} /\ \A u \in Thread : pc[u] # "first"
  BY <1>t, <1>1 DEF Exclusive, Inside
<1>3. PICK i \in Lockable :
        /\ first' = [first EXCEPT ![t] = muxers[i]]
        /\ jobs' = jobs \cup {[mux |-> muxers[k], batch |-> kiew] : k \in Lockable \ {i}}
  BY DEF SendSwap
<1>4. \A j \in jobs' : \E k \in Lockable : j = [mux |-> muxers[k], batch |-> kiew]
  BY <1>2, <1>3
<1>5. \A k \in Lockable : muxers[k] \in live
  BY DEF Lockable
<1>6. Len(log) \in Nat /\ Len(log') = Len(log) + Len(kiew) /\ Len(kiew) \in Nat
  BY <1>t, <1>1, ConcatProperties, LenProperties
<1>7. \A m \in Mux : from[m] <= Len(log) /\ from'[m] <= Len(log') /\ from[m] \in Nat
  BY <1>t, <1>1, <1>6 DEF Continues
<1>8. ASSUME NEW m \in live PROVE got[m] \o kiew = Since(m)'
  <2>1. got[m] = Since(m)
    BY <1>2 DEF Continues, BeingHanded
  <2>2. from[m] \in 0 .. Len(log)
    BY <1>t, <1>6, <1>7
  <2>3. SubSeq(log \o kiew, from[m] + 1, Len(log \o kiew))
          = SubSeq(log, from[m] + 1, Len(log)) \o kiew
    BY <1>t, <2>2, SuffixGrows
  <2> QED BY <1>1, <2>1, <2>3 DEF Since
<1>9. \A j \in jobs' : j.mux \in live /\ j.batch = kiew
  BY <1>4, <1>5
<1>10. first'[t] \in live /\ \A u \in Thread \ {t} : pc'[u] # "first"
  BY <1>t, <1>1, <1>2, <1>3, <1>5
<1>11. \A m \in live : BeingHanded(m)'
  <2>1. ASSUME NEW m \in live PROVE BeingHanded(m)'
    <3>1. PICK k \in Lockable : muxers[k] = m
      BY <1>t DEF Subscribed, Lockable
    <3>2. CASE k = i
      <4>1. first'[t] = m
        BY <1>t, <1>3, <3>1, <3>2
      <4> QED BY <1>1, <4>1 DEF BeingHanded
    <3>3. CASE k # i
      <4>1. [mux |-> m, batch |-> kiew] \in jobs'
        BY <1>3, <3>1, <3>3
      <4> QED BY <4>1 DEF BeingHanded
    <3> QED BY <3>2, <3>3
  <2> QED BY <2>1
<1>12. (\A j \in jobs : got[j.mux] \o j.batch = Since(j.mux))'
  BY <1>1, <1>8, <1>9
<1>13. (\A u \in Thread : pc[u] = "first" => got[first[u]] \o batch[u] = Since(first[u]))'
  BY <1>1, <1>8, <1>10
<1>14. (\A m \in fresh : got[m] = <<>>)'
  BY <1>1 DEF Continues
<1> QED BY <1>1, <1>7, <1>11, <1>12, <1>13, <1>14 DEF Continues

\* The queue is sent to nobody: no muxer is alive.
LEMMA NobodyContinues ==
  ASSUME TypeOK, Control, Continues, NEW t \in Thread, SendToNobody(t)
  PROVE  Continues'
<1>t. /\ pc \in [Thread -> Pc] /\ log \in Seq(EventId) /\ kiew \in Seq(EventId)
      /\ from \in [Mux -> Nat] /\ Exclusive /\ Subscribed
  BY DEF TypeOK, Pc, Control
<1>1. /\ pc[t] = "swap" /\ pc'[t] \in {"idle", "after"}
      /\ (\A u \in Thread \ {t} : pc'[u] = pc[u])
      /\ log' = log \o kiew /\ UNCHANGED <<live, fresh, jobs, got, from>>
  BY <1>t DEF SendToNobody, Returned
<1>2. live = {}
  BY <1>t DEF SendToNobody, Subscribed, Lockable
<1>3. jobs = {} /\ \A u \in Thread : pc'[u] # "first"
  BY <1>t, <1>1 DEF Exclusive, Inside
<1>4. Len(log) \in Nat /\ Len(log') = Len(log) + Len(kiew) /\ Len(kiew) \in Nat
  BY <1>t, <1>1, ConcatProperties, LenProperties
<1>5. (\A m \in Mux : from[m] <= Len(log))'
  BY <1>t, <1>1, <1>4 DEF Continues
<1> QED BY <1>1, <1>2, <1>3, <1>5 DEF Continues

\* A muxer is handed its batch: the others keep what they have.
LEMMA HandedContinues ==
  ASSUME TypeOK, Control, Continues, NEW m \in live, NEW b,
         got[m] \o b = Since(m), m \notin fresh,
         got' = [got EXCEPT ![m] = @ \o b],
         UNCHANGED <<live, fresh, from, log>>,
         jobs' = {j \in jobs : j.mux # m},
         \A t \in Thread : (pc'[t] = "first") <=> (pc[t] = "first" /\ first[t] # m),
         \A t \in Thread : pc'[t] = "first" => batch'[t] = batch[t] /\ first'[t] = first[t]
  PROVE  Continues'
<1>t. live \subseteq Mux /\ fresh \subseteq Mux /\ got \in [Mux -> Seq(EventId)]
      /\ jobs \subseteq [mux : Mux, batch : Seq(EventId)]
      /\ first \in [Thread -> Mux \cup {NoMux}] /\ Targets
  BY DEF TypeOK, Control
<1>1. got'[m] = Since(m) /\ \A n \in Mux \ {m} : got'[n] = got[n]
  BY <1>t
<1>2. \A n : Since(n)' = Since(n)
  BY DEF Since
<1>3. \A n \in Mux \ {m} : BeingHanded(n)' <=> BeingHanded(n)
  BY DEF BeingHanded
<1>4. (\A n \in Mux : from[n] <= Len(log))' /\ (\A n \in fresh : got[n] = <<>>)'
  BY <1>t, <1>1 DEF Continues
<1>5. (\A j \in jobs : got[j.mux] \o j.batch = Since(j.mux))'
  BY <1>t, <1>1, <1>2 DEF Continues
<1>6. (\A t \in Thread : pc[t] = "first" => got[first[t]] \o batch[t] = Since(first[t]))'
  <2>1. ASSUME NEW t \in Thread, pc'[t] = "first"
        PROVE  got'[first'[t]] \o batch'[t] = Since(first[t])'
    <3>1. pc[t] = "first" /\ first[t] # m /\ first[t] \in Mux
      BY <1>t, <2>1 DEF Targets
    <3>2. got[first[t]] \o batch[t] = Since(first[t])
      BY <3>1 DEF Continues
    <3>3. first'[t] = first[t] /\ batch'[t] = batch[t]
      BY <2>1
    <3>4. Since(first[t])' = SubSeq(log', from'[first'[t]] + 1, Len(log'))
      BY DEF Since
    <3> QED BY <1>1, <3>1, <3>2, <3>3, <3>4 DEF Since
  <2> QED BY <2>1
<1>7. (\A n \in live : ~BeingHanded(n) => got[n] = Since(n))'
  BY <1>t, <1>1, <1>2, <1>3 DEF Continues
<1> QED BY <1>4, <1>5, <1>6, <1>7 DEF Continues

LEMMA FirstContinues ==
  ASSUME TypeOK, Control, Continues, NEW t \in Thread, SendFirst(t)
  PROVE  Continues'
<1>t. /\ Exclusive /\ Subscribed /\ Targets /\ live \subseteq Mux
      /\ first \in [Thread -> Mux \cup {NoMux}]
  BY DEF TypeOK, Control
<1>f. /\ pc'[t] \in {"idle", "wait", "after"}
      /\ \A u \in Thread \ {t} : pc'[u] = pc[u] \/ (pc[u] = "wait" /\ pc'[u] = "after")
      /\ \A u \in Thread \ {t} : batch'[u] = batch[u]
      /\ first' = [first EXCEPT ![t] = NoMux]
  BY <1>t, FirstFacts
<1>1. /\ pc[t] = "first" /\ got' = [got EXCEPT ![first[t]] = @ \o batch[t]]
      /\ UNCHANGED <<live, fresh, from, log, jobs>>
  BY DEF SendFirst
<1>2. \A u \in Thread : pc'[u] # "first" /\ (pc[u] = "first" => u = t)
  BY <1>t, <1>f, <1>1 DEF Exclusive, Inside
<1>3. /\ first[t] \in live /\ first[t] \notin fresh
      /\ got[first[t]] \o batch[t] = Since(first[t])
  BY <1>t, <1>1 DEF Targets, Subscribed, Continues
<1>4. jobs' = {j \in jobs : j.mux # first[t]}
  BY <1>t, <1>1 DEF Targets
<1> QED BY <1>1, <1>2, <1>3, <1>4, HandedContinues

LEMMA JobContinues ==
  ASSUME TypeOK, Control, Continues, NEW j \in jobs, RunJob(j)
  PROVE  Continues'
<1>t. Exclusive /\ Subscribed /\ Targets
  BY DEF Control
<1>f. \A u \in Thread : pc'[u] = pc[u] \/ (pc[u] = "wait" /\ pc'[u] = "after")
  BY <1>t, JobFacts
<1>1. /\ jobs' = jobs \ {j} /\ got' = [got EXCEPT ![j.mux] = @ \o j.batch]
      /\ UNCHANGED <<live, fresh, from, log, first, batch>>
  BY DEF RunJob
<1>2. \A u \in Thread : (pc'[u] = "first") <=> (pc[u] = "first" /\ first[u] # j.mux)
  BY <1>t, <1>f DEF Targets
<1>3. /\ j.mux \in live /\ j.mux \notin fresh
      /\ got[j.mux] \o j.batch = Since(j.mux)
  BY <1>t DEF Targets, Subscribed, Continues
<1>4. jobs' = {k \in jobs : k.mux # j.mux}
  BY <1>t, <1>1 DEF Targets
<1> QED BY <1>1, <1>2, <1>3, <1>4, HandedContinues

LEMMA SubscribeContinues ==
  ASSUME TypeOK, Control, Continues, NEW m \in Mux, Subscribe(m)
  PROVE  Continues'
<1>t. /\ log \in Seq(EventId) /\ Len(log) \in Nat /\ from \in [Mux -> Nat]
      /\ live \subseteq Mux /\ fresh \subseteq Mux
      /\ first \in [Thread -> Mux \cup {NoMux}]
      /\ jobs \subseteq [mux : Mux, batch : Seq(EventId)]
      /\ Subscribed /\ Targets
  BY LenProperties DEF TypeOK, Control
<1>1. /\ m \in fresh /\ fresh' = fresh \ {m} /\ live' = live \cup {m}
      /\ from' = [from EXCEPT ![m] = Len(log)]
      /\ UNCHANGED <<jobs, pc, first, batch, got, log>>
  BY DEF Subscribe, threadVars
<1>2. m \notin live
  BY <1>t, <1>1 DEF Subscribed
<1>3. \A n \in Mux \ {m} : Since(n)' = Since(n)
  BY <1>t, <1>1 DEF Since
<1>4. \A n : BeingHanded(n)' <=> BeingHanded(n)
  BY <1>1 DEF BeingHanded
<1>5. got'[m] = Since(m)'
  <2>1. got[m] = <<>>
    BY <1>1 DEF Continues
  <2>2. SubSeq(log, Len(log) + 1, Len(log)) = <<>>
    BY <1>t, SubSeqEmpty
  <2> QED BY <1>t, <1>1, <2>1, <2>2 DEF Since
<1>6. (\A n \in Mux : from[n] <= Len(log))' /\ (\A n \in fresh : got[n] = <<>>)'
  BY <1>t, <1>1 DEF Continues
<1>7. (\A j \in jobs : got[j.mux] \o j.batch = Since(j.mux))'
  BY <1>t, <1>1, <1>2, <1>3 DEF Continues, Targets
<1>8. (\A t \in Thread : pc[t] = "first" => got[first[t]] \o batch[t] = Since(first[t]))'
  BY <1>t, <1>1, <1>2, <1>3 DEF Continues, Targets
<1>9. (\A n \in live : ~BeingHanded(n) => got[n] = Since(n))'
  BY <1>t, <1>1, <1>3, <1>4, <1>5 DEF Continues
<1> QED BY <1>6, <1>7, <1>8, <1>9 DEF Continues

LEMMA ExpireContinues ==
  ASSUME TypeOK, Control, Continues, NEW m \in Mux, Expire(m)
  PROVE  Continues'
<1>t. pc \in [Thread -> Pc] /\ Mux \subseteq Thread /\ Subscribed
  BY DEF TypeOK, Control, Pc, Thread
<1>1. /\ live' \subseteq live /\ UNCHANGED <<fresh, jobs, first, batch, got, from, log>>
      /\ m \in live
  BY DEF Expire, history
<1>2. \A t \in Thread : (pc'[t] = "first") <=> (pc[t] = "first")
  BY <1>t, <1>1 DEF Expire, Subscribed
<1>3. \A n : BeingHanded(n)' <=> BeingHanded(n)
  BY <1>1, <1>2 DEF BeingHanded
<1>4. \A n : Since(n)' = Since(n)
  BY <1>1 DEF Since
<1>5. (\A n \in Mux : from[n] <= Len(log))' /\ (\A n \in fresh : got[n] = <<>>)'
  BY <1>1 DEF Continues
<1>6. (\A j \in jobs : got[j.mux] \o j.batch = Since(j.mux))'
  BY <1>1, <1>4 DEF Continues
<1>7. (\A t \in Thread : pc[t] = "first" => got[first[t]] \o batch[t] = Since(first[t]))'
  BY <1>1, <1>2, <1>4 DEF Continues
<1>8. (\A n \in live : ~BeingHanded(n) => got[n] = Since(n))'
  BY <1>1, <1>3, <1>4 DEF Continues
<1> QED BY <1>5, <1>6, <1>7, <1>8 DEF Continues

LEMMA NextContinues ==
  ASSUME TypeOK, Control, Continues, [Next]_vars
  PROVE  Continues'
<1>1. Subscribed
  BY DEF Control
<1> QED BY <1>1, CasCases, CalmSteps, SteadySteps, SteadyContinues, SwapContinues,
           NobodyContinues, FirstContinues, JobContinues, SubscribeContinues,
           ExpireContinues DEF Next, Send

\* What Handing names.
LEMMA ContinuesComplete ==
  ASSUME TypeOK, Control, Continues
  PROVE  Complete
<1>t. got \in [Mux -> Seq(EventId)] /\ live \subseteq Mux /\ Targets /\ NoMux \notin Mux
  BY MuxEngineAssumption DEF TypeOK, Control
<1> SUFFICES ASSUME NEW m \in live PROVE got[m] \o Handing(m) = Since(m)
  BY DEF Complete, Since
<1>1. CASE \E j \in jobs : j.mux = m
  <2> DEFINE j == CHOOSE j \in jobs : j.mux = m
  <2>1. j \in jobs /\ j.mux = m /\ Handing(m) = j.batch
    BY <1>1 DEF Handing
  <2> HIDE DEF j
  <2> QED BY <2>1 DEF Continues
<1>2. CASE ~(\E j \in jobs : j.mux = m) /\ \E t \in Thread : first[t] = m
  <2> DEFINE t == CHOOSE t \in Thread : first[t] = m
  <2>1. t \in Thread /\ first[t] = m /\ Handing(m) = batch[t]
    BY <1>2 DEF Handing
  <2> HIDE DEF t
  <2>2. pc[t] = "first"
    BY <1>t, <2>1 DEF Targets
  <2> QED BY <2>1, <2>2 DEF Continues
<1>3. CASE ~(\E j \in jobs : j.mux = m) /\ ~(\E t \in Thread : first[t] = m)
  <2>1. Handing(m) = <<>> /\ ~BeingHanded(m)
    BY <1>3 DEF Handing, BeingHanded
  <2>2. got[m] \o <<>> = got[m]
    BY <1>t, ConcatEmptySeq
  <2> QED BY <2>1, <2>2 DEF Continues
<1> QED BY <1>1, <1>2, <1>3

Safe == TypeOK /\ Control /\ Continues

LEMMA InitSafe == Init => Safe
  BY InitTypeOK, InitControl, InitContinues DEF Safe

LEMMA NextSafe == Safe /\ [Next]_vars => Safe'
  BY NextTypeOK, NextControl, NextContinues DEF Safe

\* A subscribed muxer has got, or is being handed, all the events that were sent
\* since it subscribed, in the order of sending, whatever the threads and the
\* pool do and whoever comes and goes.
THEOREM CompleteHolds == Spec => []Complete
<1>1. Safe => Complete
  BY ContinuesComplete DEF Safe
<1> QED BY <1>1, InitSafe, NextSafe, PTL DEF Spec

-----------------------------------------------------------------------------
(* The engine implements the ordered broadcast *)

\* The log grows by the queue that was taken.
LEMMA TakenIsSend ==
  ASSUME TypeOK, kiew # <<>>, log' = log \o kiew, UNCHANGED <<from, got>>
  PROVE  B!Send
<1>1. log \in Seq(EventId) /\ kiew \in Seq(EventId)
  BY DEF TypeOK
<1>2. /\ Len(log) \in Nat /\ Len(kiew) \in Nat \ {0} /\ Len(log') = Len(log) + Len(kiew)
      /\ log' \in Seq(EventId)
      /\ \A i \in 1 .. Len(log) + Len(kiew) :
           log'[i] = IF i <= Len(log) THEN log[i] ELSE kiew[i - Len(log)]
  BY <1>1, ConcatProperties, LenProperties, EmptySeq
<1>3. Len(kiew) \in 1 .. Len(log') /\ Len(log') - Len(kiew) = Len(log)
  BY <1>2
<1>4. log = SubSeq(log', 1, Len(log))
  <2>1. \A i \in 1 .. Len(log) : log'[i] = log[i] /\ log[i] \in EventId
    BY <1>1, <1>2
  <2>2. /\ SubSeq(log', 1, Len(log)) \in Seq(EventId)
        /\ Len(SubSeq(log', 1, Len(log))) = Len(log)
        /\ \A i \in 1 .. Len(log) : SubSeq(log', 1, Len(log))[i] = log'[i]
    <3>1. \A i \in 1 .. Len(log) : log'[i] \in EventId
      BY <2>1
    <3> QED BY <1>2, <3>1, SubSeqProperties
  <2> QED BY <1>1, <2>1, <2>2, SeqEqual
<1> QED BY <1>3, <1>4 DEF B!Send

\* A muxer that gets its batch is handed the rest of the log.
LEMMA HandedIsHand ==
  ASSUME Safe, NEW m \in Mux, NEW b \in Seq(EventId), b # <<>>,
         got[m] \o b = Since(m), got' = [got EXCEPT ![m] = @ \o b],
         UNCHANGED <<from, log>>
  PROVE  B!Hand(m)
<1>1. /\ got \in [Mux -> Seq(EventId)] /\ from \in [Mux -> Nat] /\ log \in Seq(EventId)
      /\ from[m] <= Len(log)
  BY DEF Safe, TypeOK, Continues
<1>2. /\ Len(log) \in Nat /\ Len(got[m]) \in Nat /\ Len(b) \in Nat \ {0}
      /\ Len(got[m] \o b) = Len(got[m]) + Len(b)
  BY <1>1, LenProperties, ConcatProperties, EmptySeq
<1>3. Len(Since(m)) = Len(log) - from[m]
  <2>1. \A i \in from[m] + 1 .. Len(log) : log[i] \in EventId
    BY <1>1, <1>2
  <2> QED BY <1>1, <1>2, <2>1, SubSeqProperties DEF Since
<1>4. from[m] + Len(got[m]) < Len(log) /\ Len(log) \in 1 .. Len(log)
  BY <1>1, <1>2, <1>3
<1>5. got' = [got EXCEPT ![m] = SubSeq(log, from[m] + 1, Len(log))]
  BY DEF Since
<1> QED BY <1>4, <1>5 DEF B!Hand

LEMMA NextImplementsBroadcast ==
  ASSUME Safe, [Next]_vars
  PROVE  [B!Next]_<<log, from, got>>
<1>t. TypeOK /\ Exclusive /\ Subscribed /\ Targets /\ Continues
  BY DEF Safe, Control
<1>s. Steady => UNCHANGED <<log, from, got>>
  BY DEF Steady
<1>1. ASSUME NEW t \in Thread, SendSwap(t) \/ SendToNobody(t) PROVE B!Next
  <2>1. kiew # <<>> /\ log' = log \o kiew /\ UNCHANGED <<from, got>>
    BY <1>1 DEF SendSwap, SendToNobody
  <2> QED BY <1>t, <2>1, TakenIsSend DEF B!Next
<1>2. ASSUME NEW t \in Thread, SendFirst(t) PROVE B!Next
  <2>1. /\ pc[t] = "first" /\ got' = [got EXCEPT ![first[t]] = @ \o batch[t]]
        /\ UNCHANGED <<from, log>>
    BY <1>2 DEF SendFirst
  <2>2. first[t] \in Mux /\ batch[t] \in Seq(EventId) /\ batch[t] # <<>>
        /\ got[first[t]] \o batch[t] = Since(first[t])
    BY <1>t, <2>1 DEF TypeOK, Targets, Exclusive, Continues
  <2>3. B!Hand(first[t])
    BY <2>1, <2>2, HandedIsHand
  <2> QED BY <2>2, <2>3 DEF B!Next
<1>3. ASSUME NEW j \in jobs, RunJob(j) PROVE B!Next
  <2>1. got' = [got EXCEPT ![j.mux] = @ \o j.batch] /\ UNCHANGED <<from, log>>
    BY <1>3 DEF RunJob
  <2>2. j.mux \in Mux /\ j.batch \in Seq(EventId) /\ j.batch # <<>>
        /\ got[j.mux] \o j.batch = Since(j.mux)
    BY <1>t DEF TypeOK, Exclusive, Continues
  <2>3. B!Hand(j.mux)
    BY <2>1, <2>2, HandedIsHand
  <2> QED BY <2>2, <2>3 DEF B!Next
<1>4. ASSUME NEW m \in Mux, Subscribe(m) PROVE B!Next
  <2>1. m \in fresh /\ from' = [from EXCEPT ![m] = Len(log)] /\ UNCHANGED <<got, log>>
    BY <1>4 DEF Subscribe
  <2>2. got \in [Mux -> Seq(EventId)] /\ got[m] = <<>>
    BY <1>t, <2>1 DEF TypeOK, Continues
  <2>3. got' = [got EXCEPT ![m] = <<>>]
    BY <2>1, <2>2
  <2>4. B!Join(m)
    BY <2>1, <2>3 DEF B!Join
  <2> QED BY <2>4 DEF B!Next
<1>5. ASSUME NEW m \in Mux, Expire(m) PROVE UNCHANGED <<log, from, got>>
  BY <1>5 DEF Expire, history
<1>6. Control
  BY DEF Safe
<1> QED BY <1>t, <1>s, <1>1, <1>2, <1>3, <1>4, <1>5, <1>6, CasCases, CalmSteps,
           SteadySteps DEF Next, Send

\* The engine with its threads, its pool and its muxers implements the
\* broadcast: one order of publication, handed to each subscriber without gap,
\* repetition or swap from where it joined.
THEOREM BroadcastImplemented == Spec => OrderedBroadcast
<1>1. Init => B!Init
  BY DEF Init, B!Init
<1>2. Safe /\ [Next]_vars => [B!Next]_<<log, from, got>>
  BY NextImplementsBroadcast
<1> QED BY <1>1, <1>2, InitSafe, NextSafe, PTL DEF Spec, OrderedBroadcast, B!Spec

-----------------------------------------------------------------------------
(* No event disappears *)

InBatches == UNION {ToSet(b) : b \in Batches}

\* The batches that are being handed change with jobs and senders only.
LEMMA SteadyBatches ==
  ASSUME Steady
  PROVE  InBatches' = InBatches /\ Handed' = Handed
<1>1. Senders' = Senders
  BY DEF Senders, Steady
<1>2. {batch'[t] : t \in Senders} = {batch[t] : t \in Senders}
  BY DEF Senders, Steady
<1>3. Batches' = Batches
  BY <1>1, <1>2 DEF Batches, Steady
<1>4. Handed' = Handed
  BY DEF Handed, Steady
<1> QED BY <1>3, <1>4 DEF InBatches

\* What a muxer gets is added to Handed.
LEMMA HandedGrows ==
  ASSUME TypeOK, NEW m \in Mux, NEW b \in Seq(EventId),
         got' = [got EXCEPT ![m] = @ \o b]
  PROVE  Handed \cup ToSet(b) \subseteq Handed'
<1>1. got \in [Mux -> Seq(EventId)]
  BY DEF TypeOK
<1>2. ToSet(got'[m]) = ToSet(got[m]) \cup ToSet(b)
  BY <1>1, ToSetConcat
<1>3. \A n \in Mux : ToSet(got[n]) \subseteq ToSet(got'[n])
  <2>1. \A n \in Mux \ {m} : got'[n] = got[n]
    BY <1>1
  <2> QED BY <1>2, <2>1
<1> QED BY <1>2, <1>3 DEF Handed

\* No step but unload() makes an event leave all the places it may be in.
LEMMA ElsewhereGrows ==
  ASSUME TypeOK, Control, Next \/ UNCHANGED vars, ~Unload
  PROVE  Elsewhere \subseteq Elsewhere'
<1>t. /\ kiew \in Seq(EventId) /\ cache \in Seq(EventId) /\ added \in Seq(EventId)
      /\ batch \in [Thread -> Seq(EventId)] /\ pc \in [Thread -> Pc]
      /\ jobs \subseteq [mux : Mux, batch : Seq(EventId)]
      /\ first \in [Thread -> Mux \cup {NoMux}] /\ MaxEvents \in Nat
      /\ next \in 0 .. MaxEvents /\ live \subseteq Mux
      /\ Exclusive /\ Subscribed /\ Targets
  BY MuxEngineAssumption DEF TypeOK, Pc, Control
<1>d. Elsewhere = ToSet(kiew) \cup InBatches \cup Handed \cup ToSet(added) \cup dropped
      /\ Elsewhere' = ToSet(kiew') \cup InBatches' \cup Handed' \cup ToSet(added')
                      \cup dropped'
  BY DEF Elsewhere, InBatches
<1>s. ASSUME Steady, ToSet(kiew) \subseteq ToSet(kiew'), ToSet(added) \subseteq ToSet(added'),
             dropped \subseteq dropped'
      PROVE  Elsewhere \subseteq Elsewhere'
  BY <1>d, <1>s, SteadyBatches
<1>1. ASSUME NEW t \in Thread, SendCas(t) \/ SendNothing(t) PROVE Elsewhere \subseteq Elsewhere'
  <2>1. Steady
    BY <1>1, <1>t, CasCases, SteadySteps
  <2>2. UNCHANGED <<kiew, added, dropped>>
    BY <1>1 DEF SendCas, SendNothing, cacheVars, history
  <2> QED BY <1>s, <2>1, <2>2
<1>2. ASSUME NEW t \in Thread, SendSwap(t) PROVE Elsewhere \subseteq Elsewhere'
  <2>1. /\ pc[t] = "swap" /\ pc'[t] = "first" /\ batch'[t] = kiew
        /\ UNCHANGED <<added, dropped, got>>
    BY <1>t, <1>2 DEF SendSwap, cacheVars
  <2>2. jobs = {} /\ Senders = {}
    BY <1>t, <2>1 DEF Exclusive, Inside, Senders
  <2>3. kiew \in Batches'
    BY <2>1 DEF Batches, Senders
  <2>4. InBatches = {} /\ ToSet(kiew) \subseteq InBatches'
    BY <2>2, <2>3 DEF InBatches, Batches
  <2>5. Handed' = Handed
    BY <2>1 DEF Handed
  <2> QED BY <1>d, <2>1, <2>4, <2>5
<1>3. ASSUME NEW t \in Thread, SendToNobody(t) PROVE Elsewhere \subseteq Elsewhere'
  <2>1. /\ pc[t] = "swap" /\ UNCHANGED <<added, got>>
        /\ dropped' = dropped \cup ToSet(kiew)
    BY <1>3 DEF SendToNobody, cacheVars
  <2>2. jobs = {} /\ Senders = {}
    BY <1>t, <2>1 DEF Exclusive, Inside, Senders
  <2>3. InBatches = {} /\ Handed' = Handed
    BY <2>1, <2>2 DEF InBatches, Batches, Handed
  <2> QED BY <1>d, <2>1, <2>3
<1>4. ASSUME NEW t \in Thread, SendFirst(t) PROVE Elsewhere \subseteq Elsewhere'
  <2>1. /\ pc[t] = "first" /\ got' = [got EXCEPT ![first[t]] = @ \o batch[t]]
        /\ UNCHANGED <<kiew, jobs, added, dropped>>
    BY <1>4 DEF SendFirst, cacheVars
  <2>2. first[t] \in Mux
    BY <1>t, <2>1 DEF Targets
  <2>3. Handed \cup ToSet(batch[t]) \subseteq Handed'
    BY <1>t, <2>1, <2>2, HandedGrows
  <2>4. Batches \subseteq Batches' \cup {batch[t]}
    <3>1. Senders \subseteq {t}
      BY <1>t, <2>1 DEF Senders, Exclusive, Inside
    <3> QED BY <2>1, <3>1 DEF Batches
  <2>5. InBatches \subseteq InBatches' \cup ToSet(batch[t])
    BY <2>4 DEF InBatches
  <2> QED BY <1>d, <2>1, <2>3, <2>5
<1>5. ASSUME NEW j \in jobs, RunJob(j) PROVE Elsewhere \subseteq Elsewhere'
  <2>1. /\ got' = [got EXCEPT ![j.mux] = @ \o j.batch] /\ jobs' = jobs \ {j}
        /\ UNCHANGED <<kiew, batch, added, dropped>>
    BY <1>5 DEF RunJob, cacheVars
  <2>2. Handed \cup ToSet(j.batch) \subseteq Handed'
    BY <1>t, <2>1, HandedGrows
  <2>3. Senders' = Senders
    <3>1. \A u \in Thread : pc'[u] = pc[u] \/ (pc[u] = "wait" /\ pc'[u] = "after")
      BY <1>t, <1>5, JobFacts
    <3> QED BY <3>1 DEF Senders
  <2>4. Batches \subseteq Batches' \cup {j.batch}
    BY <2>1, <2>3 DEF Batches
  <2>5. InBatches \subseteq InBatches' \cup ToSet(j.batch)
    BY <2>4 DEF InBatches
  <2> QED BY <1>d, <2>1, <2>2, <2>5
<1>6. ASSUME NEW t \in Thread, NEW n \in 1 .. MaxDeque, Publish(t, n)
      PROVE  Elsewhere \subseteq Elsewhere'
  <2>1. Steady
    BY <1>t, <1>6, CalmSteps, SteadySteps
  <2> DEFINE es == [i \in 1 .. n |-> next + i]
  <2>2. es \in Seq(EventId)
    <3>1. \A i \in 1 .. n : next + i \in EventId
      BY <1>t, <1>6 DEF Publish, EventId
    <3> QED BY <3>1
  <2>3. /\ kiew' = kiew \/ kiew' = kiew \o es
        /\ added' = added \/ added' = added \o es
        /\ dropped' = dropped
    BY <1>6 DEF Publish
  <2> HIDE DEF es
  <2>4. ToSet(kiew) \subseteq ToSet(kiew') /\ ToSet(added) \subseteq ToSet(added')
    <3>1. /\ ToSet(kiew \o es) = ToSet(kiew) \cup ToSet(es)
          /\ ToSet(added \o es) = ToSet(added) \cup ToSet(es)
      BY <1>t, <2>2, ToSetConcat
    <3> QED BY <2>3, <3>1
  <2> QED BY <1>s, <2>1, <2>3, <2>4
<1>7. ASSUME Start PROVE Elsewhere \subseteq Elsewhere'
  <2>1. Steady
    BY <1>t, <1>7, CalmSteps, SteadySteps
  <2>2. kiew' = cache \o kiew /\ UNCHANGED <<added, dropped>>
    BY <1>7 DEF Start, cacheVars, history
  <2>3. ToSet(kiew) \subseteq ToSet(kiew')
    BY <1>t, <2>2, ToSetConcat
  <2> QED BY <1>s, <2>1, <2>2, <2>3
<1>8. ASSUME Stop \/ StopOpenCache \/ UNCHANGED vars PROVE Elsewhere \subseteq Elsewhere'
  <2>1. Steady
    BY <1>t, <1>8, CalmSteps, SteadySteps
  <2>2. UNCHANGED <<kiew, added, dropped>>
    BY <1>8 DEF Stop, StopOpenCache, vars, cacheVars, history
  <2> QED BY <1>s, <2>1, <2>2
<1>9. ASSUME NEW m \in Mux, Unsubscribe(m) PROVE Elsewhere \subseteq Elsewhere'
  <2>1. Steady
    BY <1>t, <1>9, SteadySteps
  <2>2. UNCHANGED <<kiew, added, dropped>>
    BY <1>9 DEF Unsubscribe, cacheVars, history
  <2> QED BY <1>s, <2>1, <2>2
<1>10. ASSUME NEW m \in Mux, Subscribe(m) \/ Expire(m) PROVE Elsewhere \subseteq Elsewhere'
  <2>1. UNCHANGED <<kiew, added, dropped, got, jobs, batch>>
    BY <1>10 DEF Subscribe, Expire, cacheVars, threadVars, history
  <2>2. Senders' = Senders
    <3>1. CASE Subscribe(m)
      BY <3>1 DEF Subscribe, Senders, threadVars
    <3>2. CASE Expire(m)
      <4>1. pc[m] = "idle" /\ pc' = [pc EXCEPT ![m] = "cas"]
        BY <1>t, <3>2 DEF Expire, Subscribed
      <4> QED BY <1>t, <4>1 DEF Senders
    <3> QED BY <1>10, <3>1, <3>2
  <2>3. InBatches' = InBatches /\ Handed' = Handed
    BY <2>1, <2>2 DEF InBatches, Batches, Handed
  <2> QED BY <1>d, <2>1, <2>3
<1> QED BY <1>1, <1>2, <1>3, <1>4, <1>5, <1>6, <1>7, <1>8, <1>9, <1>10 DEF Next, Send

\* The cache file is opened by stop() and by nobody else.
LEMMA NextCacheOpened ==
  ASSUME TypeOK, Control, CacheOpened, [Next]_vars
  PROVE  CacheOpened'
<1>t. /\ pc \in [Thread -> Pc] /\ Main \in Thread /\ Main \notin Mux
      /\ Main \notin Publisher /\ cacheFile \in BOOLEAN /\ Exclusive
  BY MuxEngineAssumption DEF TypeOK, Pc, Thread, Control
<1>1. ASSUME UNCHANGED <<cacheFile, added>>, pc[Main] = "done" => pc'[Main] = "done"
      PROVE  CacheOpened'
  BY <1>1 DEF CacheOpened
<1>2. ASSUME NEW t \in Thread, Send(t) PROVE CacheOpened'
  <2>1. pc[t] \in {"cas", "swap", "first"} /\ UNCHANGED <<cacheFile, added>>
    BY <1>2 DEF Send, SendCas, SendNothing, SendSwap, SendToNobody, SendFirst, cacheVars
  <2>2. CASE SendFirst(t)
    BY <1>t, <1>1, <2>1, <2>2, FirstFacts
  <2>3. CASE ~SendFirst(t)
    <3>1. PICK x : pc' = [pc EXCEPT ![t] = x]
      BY <1>2, <2>3 DEF Send, SendCas, SendNothing, SendSwap, SendToNobody
    <3> QED BY <1>t, <1>1, <2>1, <3>1
  <2> QED BY <2>2, <2>3
<1>3. ASSUME NEW j \in jobs, RunJob(j) PROVE CacheOpened'
  <2>1. UNCHANGED <<cacheFile, added>>
    BY <1>3 DEF RunJob, cacheVars
  <2> QED BY <1>t, <1>1, <1>3, <2>1, JobFacts
<1>4. ASSUME NEW t \in Thread, NEW n \in 1 .. MaxDeque, Publish(t, n) PROVE CacheOpened'
  <2>1. t \in Publisher /\ (pc' = pc \/ pc' = [pc EXCEPT ![t] = "cas"])
        /\ cacheFile' = cacheFile /\ (added' = added \/ cacheFile)
    BY <1>4 DEF Publish
  <2>2. pc'[Main] = pc[Main]
    BY <1>t, <2>1
  <2> QED BY <2>1, <2>2 DEF CacheOpened
<1>5. ASSUME Start \/ Stop PROVE CacheOpened'
  <2>1. pc[Main] = "idle" /\ UNCHANGED <<cacheFile, added>>
    BY <1>5 DEF Start, Stop, cacheVars
  <2> QED BY <1>1, <2>1
<1>6. ASSUME StopOpenCache PROVE CacheOpened'
  <2>1. pc[Main] = "after" /\ pc'[Main] = "done" /\ added' = added
    BY <1>t, <1>6 DEF StopOpenCache
  <2>2. added = <<>>
    BY <2>1 DEF CacheOpened
  <2> QED BY <2>1, <2>2 DEF CacheOpened
<1>7. ASSUME Unload PROVE CacheOpened'
  BY <1>7 DEF Unload, CacheOpened
<1>8. ASSUME NEW m \in Mux, Subscribe(m) \/ Expire(m) \/ Unsubscribe(m) PROVE CacheOpened'
  <2>1. UNCHANGED <<cacheFile, added>> /\ \E x : pc' = pc \/ pc' = [pc EXCEPT ![m] = x]
    BY <1>8 DEF Subscribe, Expire, Unsubscribe, cacheVars, threadVars
  <2>2. pc'[Main] = pc[Main]
    BY <1>t, <2>1
  <2> QED BY <1>1, <2>1, <2>2
<1>9. CASE UNCHANGED vars
  BY <1>1, <1>9 DEF vars, cacheVars, threadVars
<1> QED BY <1>2, <1>3, <1>4, <1>5, <1>6, <1>7, <1>8, <1>9 DEF Next

\* Published events are kept in memory until unload(), on disk afterwards.
LEMMA NextKept ==
  ASSUME Safe, CacheOpened, KeptElsewhere, Kept, [Next]_vars
  PROVE  (KeptElsewhere /\ Kept)'
<1>t. /\ TypeOK /\ Control /\ kiew \in Seq(EventId) /\ added \in Seq(EventId)
      /\ next \in 0 .. MaxEvents /\ MaxEvents \in Nat /\ cacheFile \in BOOLEAN
      /\ nullCache \in BOOLEAN /\ batch \in [Thread -> Seq(EventId)]
  BY MuxEngineAssumption DEF Safe, TypeOK
<1>s. /\ Somewhere = Elsewhere \cup ToSet(cache)
      /\ Somewhere' = Elsewhere' \cup ToSet(cache')
  BY DEF Somewhere, Elsewhere
<1>1. ASSUME NEW t \in Thread, NEW n \in 1 .. MaxDeque, Publish(t, n)
      PROVE  (KeptElsewhere /\ Kept)'
  <2> DEFINE es == [i \in 1 .. n |-> next + i]
  <2>1. /\ state # "unloaded" /\ next' = next + n /\ next + n <= MaxEvents
        /\ \/ kiew' = kiew \o es /\ UNCHANGED <<added, nullCache>>
           \/ added' = added \o es /\ UNCHANGED <<kiew, nullCache>>
           \/ nullCache' = TRUE
    BY <1>1 DEF Publish
  <2>2. es \in Seq(EventId)
    <3>1. \A i \in 1 .. n : next + i \in EventId
      BY <1>t, <2>1 DEF EventId
    <3> QED BY <3>1
  <2>3. next + 1 .. next + n \subseteq ToSet(es)
    <3>1. ASSUME NEW e \in next + 1 .. next + n PROVE e \in ToSet(es)
      <4>1. e - next \in 1 .. n /\ next + (e - next) = e
        BY <1>t
      <4>2. e - next \in DOMAIN es /\ es[e - next] = e
        BY <4>1
      <4> HIDE DEF es
      <4> QED BY <4>2 DEF ToSet
    <3> QED BY <3>1
  <2> HIDE DEF es
  <2>4. CASE nullCache'
    BY <2>4 DEF KeptElsewhere, Kept
  <2>5. CASE ~nullCache'
    <3>1. ToSet(es) \subseteq ToSet(kiew') \cup ToSet(added') /\ ~nullCache
      <4>1. /\ ToSet(kiew \o es) = ToSet(kiew) \cup ToSet(es)
            /\ ToSet(added \o es) = ToSet(added) \cup ToSet(es)
        BY <1>t, <2>2, ToSetConcat
      <4>2. ~nullCache
        BY <1>1, <2>5 DEF Publish
      <4> QED BY <2>1, <2>5, <4>1, <4>2
    <3>2. ToSet(kiew') \cup ToSet(added') \subseteq Elsewhere'
      BY DEF Elsewhere
    <3>3. Elsewhere \subseteq Elsewhere'
      <4>1. ~Unload
        BY <1>1 DEF Unload, Publish
      <4> QED BY <1>t, <1>1, <4>1, ElsewhereGrows DEF Next
    <3>4. 1 .. next \subseteq Elsewhere
      BY <2>1, <3>1 DEF KeptElsewhere
    <3>5. 1 .. next' \subseteq 1 .. next \cup (next + 1 .. next + n)
      BY <1>t, <2>1
    <3>6. 1 .. next' \subseteq Elsewhere'
      BY <2>3, <3>1, <3>2, <3>3, <3>4, <3>5
    <3> QED BY <1>s, <3>6 DEF KeptElsewhere, Kept
  <2> QED BY <2>4, <2>5
<1>2. ASSUME Unload PROVE (KeptElsewhere /\ Kept)'
  <2>1. /\ state # "unloaded" /\ state' = "unloaded" /\ cache' = Unprocessed
        /\ dropped' = (IF cacheFile THEN dropped ELSE dropped \cup ToSet(kiew))
        /\ UNCHANGED <<next, nullCache>>
    BY <1>2 DEF Unload
  <2>2. Steady
    BY <1>t, <1>2, CalmSteps, SteadySteps DEF Control
  <2>3. InBatches' = InBatches /\ Handed' = Handed
    BY <2>2, SteadyBatches
  <2>4. /\ Elsewhere = ToSet(kiew) \cup InBatches \cup Handed \cup ToSet(added) \cup dropped
        /\ InBatches' \cup Handed' \cup dropped' \subseteq Elsewhere'
    BY DEF Elsewhere, InBatches
  <2>5. CASE cacheFile
    <3>1. ToSet(cache') = ToSet(added) \cup ToSet(kiew)
      BY <1>t, <2>1, <2>5, ToSetConcat DEF Unprocessed
    <3>2. Elsewhere \subseteq Somewhere'
      BY <1>s, <2>1, <2>3, <2>4, <2>5, <3>1
    <3> QED BY <2>1, <3>2 DEF KeptElsewhere, Kept
  <2>6. CASE ~cacheFile
    <3>1. ToSet(added) = {}
      BY <2>6, ToSetEmpty DEF CacheOpened
    <3>2. Elsewhere \subseteq Somewhere'
      BY <1>s, <2>1, <2>3, <2>4, <2>6, <3>1
    <3> QED BY <2>1, <3>2 DEF KeptElsewhere, Kept
  <2> QED BY <2>5, <2>6
<1>3. ASSUME ~Unload, ~(\E t \in Thread, n \in 1 .. MaxDeque : Publish(t, n))
      PROVE  (KeptElsewhere /\ Kept)'
  <2>1. Elsewhere \subseteq Elsewhere'
    BY <1>t, <1>3, ElsewhereGrows
  <2>2. UNCHANGED <<next, nullCache, cache>> /\ (state = "unloaded" => state' = "unloaded")
    BY <1>3 DEF Next, Send, SendCas, SendNothing, SendSwap, SendToNobody, SendFirst, RunJob,
                Start, Stop, StopOpenCache, Subscribe, Expire, Unsubscribe, vars,
                cacheVars, history
  <2> QED BY <1>s, <2>1, <2>2 DEF KeptElsewhere, Kept
<1> QED BY <1>1, <1>2, <1>3

\* A published event is waiting, is being handed, was handed, is in the cache
\* file, or is one of the two losses the code admits, from the first publish()
\* to the end of unload().
THEOREM KeptHolds == Spec => []Kept
<1>1. Init => CacheOpened /\ KeptElsewhere /\ Kept
  BY DEF Init, CacheOpened, KeptElsewhere, Kept
<1>2. Safe /\ CacheOpened /\ KeptElsewhere /\ Kept /\ [Next]_vars
        => (Safe /\ CacheOpened /\ KeptElsewhere /\ Kept)'
  <2>1. Safe => TypeOK /\ Control
    BY DEF Safe
  <2> QED BY <2>1, NextSafe, NextCacheOpened, NextKept
<1> QED BY <1>1, <1>2, InitSafe, PTL DEF Spec

=============================================================================
