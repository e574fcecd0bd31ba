----------------------------- MODULE MuxEngine -----------------------------
(***************************************************************************)
(* multiplexing::engine (broker/core/multiplexing/src/engine.cc): events   *)
(* published by any thread are queued in _kiew and sent to all subscribed  *)
(* muxers.  _send_to_subscribers() is run by the thread that publishes,    *)
(* starts, stops or unsubscribes; the atomic _sending_to_subscribers lets  *)
(* one of them in at a time.  It takes the whole queue, hands it to the    *)
(* first muxer itself and to the others through the thread pool; the last  *)
(* of all these to finish lowers the flag and calls the callback.          *)
(*                                                                         *)
(* The pool is external (asio): a posted task is run by some pool thread,  *)
(* in any order with the others.  What happens inside muxer::publish() is  *)
(* the subject of module Muxer.                                            *)
(***************************************************************************)
EXTENDS Naturals, Sequences, SequencesExt, FiniteSets

CONSTANTS Publisher,    \* threads that publish
          Mux,          \* muxers; a muxer names the thread that destroys it too
          Main,         \* the thread that loads, starts, stops and unloads
          Mortal,       \* the muxers that may be destroyed
          MaxEvents,    \* how many events are published (a bound)
          MaxDeque,     \* how many events one call may publish (a bound)
          OldEvents,    \* events left in the cache file by the previous run
          LateSubscribe,\* may a muxer subscribe once the engine has started?
          CacheFails,   \* may opening the cache file in stop() fail?
          NoMux         \* no muxer

Thread == Publisher \cup Mux \cup {Main}

ASSUME MuxEngineAssumption ==
  /\ MaxEvents \in Nat /\ MaxDeque \in Nat /\ LateSubscribe \in BOOLEAN /\ CacheFails \in BOOLEAN
  /\ Mortal \subseteq Mux /\ NoMux \notin Mux
  /\ Publisher \cap Mux = {} /\ Main \notin Publisher \cup Mux
  /\ IsFiniteSet(OldEvents)

VARIABLES state,        \* _state, and "unloaded" once the instance is gone
          kiew,         \* _kiew
          muxers,       \* _muxers: the subscriptions, in order
          live,         \* the muxers whose weak pointer can be locked
          sending,      \* _sending_to_subscribers
          jobs,         \* the tasks posted to the pool, [mux, batch]
          cache,        \* the cache file on disk
          cacheFile,    \* is there a _cache_file object?
          added,        \* what was added to it, in its transaction
          pc, first, batch,   \* per thread: its progress in _send_to_subscribers
          next,         \* number of events published
          fresh,        \* the muxers that were not created yet
          got, from, log,     \* history: handed to the muxers, order of sending
          dropped,      \* history: events sent while every muxer was expired, or
                        \* left by unload() without a cache file
          nullCache     \* history: publish() met a null _cache_file

threadVars == <<pc, first, batch>>
cacheVars == <<cache, cacheFile, added>>
history == <<got, from, log, dropped, nullCache>>
vars == <<state, kiew, muxers, live, sending, jobs, cacheVars, threadVars, next,
          fresh, history>>

EventId == OldEvents \cup (1 .. MaxEvents)
SendPc == {"idle", "cas", "swap", "first"}

TypeOK ==
  /\ state \in {"not_started", "running", "stopped", "unloaded"}
  /\ kiew \in Seq(EventId) /\ muxers \in Seq(Mux) /\ live \subseteq Mux
  /\ sending \in BOOLEAN /\ cacheFile \in BOOLEAN
  /\ jobs \subseteq [mux : Mux, batch : Seq(EventId)]
  /\ cache \in Seq(EventId) /\ added \in Seq(EventId)
  /\ pc \in [Thread -> SendPc \cup {"wait", "after", "done"}]
  /\ \A t \in Publisher : pc[t] \in SendPc      \* publish() never waits
  /\ first \in [Thread -> Mux \cup {NoMux}]
  /\ batch \in [Thread -> Seq(EventId)]
  /\ next \in 0 .. MaxEvents /\ fresh \subseteq Mux
  /\ got \in [Mux -> Seq(EventId)] /\ from \in [Mux -> Nat]
  /\ log \in Seq(EventId) /\ dropped \subseteq EventId
  /\ nullCache \in BOOLEAN

Init ==
  /\ state = "not_started" /\ kiew = <<>> /\ muxers = <<>> /\ live = {}
  /\ sending = FALSE /\ jobs = {}
  /\ cache = SetToSeq(OldEvents) /\ cacheFile = FALSE /\ added = <<>>
  /\ pc = [t \in Thread |-> "idle"] /\ first = [t \in Thread |-> NoMux]
  /\ batch = [t \in Thread |-> <<>>]
  /\ next = 0 /\ fresh = Mux
  /\ got = [m \in Mux |-> <<>>] /\ from = [m \in Mux |-> 0]
  /\ log = <<>> /\ dropped = {} /\ nullCache = FALSE

-----------------------------------------------------------------------------
(* _send_to_subscribers() *)

\* Mutant: every thread waits.
WaitsAlways(t) == TRUE

\* The threads that pass a callback and wait for it when events were sent.
Waits(t) == t \in Mux \/ (t = Main /\ state = "stopped")

\* Where a thread goes on after _send_to_subscribers(): stop() and
\* unsubscribe_muxer() have more to do.
Returned(t) == IF Waits(t) THEN "after" ELSE "idle"

\* Mutant: the flag is set without looking at it.
SendCasAnyway(t) ==
  /\ pc[t] = "cas"
  /\ pc' = [pc EXCEPT ![t] = "swap"] /\ sending' = TRUE
  /\ UNCHANGED <<state, kiew, muxers, live, jobs, cacheVars, first, batch, next,
                 fresh, history>>

\* The compare-exchange that lets one thread in.
SendCas(t) ==
  /\ pc[t] = "cas"
  /\ IF sending
     THEN pc' = [pc EXCEPT ![t] = Returned(t)] /\ UNCHANGED sending
     ELSE pc' = [pc EXCEPT ![t] = "swap"] /\ sending' = TRUE
  /\ UNCHANGED <<state, kiew, muxers, live, jobs, cacheVars, first, batch, next,
                 fresh, history>>

\* Under _kiew_m: the places in _muxers of the subscribers that can be locked.
Lockable == {i \in DOMAIN muxers : muxers[i] \in live}

SendNothing(t) ==
  /\ pc[t] = "swap" /\ (muxers = <<>> \/ kiew = <<>>)
  /\ sending' = FALSE
  /\ pc' = [pc EXCEPT ![t] = Returned(t)]
  /\ UNCHANGED <<state, kiew, muxers, live, jobs, cacheVars, first, batch, next,
                 fresh, history>>

\* The queue is swapped out; the first muxer that can be locked is for this
\* thread, a task is posted for each of the others.
SendSwap(t) ==
  /\ pc[t] = "swap" /\ muxers # <<>> /\ kiew # <<>>
  /\ kiew' = <<>> /\ log' = log \o kiew
  /\ batch' = [batch EXCEPT ![t] = kiew]
  /\ \E i \in Lockable :
       /\ \A k \in Lockable : i <= k
       /\ first' = [first EXCEPT ![t] = muxers[i]]
       /\ jobs' = jobs \cup {[mux |-> muxers[k], batch |-> kiew] : k \in Lockable \ {i}}
  /\ pc' = [pc EXCEPT ![t] = "first"]
  /\ UNCHANGED <<state, muxers, live, sending, cacheVars, next, fresh, got,
                 from, dropped, nullCache>>

\* All the weak pointers are expired: the queue that was swapped out is
\* destroyed with the completion object, which lowers the flag.
SendToNobody(t) ==
  /\ pc[t] = "swap" /\ muxers # <<>> /\ kiew # <<>> /\ Lockable = {}
  /\ kiew' = <<>> /\ dropped' = dropped \cup ToSet(kiew)
  /\ log' = log \o kiew
  /\ sending' = FALSE
  /\ pc' = [pc EXCEPT ![t] = Returned(t)]
  /\ UNCHANGED <<state, muxers, live, jobs, cacheVars, first, batch, next,
                 fresh, got, from, nullCache>>

\* Mutant: the posted tasks do not hold the completion object.
HeldBySender(b, js, ts) == \E t \in ts : batch[t] = b

\* The tasks js and the threads ts hold the completion object of batch b.
Held(b, js, ts) == (\E j \in js : j.batch = b) \/ (\E t \in ts : batch[t] = b)

Senders == {t \in Thread : pc[t] = "first"}

\* Mutant: the flag is lowered and the callback is not called.
ReleaseSilently(b, js, ts, pcs) ==
  pc' = pcs /\ IF Held(b, js, ts) THEN UNCHANGED sending ELSE sending' = FALSE

\* ~callback_caller(), when a holder of batch b leaves js and ts behind: the
\* last one lowers the flag and fulfils the promise of the thread that waits.
Release(b, js, ts, pcs) ==
  IF Held(b, js, ts)
  THEN pc' = pcs /\ UNCHANGED sending
  ELSE /\ sending' = FALSE
       /\ pc' = [t \in Thread |-> IF pcs[t] = "wait" /\ batch[t] = b THEN "after"
                                  ELSE pcs[t]]

SendFirst(t) ==
  /\ pc[t] = "first"
  /\ got' = [got EXCEPT ![first[t]] = @ \o batch[t]]
  /\ first' = [first EXCEPT ![t] = NoMux]
  /\ batch' = [batch EXCEPT ![t] = IF Waits(t) THEN @ ELSE <<>>]
  /\ Release(batch[t], jobs, Senders \ {t},
             [pc EXCEPT ![t] = IF Waits(t) THEN "wait" ELSE "idle"])
  /\ UNCHANGED <<state, kiew, muxers, live, jobs, cacheVars, next, fresh,
                 from, log, dropped, nullCache>>

\* A pool thread runs a posted task.
RunJob(j) ==
  /\ j \in jobs
  /\ jobs' = jobs \ {j}
  /\ got' = [got EXCEPT ![j.mux] = @ \o j.batch]
  /\ Release(j.batch, jobs \ {j}, Senders, pc)
  /\ UNCHANGED <<state, kiew, muxers, live, cacheVars, first, batch, next, fresh,
                 from, log, dropped, nullCache>>

-----------------------------------------------------------------------------
(* The operations of the engine *)

\* publish() of one event or of a deque of n: what happens depends on the
\* state, under _kiew_m.
Publish(t, n) ==
  LET es == [i \in 1 .. n |-> next + i]
  IN /\ t \in Publisher /\ pc[t] = "idle" /\ state # "unloaded"
     /\ next + n <= MaxEvents /\ next' = next + n
     /\ CASE state = "stopped" /\ cacheFile ->
               added' = added \o es /\ UNCHANGED <<kiew, pc, nullCache>>
          [] state = "stopped" /\ ~cacheFile ->
               nullCache' = TRUE /\ UNCHANGED <<kiew, pc, added>>
          [] state = "not_started" ->
               kiew' = kiew \o es /\ UNCHANGED <<pc, added, nullCache>>
          [] OTHER ->
               /\ kiew' = kiew \o es /\ pc' = [pc EXCEPT ![t] = "cas"]
               /\ UNCHANGED <<added, nullCache>>
     /\ UNCHANGED <<state, muxers, live, sending, jobs, cache, cacheFile, first,
                    batch, fresh, got, from, log, dropped>>

\* start(): the unprocessed events of the previous run go first.
Start ==
  /\ pc[Main] = "idle" /\ state = "not_started"
  /\ state' = "running" /\ kiew' = cache \o kiew
  /\ pc' = [pc EXCEPT ![Main] = "cas"]
  /\ UNCHANGED <<muxers, live, sending, jobs, cacheVars, first, batch, next,
                 fresh, history>>

\* stop(), up to the release of the mutex.
Stop ==
  /\ pc[Main] = "idle" /\ state \in {"not_started", "running"}
  /\ state' = "stopped" /\ pc' = [pc EXCEPT ![Main] = "cas"]
  /\ UNCHANGED <<kiew, muxers, live, sending, jobs, cacheVars, first, batch, next,
                 fresh, history>>

\* stop(), after the events were sent: the cache file is opened.
StopOpenCache ==
  /\ pc[Main] = "after" /\ state = "stopped"
  /\ cacheFile' \in {TRUE, ~CacheFails}
  /\ pc' = [pc EXCEPT ![Main] = "done"] /\ batch' = [batch EXCEPT ![Main] = <<>>]
  /\ UNCHANGED <<state, kiew, muxers, live, sending, jobs, cache, added, first,
                 next, fresh, history>>

\* Mutant: what is left in the queue is forgotten.
UnprocessedButQueue == IF cacheFile THEN added ELSE cache

\* What the cache file becomes.
Unprocessed == IF cacheFile THEN added \o kiew ELSE cache

\* unload() once stopped: it waits until no muxer is subscribed, adds what is
\* left in the queue to the cache file and commits it.
Unload ==
  /\ pc[Main] = "done" /\ state = "stopped" /\ muxers = <<>>
  /\ state' = "unloaded" /\ cacheFile' = FALSE
  /\ cache' = Unprocessed
  /\ kiew' = <<>> /\ added' = <<>>
  /\ dropped' = IF cacheFile THEN dropped ELSE dropped \cup ToSet(kiew)
  /\ UNCHANGED <<muxers, live, sending, jobs, threadVars, next, fresh, got, from,
                 log, nullCache>>

\* muxer::create() -> subscribe(), for a new muxer object.
Subscribe(m) ==
  /\ m \in fresh /\ state # "unloaded"
  /\ LateSubscribe \/ state = "not_started"
  /\ live' = live \cup {m} /\ muxers' = Append(muxers, m)
  /\ fresh' = fresh \ {m}
  /\ from' = [from EXCEPT ![m] = Len(log)]
  /\ UNCHANGED <<state, kiew, sending, jobs, cacheVars, threadVars, next, got,
                 log, dropped, nullCache>>

\* The last shared pointer to a muxer goes: its weak pointers expire and its
\* destructor unsubscribes it.  Tasks and senders hold a shared pointer.
Expire(m) ==
  /\ m \in live \cap Mortal
  /\ \A j \in jobs : j.mux # m
  /\ \A t \in Thread : first[t] # m
  /\ live' = live \ {m}
  /\ pc' = [pc EXCEPT ![m] = "cas"]
  /\ UNCHANGED <<state, kiew, muxers, sending, jobs, cacheVars, first, batch, next,
                 fresh, history>>

\* unsubscribe_muxer(): the first entry that is expired is erased.
Erased == CHOOSE i \in DOMAIN muxers :
            /\ muxers[i] \notin live
            /\ \A k \in 1 .. i - 1 : muxers[k] \in live

Unsubscribe(m) ==
  /\ m \in Mux /\ pc[m] = "after"
  /\ muxers' = IF \E i \in DOMAIN muxers : muxers[i] \notin live
               THEN RemoveAt(muxers, Erased) ELSE muxers
  /\ pc' = [pc EXCEPT ![m] = "idle"] /\ batch' = [batch EXCEPT ![m] = <<>>]
  /\ UNCHANGED <<state, kiew, live, sending, jobs, cacheVars, first, next,
                 fresh, history>>

-----------------------------------------------------------------------------
Send(t) ==
  SendCas(t) \/ SendNothing(t) \/ SendSwap(t) \/ SendToNobody(t) \/ SendFirst(t)

Next ==
  \/ \E t \in Thread : Send(t) \/ \E n \in 1 .. MaxDeque : Publish(t, n)
  \/ \E j \in jobs : RunJob(j)
  \/ Start \/ Stop \/ StopOpenCache \/ Unload
  \/ \E m \in Mux : Subscribe(m) \/ Expire(m) \/ Unsubscribe(m)

Spec == Init /\ [][Next]_vars

\* Every thread and the pool run; once the engine is stopped the endpoints are
\* destroyed and main unloads it.
Fairness ==
  /\ \A t \in Thread : WF_vars(Send(t))
  /\ WF_vars(\E j \in jobs : RunJob(j))
  /\ WF_vars(StopOpenCache) /\ WF_vars(Unload)
  /\ \A m \in Mux : WF_vars(state = "stopped" /\ Expire(m)) /\ WF_vars(Unsubscribe(m))

LiveSpec == Spec /\ Fairness

-----------------------------------------------------------------------------
(* Properties *)

\* One batch is being sent at a time, and the flag says so.
Batches == {j.batch : j \in jobs} \cup {batch[t] : t \in Senders}

OneBatch ==
  /\ Cardinality(Batches) <= 1
  /\ Batches # {} => sending

\* Each subscribed muxer is handed all the events, in one common order: what
\* it got, what is being handed to it and what waits continue each other.
Handing(m) ==
  IF \E j \in jobs : j.mux = m THEN (CHOOSE j \in jobs : j.mux = m).batch
  ELSE IF \E t \in Thread : first[t] = m
       THEN batch[CHOOSE t \in Thread : first[t] = m]
       ELSE <<>>

Complete ==
  \A m \in live : got[m] \o Handing(m) = SubSeq(log, from[m] + 1, Len(log))

\* The engine implements the ordered broadcast.
B == INSTANCE Broadcast WITH Subscriber <- Mux

OrderedBroadcast == B!Spec

\* Whatever the state in which it was published, an event is waiting, was
\* handed to a muxer, is in the cache file, was sent to expired muxers only, or
\* was left when the cache file could not be opened.
Handed == UNION {ToSet(got[m]) : m \in Mux}

Somewhere ==
  ToSet(kiew) \cup (UNION {ToSet(b) : b \in Batches}) \cup Handed
  \cup ToSet(added) \cup ToSet(cache) \cup dropped

Kept == nullCache \/ 1 .. next \subseteq Somewhere

\* "running, received events are dispatched to all the muxers" (engine.hh):
\* no event waits while nobody is about to send it.
Quiet == ~sending /\ jobs = {} /\ \A t \in Thread : pc[t] \in {"idle", "done"}

Dispatched == state = "running" /\ live # {} /\ Quiet => kiew = <<>>

\* Stopping and unloading end: no thread waits for ever for the completion of
\* a batch, and every muxer gets unsubscribed.
UnloadEnds == (state = "stopped") ~> (state = "unloaded")
=============================================================================
