------------------------------- MODULE Muxer -------------------------------
(***************************************************************************)
(* multiplexing::muxer (broker/core/multiplexing/src/muxer.cc): the queue  *)
(* between the multiplexing engine, which publishes batches of events, and *)
(* one consumer.  Events are held in memory, up to a limit, and beyond it  *)
(* in a retention file.  Consumers are                                     *)
(*   - a failover thread (processing/failover.cc), which reads events one  *)
(*     by one, acknowledges what its stream reports as written, and asks   *)
(*     for everything unacknowledged again after each reconnection;        *)
(*   - a feeder (processing/feeder.cc), a data handler which the muxer     *)
(*     calls from the thread pool when events were pushed.                 *)
(*                                                                         *)
(* _events_m is held over the loops of publish(): these are several steps, *)
(* and every other operation that takes the mutex waits for their end.     *)
(* All other critical sections are single steps.                           *)
(***************************************************************************)
EXTENDS QueueFile, FiniteSets

CONSTANTS MaxEvents,    \* how many events the engine publishes (a bound)
          Rejected,     \* events whose type the write filter refuses
          QueueMax,     \* event_queue_max_size()
          Persistent,   \* _persistent: is memory saved by the destructor?
          Feeder,       \* is the consumer a feeder (else a failover)?
          Slots,        \* places for the reader tasks posted to the pool
          MaxBatch,     \* bound on the length of a batch
          MaxRestarts,  \* bound on the number of restarts
          MaxCrashes,   \* bound on the number of crashes
          MaxFailures,  \* bound on the number of errors on the files
          MaxCuts,      \* bound on the number of errors of the consumer's stream
          OverAck       \* by how much a failover may acknowledge too much

ASSUME MuxerAssumption ==
  /\ MaxEvents \in Nat /\ QueueMax \in Nat \ {0}
  /\ MaxBatch \in Nat /\ MaxRestarts \in Nat /\ MaxCrashes \in Nat
  /\ MaxFailures \in Nat /\ MaxCuts \in Nat /\ OverAck \in Nat
  /\ Persistent \in BOOLEAN /\ Feeder \in BOOLEAN

Event == 1 .. MaxEvents      \* events are numbered in publication order

VARIABLES alive,             \* does the muxer object exist?
          events, pos,       \* _events, and how many of them precede _pos
          memfile,           \* the memory file of a destroyed muxer
          handler,           \* is there a _data_handler?
          handlerSet,        \* has the feeder been through init()?
          readerRunning,     \* _reader_running
          tpc, tsize, tbatch, twritten,   \* the posted reader tasks
          pc, todo, pushed,  \* the thread that runs publish()
          next,              \* number of events the engine sent
          session, unacked,  \* the failover: connected, events to acknowledge
          delivered, acked, lost,         \* history
          restarts, crashes, failures, cuts

queueVars  == <<events, pos, memfile>>
taskVars   == <<readerRunning, tpc, tsize, tbatch, twritten>>
feederVars == <<handler, handlerSet>>
pubVars    == <<pc, todo, pushed, next>>
clientVars == <<session, unacked>>
history    == <<delivered, acked, lost>>
bounds     == <<restarts, crashes, failures, cuts>>
vars == <<fileVars, alive, queueVars, taskVars, feederVars, pubVars,
          clientVars, history, bounds>>

Elems(s) == {s[i] : i \in DOMAIN s}

\* publish() holds _events_m.
Locked == pc \in {"push", "spill"}
Free == alive /\ ~Locked

TaskPc == {"none", "posted", "taken", "sized", "read", "ack", "finish"}

TypeOK ==
  /\ FileTypeOK(Event)
  /\ alive \in BOOLEAN
  /\ events \in Seq(Event) /\ pos \in 0 .. Len(events)
  /\ memfile \in Seq(Event)
  /\ handler \in BOOLEAN /\ handlerSet \in BOOLEAN /\ readerRunning \in BOOLEAN
  /\ tpc \in [Slots -> TaskPc] /\ tsize \in [Slots -> Nat]
  /\ tbatch \in [Slots -> Seq(Event)] /\ twritten \in [Slots -> Nat]
  /\ pc \in {"idle", "enter", "push", "full", "spill"}
  /\ todo \in Seq(Event) /\ pushed \in BOOLEAN /\ next \in 0 .. MaxEvents
  /\ session \in BOOLEAN /\ unacked \in Nat
  /\ delivered \in SUBSET Event /\ acked \in SUBSET Event
  /\ lost \in SUBSET Event
  /\ restarts \in Nat /\ crashes \in Nat /\ failures \in Nat /\ cuts \in Nat

Init ==
  /\ FileInit
  /\ alive = TRUE /\ events = <<>> /\ pos = 0 /\ memfile = <<>>
  /\ handler = FALSE /\ handlerSet = FALSE
  /\ readerRunning = FALSE /\ tpc = [s \in Slots |-> "none"]
  /\ tsize = [s \in Slots |-> 0] /\ tbatch = [s \in Slots |-> <<>>]
  /\ twritten = [s \in Slots |-> 0]
  /\ pc = "idle" /\ todo = <<>> /\ pushed = FALSE /\ next = 0
  /\ session = FALSE /\ unacked = 0
  /\ delivered = {} /\ acked = {} /\ lost = {}
  /\ restarts = 0 /\ crashes = 0 /\ failures = 0 /\ cuts = 0

-----------------------------------------------------------------------------
(* publish(), called by one thread of the engine at a time *)

PublishCall(n) ==
  /\ alive /\ pc = "idle" /\ next + n <= MaxEvents
  /\ pc' = "enter" /\ todo' = [i \in 1 .. n |-> next + i] /\ next' = next + n
  /\ UNCHANGED <<fileVars, alive, queueVars, taskVars, feederVars, pushed,
                 clientVars, history, bounds>>

PublishLock ==
  /\ pc = "enter"
  /\ pc' = "push" /\ pushed' = FALSE
  /\ UNCHANGED <<fileVars, alive, queueVars, taskVars, feederVars, todo, next,
                 clientVars, history, bounds>>

\* Mutant: the limit is tested with <= instead of <.
HasRoomInclusive == Len(events) <= QueueMax

\* _events_size < event_queue_max_size()
HasRoom == Len(events) < QueueMax

\* Mutant: when nothing was left to read, _pos becomes the end of the list.
PushToQueueSkips(e) ==
  /\ events' = Append(events, e)
  /\ pos' = IF pos = Len(events) THEN pos + 1 ELSE pos

\* _push_to_queue(): _pos moves to the new event when nothing was left to
\* read, so that as many events precede it as before.
PushToQueue(e) == events' = Append(events, e) /\ UNCHANGED pos

PublishPush ==
  /\ pc = "push" /\ todo # <<>> /\ HasRoom
  /\ IF Head(todo) \in Rejected
     THEN UNCHANGED <<events, pos, pushed>>
     ELSE PushToQueue(Head(todo)) /\ pushed' = TRUE
  /\ todo' = Tail(todo)
  /\ UNCHANGED <<fileVars, alive, memfile, taskVars, feederVars, pc, next,
                 clientVars, history, bounds>>

\* Mutant: the flag is set without looking at it.
ExecuteReaderAnyway ==
  /\ readerRunning' = TRUE
  /\ \E s \in Slots : tpc[s] = "none" /\ tpc' = [tpc EXCEPT ![s] = "posted"]
  /\ UNCHANGED <<tsize, tbatch, twritten>>

\* _execute_reader_if_needed(): one reader task at a time.
ExecuteReader ==
  IF readerRunning THEN UNCHANGED taskVars
  ELSE /\ readerRunning' = TRUE
       /\ \E s \in Slots : tpc[s] = "none" /\ tpc' = [tpc EXCEPT ![s] = "posted"]
       /\ UNCHANGED <<tsize, tbatch, twritten>>

PublishUnlock ==
  /\ pc = "push" /\ (todo = <<>> \/ ~HasRoom)
  /\ IF pushed \/ ~HasRoom THEN ExecuteReader ELSE UNCHANGED taskVars
  /\ pc' = IF todo = <<>> THEN "idle" ELSE IF pushed THEN "enter" ELSE "full"
  /\ UNCHANGED <<fileVars, alive, queueVars, feederVars, todo, pushed, next,
                 clientVars, history, bounds>>

PublishRelock ==
  /\ pc = "full"
  /\ pc' = "spill"
  /\ UNCHANGED <<fileVars, alive, queueVars, taskVars, feederVars, todo,
                 pushed, next, clientVars, history, bounds>>

PublishSpill ==
  /\ pc = "spill" /\ todo # <<>>
  /\ IF Head(todo) \in Rejected THEN UNCHANGED fileVars ELSE FileWrite(Head(todo))
  /\ todo' = Tail(todo)
  /\ UNCHANGED <<alive, queueVars, taskVars, feederVars, pc, pushed, next,
                 clientVars, history, bounds>>

\* The event could not be written: it is lost and the file is closed.
PublishWriteFails ==
  /\ pc = "spill" /\ todo # <<>> /\ Head(todo) \notin Rejected
  /\ failures < MaxFailures /\ failures' = failures + 1
  /\ FileClose
  /\ lost' = lost \cup {Head(todo)}
  /\ todo' = Tail(todo)
  /\ UNCHANGED <<alive, queueVars, taskVars, feederVars, pc, pushed, next,
                 clientVars, delivered, acked, restarts, crashes, cuts>>

\* The file could not be opened: outside the try block, the exception ends
\* publish() and what is left of the batch is not published.
PublishOpenFails ==
  /\ pc = "spill" /\ todo # <<>> /\ Head(todo) \notin Rejected /\ ~fileOpen
  /\ failures < MaxFailures /\ failures' = failures + 1
  /\ lost' = lost \cup (Elems(todo) \ Rejected)
  /\ pc' = "idle" /\ todo' = <<>>
  /\ UNCHANGED <<fileVars, alive, queueVars, taskVars, feederVars, pushed, next,
                 clientVars, delivered, acked, restarts, crashes, cuts>>

PublishReturn ==
  /\ pc = "spill" /\ todo = <<>>
  /\ pc' = "idle"
  /\ UNCHANGED <<fileVars, alive, queueVars, taskVars, feederVars, todo,
                 pushed, next, clientVars, history, bounds>>

-----------------------------------------------------------------------------
(* ack_events(count) with count # 0: forget the oldest events, but none at *)
(* or after _pos, then fill memory from the retention file.                *)

\* Mutant: _pos is not looked at.
PoppedUnread(count) == IF count < Len(events) THEN count ELSE Len(events)

Popped(count) == IF count < pos THEN count ELSE pos

Room(size) == IF size < QueueMax THEN QueueMax - size ELSE 0

AckEvents(count) ==
  LET n == Popped(count)
      room == Room(Len(events) - n)
  IN /\ events' = SubSeq(events, n + 1, Len(events)) \o Taken(room)
     /\ pos' = pos - n
     /\ acked' = acked \cup Elems(SubSeq(events, 1, n))
     /\ FileTake(room)

-----------------------------------------------------------------------------
(* The failover thread *)

\* nack_events(), on entering the event loop of a new connection.
NackEvents ==
  /\ ~Feeder /\ Free /\ ~session
  /\ session' = TRUE /\ unacked' = 0 /\ pos' = 0
  /\ UNCHANGED <<fileVars, alive, events, memfile, taskVars, feederVars,
                 pubVars, history, bounds>>

\* read(event, 0), the event being written to the stream.
Read ==
  /\ session /\ Free /\ pos < Len(events)
  /\ pos' = pos + 1 /\ unacked' = unacked + 1
  /\ delivered' = delivered \cup {events[pos + 1]}
  /\ UNCHANGED <<fileVars, alive, events, memfile, taskVars, feederVars,
                 pubVars, session, acked, lost, bounds>>

\* The stream reports count events as written, from write(), flush() or stop().
FailoverAck(count) ==
  /\ session /\ Free /\ count <= unacked + OverAck
  /\ AckEvents(count)
  /\ unacked' = IF count < unacked THEN unacked - count ELSE 0
  /\ UNCHANGED <<alive, memfile, taskVars, feederVars, pubVars, session,
                 delivered, lost, bounds>>

Disconnect ==
  /\ session /\ cuts < MaxCuts
  /\ session' = FALSE /\ cuts' = cuts + 1
  /\ UNCHANGED <<fileVars, alive, queueVars, taskVars, feederVars, pubVars,
                 unacked, history, restarts, crashes, failures>>

-----------------------------------------------------------------------------
(* The feeder and the reader tasks *)

SetHandler ==
  /\ Feeder /\ Free /\ ~handlerSet
  /\ handler' = TRUE /\ handlerSet' = TRUE
  /\ UNCHANGED <<fileVars, alive, queueVars, taskVars, pubVars, clientVars,
                 history, bounds>>

\* clear_action_on_new_data(), by the feeder when it stops.
ClearHandler ==
  /\ Free /\ handler
  /\ handler' = FALSE
  /\ UNCHANGED <<fileVars, alive, queueVars, taskVars, handlerSet, pubVars,
                 clientVars, history, bounds>>

\* The task takes the handler; without one it ends, _reader_running still set.
TaskTake(s) ==
  /\ tpc[s] = "posted" /\ Free
  /\ tpc' = [tpc EXCEPT ![s] = IF handler THEN "taken" ELSE "none"]
  /\ UNCHANGED <<fileVars, alive, queueVars, readerRunning, tsize, tbatch,
                 twritten, feederVars, pubVars, clientVars, history, bounds>>

\* _events_size is read without the mutex.
TaskSize(s) ==
  /\ tpc[s] = "taken"
  /\ tpc' = [tpc EXCEPT ![s] = "sized"]
  /\ tsize' = [tsize EXCEPT ![s] = Len(events)]
  /\ UNCHANGED <<fileVars, alive, queueVars, readerRunning, tbatch, twritten,
                 feederVars, pubVars, clientVars, history, bounds>>

\* read(to_fill, size)
TaskRead(s) ==
  /\ tpc[s] = "sized" /\ Free
  /\ LET unread == Len(events) - pos
         n == IF tsize[s] < unread THEN tsize[s] ELSE unread
     IN /\ tbatch' = [tbatch EXCEPT ![s] = SubSeq(events, pos + 1, pos + n)]
        /\ pos' = pos + n
  /\ tpc' = [tpc EXCEPT ![s] = "read"]
  /\ UNCHANGED <<fileVars, alive, events, memfile, readerRunning, tsize,
                 twritten, feederVars, pubVars, clientVars, history, bounds>>

\* on_events(): the feeder writes to its client, up to the first error.
TaskOnEvents(s, written) ==
  /\ tpc[s] = "read" /\ written <= Len(tbatch[s])
  /\ written < Len(tbatch[s]) => cuts < MaxCuts
  /\ cuts' = IF written < Len(tbatch[s]) THEN cuts + 1 ELSE cuts
  /\ twritten' = [twritten EXCEPT ![s] = written]
  /\ delivered' = delivered \cup Elems(SubSeq(tbatch[s], 1, written))
  /\ tpc' = [tpc EXCEPT ![s] = IF written > 0 THEN "ack" ELSE "finish"]
  /\ UNCHANGED <<fileVars, alive, queueVars, readerRunning, tsize, tbatch,
                 feederVars, pubVars, clientVars, acked, lost, restarts,
                 crashes, failures>>

\* Mutant: the whole batch is acknowledged, not what was written of it.
TaskAckBatch(s) ==
  /\ tpc[s] = "ack" /\ Free
  /\ AckEvents(Len(tbatch[s]))
  /\ tpc' = [tpc EXCEPT ![s] = "finish"]
  /\ UNCHANGED <<alive, memfile, readerRunning, tsize, tbatch, twritten,
                 feederVars, pubVars, clientVars, delivered, lost, bounds>>

TaskAck(s) ==
  /\ tpc[s] = "ack" /\ Free
  /\ AckEvents(twritten[s])
  /\ tpc' = [tpc EXCEPT ![s] = "finish"]
  /\ UNCHANGED <<alive, memfile, readerRunning, tsize, tbatch, twritten,
                 feederVars, pubVars, clientVars, delivered, lost, bounds>>

\* A handler that did not take all the events is dropped; then the flag is
\* cleared.
TaskFinish(s) ==
  /\ tpc[s] = "finish"
  /\ IF twritten[s] # Len(tbatch[s])
     THEN Free /\ handler' = FALSE
     ELSE UNCHANGED handler
  /\ readerRunning' = FALSE
  /\ tpc' = [tpc EXCEPT ![s] = "none"] /\ tbatch' = [tbatch EXCEPT ![s] = <<>>]
  /\ tsize' = [tsize EXCEPT ![s] = 0] /\ twritten' = [twritten EXCEPT ![s] = 0]
  /\ UNCHANGED <<fileVars, alive, queueVars, handlerSet, pubVars, clientVars,
                 history, bounds>>

-----------------------------------------------------------------------------
(* Destruction, crash and construction *)

\* Nobody can reach the muxer's objects any more.
Gone ==
  /\ alive' = FALSE
  /\ events' = <<>> /\ pos' = 0
  /\ handler' = FALSE /\ handlerSet' = FALSE
  /\ session' = FALSE /\ unacked' = 0
  /\ readerRunning' = FALSE
  /\ tpc' = [s \in Slots |-> "none"] /\ tbatch' = [s \in Slots |-> <<>>]
  /\ tsize' = [s \in Slots |-> 0] /\ twritten' = [s \in Slots |-> 0]

\* ~muxer() -> _clean(): the engine and the reader tasks hold a shared
\* pointer, so neither publish() nor a task is running.  Writing the memory
\* file may fail after the first k events.
Destroy ==
  /\ alive /\ pc = "idle" /\ restarts < MaxRestarts
  /\ \A s \in Slots : tpc[s] = "none"
  /\ FileClose
  /\ \E k \in 0 .. Len(events) :
       /\ k < Len(events) => (~Persistent \/ failures < MaxFailures)
       /\ ~Persistent => k = 0
       /\ failures' = IF Persistent /\ k < Len(events) THEN failures + 1
                                                       ELSE failures
       /\ memfile' = memfile \o SubSeq(events, 1, k)
       /\ lost' = lost \cup (Elems(SubSeq(events, k + 1, Len(events))) \ Elems(disk))
  /\ Gone
  /\ UNCHANGED <<pubVars, delivered, acked, restarts, crashes, cuts>>

Crash ==
  /\ alive /\ crashes < MaxCrashes /\ crashes' = crashes + 1
  /\ FileCrash
  /\ lost' = lost \cup ((Elems(events) \cup Elems(Unread) \cup Elems(todo))
                          \ (Rejected \cup Elems(disk')))
  /\ Gone
  /\ pc' = "idle" /\ todo' = <<>> /\ pushed' = FALSE
  /\ UNCHANGED <<memfile, next, delivered, acked, restarts, failures, cuts>>

(***************************************************************************)
(* The constructor.  _pos is set when only the memory file is loaded: if   *)
(* that left the list empty, _pos is its end and stays its end while the   *)
(* events of the queue file are appended.  The do-while reads one event at *)
(* least, even if memory is full.                                          *)
(***************************************************************************)
InitialRoom(size) == IF size < QueueMax THEN QueueMax - size ELSE 1

LoadedPos(loaded) == IF memfile = <<>> THEN Len(loaded) ELSE 0

Create ==
  /\ ~alive /\ restarts < MaxRestarts /\ restarts' = restarts + 1
  /\ alive' = TRUE
  /\ LET mem == IF Persistent THEN memfile ELSE <<>>
         want == InitialRoom(Len(mem))
         n == IF Len(disk) < want THEN Len(disk) ELSE want
         loaded == SubSeq(disk, 1, n)
     IN /\ events' = mem \o loaded
        /\ pos' = LoadedPos(loaded)
        /\ IF Len(disk) < want
           THEN fileOpen' = FALSE /\ disk' = <<>> /\ rd' = 0
           ELSE /\ fileOpen' = TRUE
                /\ \E d \in 0 .. n - 1 : /\ disk' = SubSeq(disk, d + 1, Len(disk))
                                        /\ rd' = n - d
  /\ memfile' = <<>>
  /\ UNCHANGED <<taskVars, feederVars, pubVars, clientVars, history, crashes,
                 failures, cuts>>

-----------------------------------------------------------------------------
Publish ==
  \/ PublishLock \/ PublishPush \/ PublishUnlock \/ PublishRelock
  \/ PublishSpill \/ PublishReturn

Next ==
  \/ \E n \in 1 .. MaxBatch : PublishCall(n)
  \/ Publish
  \/ PublishWriteFails \/ PublishOpenFails
  \/ NackEvents \/ Read \/ Disconnect
  \/ \E n \in 1 .. MaxEvents + OverAck : FailoverAck(n)
  \/ SetHandler \/ ClearHandler
  \/ \E s \in Slots : \/ TaskTake(s) \/ TaskSize(s) \/ TaskRead(s)
                      \/ \E n \in 0 .. MaxEvents : TaskOnEvents(s, n)
                      \/ TaskAck(s) \/ TaskFinish(s)
  \/ Destroy \/ Crash \/ Create

Spec == Init /\ [][Next]_vars

(***************************************************************************)
(* Fairness: a publish() under way runs to its end, the failover           *)
(* reconnects, reads what there is to read at each turn of its loop, and   *)
(* its stream ends up acknowledging what it was given.                     *)
(***************************************************************************)
FailoverFairness ==
  /\ WF_vars(Publish)
  /\ WF_vars(NackEvents)
  /\ SF_vars(Read)
  /\ SF_vars(\E n \in 1 .. MaxEvents : n <= unacked /\ FailoverAck(n))
  /\ WF_vars(Create)

LiveSpec == Spec /\ FailoverFairness

-----------------------------------------------------------------------------
(* Properties *)

\* What was sent to the muxer and passes the write filter is still held by it
\* (in memory, unread in the retention file, in the memory file), or was
\* acknowledged, or was lost to an I/O error or a crash.  The moves between
\* memory and file of publish(), ack_events(), the constructor and _clean()
\* drop no event.
Conservation ==
  \A e \in 1 .. next :
    e \in Rejected \cup Elems(todo) \cup Elems(events) \cup Elems(Unread)
          \cup Elems(memfile) \cup acked \cup lost

\* As long as the retention file was not reopened (no restart, no I/O error)
\* no event is held twice, and none comes back after its acknowledgement.
Pipeline == events \o Unread \o todo

NoDuplicate ==
  (alive /\ restarts = 0 /\ failures = 0) =>
    /\ \A i, j \in DOMAIN Pipeline : i # j => Pipeline[i] # Pipeline[j]
    /\ \A i \in DOMAIN Pipeline : Pipeline[i] \notin acked

\* ack_events() only forgets events that the consumer was given, even when it
\* is asked to acknowledge too many.
AckedWereDelivered == acked \subseteq delivered

\* The memory queue exceeds its limit only by the extra event that the
\* constructor may load at each restart.
QueueBound == Len(events) <= QueueMax + restarts

\* One reader task at a time, so that a feeder gets the events of its muxer
\* in the order of the queue.
OneReader ==
  \A s, t \in Slots : tpc[s] # "none" /\ tpc[t] # "none" => s = t

\* Every event that reaches the memory queue ends up leaving it, which takes an
\* acknowledgement as long as the muxer lives: _pos skips no event, and each
\* reconnection starts again from the oldest one.
MemoryDrains ==
  \A e \in Event : (e \in Elems(events)) ~> (e \notin Elems(events))
=============================================================================
