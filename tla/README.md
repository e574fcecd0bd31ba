# Centreon Collect: formal models

Centreon Collect is a monitoring suite. *centengine* runs checks, decides on the
state of hosts and services, notifies contacts and keeps scheduled downtimes;
*centreon broker* (`cbd`, and the `cbmod` module loaded by centengine) carries
the resulting events, through retention files and network connections, to
databases, RRD files, business activity monitoring (BAM) and other consumers.

The repository has some 270 000 lines of implementation, most of which build
queries, parse configurations, convert events or drive libraries. This project
models the parts whose correctness depends on an order of steps:

* the broker's event path (multiplexing engine, muxer, retention files,
  persistent cache), whose promise is that events are not lost when a consumer is
  slow, disconnected or restarted;
* the decisions of centengine (states, notifications, downtimes);
* the propagation of states through the business activities of BAM.

## 1. Inventory

| component | state | operations | interacts with |
|---|---|---|---|
| multiplexing engine (`multiplexing/engine.cc`) | `_state`, queue `_kiew`, weak pointers `_muxers`, flag `_sending_to_subscribers`, `_cache_file` | load, start, publish, stop, unload, subscribe, unsubscribe_muxer | calls `muxer::publish` from the publishing thread and from the pool; saves unprocessed events in a persistent cache |
| muxer (`multiplexing/muxer.cc`) | `_events` and iterator `_pos`, `_file`, memory file, `_data_handler`, `_reader_running` | publish, read (two forms), ack_events, nack_events, set/clear handler, construction, destruction | engine above; failover or feeder below; retention file beside |
| retention file (`persistent_file.cc`, `file/splitter.cc`, `file/stream.cc`) | numbered parts, one file open for reading, one for writing, sometimes the same; read offset | read, write, erasure of read parts, reopening | used by the muxer under its mutex |
| disk accessor (`file/disk_accessor.cc`) | size of the queue files, limit | fopen, fwrite, remove, set_current_size | shared by all the queue files of the process |
| persistent cache (`persistent_cache.cc`) | FILE, FILE.new, FILE.old, open read and write files | transaction, add, commit, rollback by destruction, get | used by the engine and BAM |
| failover (`processing/failover.cc`) | thread, stream, secondary failovers, buffering timer | event loop: read, write, flush, acknowledge; reconnect | muxer, endpoint, stream |
| feeder, acceptor (`processing/feeder.cc`, `acceptor.cc`) | client stream, timers, state; list of feeders | on_events, read from the client, stop; accept | muxer (as data handler), thread pool |
| BBDO stream (`bbdo/stream.cc`) | counts of events to acknowledge, negotiation state | read, write, send/receive acknowledgements | lower stream, publisher |
| BAM (`broker/bam`) | graph of KPIs, boolean expressions and business activities, each caching what it saw of its children | service status, downtime, acknowledgement, visit | service book, publisher, commands sent to centengine |
| SQL connections (`core/sql`) | task queue and thread per connection, transaction state | run, prepare, commit, statements with promises | unified_sql, sql and storage streams |
| unified_sql, rrd, lua, graphite, influxdb, ... | output-specific | write, flush | failover |
| transports (tcp, tls, grpc) | connections, write queues | accept, connect, read, write | BBDO stream |
| centengine checks (`service.cc`, `host.cc`) | state, state type, attempts, times of the last changes, acknowledgement, flapping | handle_async_check_result, acknowledge, flap detection | notifier, downtimes, event loop |
| centengine notifier (`notifier.cc`, `contact.cc`, `escalation.cc`) | notification of the problem, its number, time of the last one | notify for each reason, contacts to notify | checks, commands, downtimes |
| centengine downtimes (`engine/src/downtimes`) | downtimes by start time, depth and pending counters of the objects | schedule, handle (start and stop), unschedule, expire, reload | event loop, checks, notifier, retention |
| centengine event loop, commands, configuration, retention | two event queues; objects | | all the parts of centengine |
| agent, connectors, clib, common | schedulers, processes, thread pool | | centengine |

`PROJECT.json` lists every component with its status, and the hazards with their
lines.

What is hard here:

* **Interleavings.** Any number of threads publish. The engine's mutex is
  released between queueing an event and sending it; a lock-free flag elects the
  sender; batches are given to muxers by pool tasks in any order. A muxer
  releases its mutex in the middle of `publish()`, and its reader task works
  partly without it.
* **Lifetime.** Muxers are reached through weak pointers, expire at any time, and
  unsubscribe from their destructor. The engine is stopped and unloaded while
  publishers are alive.
* **Restarts and crashes.** The read offset of a retention file is not stored;
  its parts are found again by name; the memory queue is saved to another file by
  the destructor, and by nothing in a crash; the cache is replaced by renames;
  downtimes are reloaded in the order of their starts.
* **Acknowledgements.** Counts, not identities: an acknowledgement of `n`
  means "the `n` oldest", and both a disconnection and a stream that reports too
  many must leave the right events in the queue.
* **Failures in the middle.** Write errors close the retention file; a failed
  `open` escapes from `publish()`; the disk limit refuses a header, a chunk, or
  both.
* **Long sequences.** centengine is one loop, but what a notification or a
  downtime does depends on flags and counters left by many earlier calls of
  different kinds: notification number, stale timed events, depth counters,
  triggered downtimes that call each other.
* **Caches.** A BA recomputes nothing: it keeps the last impact of each KPI and
  an incremental level, and tells its parents only when it believes that it
  changed.

What makes each component correct:

* engine: one batch at a time; each subscribed muxer gets every event, in one
  common order; an event published in any state is either handed to a muxer or
  in the cache file; stop and unload end.
* muxer: no event is dropped by the moves between memory and file; none is held
  twice while the file stays open; only what the consumer was given is
  forgotten; memory is bounded; everything in memory is drained.
* retention file: one sequence across its parts; what was not read survives a
  restart; the account of the disk is exact and its limit kept.
* persistent cache: its content is replaced atomically.
* checks and notifications: a problem is hard when it was confirmed; whoever is
  told of a problem is told of its end, and nobody else; nothing that was held
  back is forgotten.
* downtimes: the depth counter is the number of downtimes in effect; a downtime
  covers its window, and ends.
* BAM: the state and the downtime of a BA are a function of those of its
  services, whatever the order of the updates.
* failover, feeder, BBDO: what a peer did not acknowledge is given again to the
  next one; the sum of acknowledgements never exceeds what was received.

## 2. Plan

1. *(done)* `QueueFile`, `Muxer`: the queue between engine and consumer.
2. *(done)* `Broadcast`, `MuxEngine`: publication, and its abstract promise.
3. *(done)* `AtomicCache`, `PersistentCache`: the file behind the engine's stop.
4. *(done)* `MuxerProofs`, `PersistentCacheProofs`.
5. *(done)* `RetentionFile`, `Splitter`: parts, disk limit, unsigned account;
   shown to implement the file that `Muxer` uses.
6. *(done)* `Notifier`, `Service`: check results and notifications.
7. *(done)* `Downtime`.
8. *(done)* `Bam`.
9. `Failover`: the thread's lifecycle, secondary failovers, `stop()` and its
   count, retry delays; `Feeder` and `Acceptor` with their timers and their stop.
10. `Multiplexing`: `MuxEngine` composed with `Muxer` (exceptions out of
    `muxer::publish`, destruction during a batch).
11. `BbdoAck`: the acknowledgement counters of two BBDO streams over a connection
    that may be cut, end to end with two muxers.
12. `MysqlConnection`: the task queue, commits and promises.
13. *(done)* Proofs: `NoDuplicate`; `SequenceFacts`, `MuxEngineProofs` (with the
    refinement of `Broadcast`) and `ServiceProofs`.
14. *(done)* Proofs: `DowntimeProofs`.
15. *(done)* Proofs: `SplitterProofs`, with the refinement of `RetentionFile`.
16. *(done)* Proofs: `BamProofs`: types, expressions, states and downtimes of BAs.

## 3. Modules and how they correspond to the code

### QueueFile

The retention file as its muxer sees it. `disk` is the content of the remaining
parts, `rd` how much of it was read since the file was opened, `fileOpen` whether
the muxer has a `_file`. Reading past the end of a part erases that part:
`FileTake(n)` is `n` reads, and chooses how much of the prefix was erased, any
boundary the code may meet being possible. A read that meets the end of the last
part erases everything and drops the object (the `shutdown` exception). Closing
(`_file.reset()`) forgets `rd`, so that the events of the first part that were
already read come back. A crash loses the part of the tail that stdio had not
written.

### RetentionFile and Splitter

`RetentionFile` has the variables and actions of `QueueFile` as a specification
of its own, one read or one erasure at a time. `Splitter` is `file::splitter`,
with the loop of `file::stream::write()` and the account of `disk_accessor`.
Files are inodes (`node`) with names (`dir`), because an erased part lives as
long as somebody has it open. `rid`, `wid`, `wf`, `rf`, `roff` are the
members of the class; `shared` says that `_rfile` and `_wfile` are one `FILE`.
`WriteTurn` is one whole `splitter::write()`, under `_write_m`, built from
`OpenWriteFile` and `NextPart`; `read()` is a step for each access it makes
outside the mutex (`ReadCall`, `OpenShared`, `OpenByName`, `ReadCheck`,
`ReadData`, `ReadEnd`). `Create` is the constructor, with the numbers
found in the directory and `set_current_size()`. Sizes are in units of the eight
bytes of a header; `size_t` is computed modulo `Word`. An open takes any inode
that has neither name nor user (`FreeInodes`); that at least one is left is
a bound of the model (`InodesLeft`), stated in the guard of every action that
may open a file. `Disk` is what the parts hold from `rid` to `wid`, in order: the
variable `disk` of `RetentionFile`.

### Muxer

One action per critical section. `publish()` is several program points because it
holds and releases the mutex: `PublishLock`, `PublishPush` (one turn of the first
loop), `PublishUnlock` (the reader is executed if needed, then end, retry or go
on), `PublishRelock`, `PublishSpill` (one turn of the second loop),
`PublishReturn`, and its two failures. `pos` is the number of events before the
iterator `_pos`: `_push_to_queue()` moves the iterator to the new event exactly
when nothing was left to read, which leaves that number unchanged. `AckEvents` is
the whole of `ack_events()`, the refill from the file included.

The consumer is a failover (`NackEvents` on entering its loop, `Read`,
`FailoverAck` for the counts returned by `write()`, `flush()` and `stop()`,
`Disconnect`), or a feeder whose tasks run in the pool (`TaskTake` ...
`TaskFinish`, one step for each access to shared state). `OverAck` lets a failover
acknowledge more than it was given, as a stream with a wrong count does.
`Destroy`, `Crash` and `Create` are the destructor, the end of the process and the
constructor, whose `_pos` and do-while are modelled as they are written.

Abstracted: events are numbers; the write filter is the set `Rejected`;
statistics, logs and `pb_bench` points are left out; the read filter is applied
to events that come from the consumer and plays no part here.

### MuxEngine and Broadcast

`pc[t]` is the progress of thread `t` in `_send_to_subscribers()`: `cas`, `swap`
(inside the critical section), `first` (calling `publish` on the first muxer),
`wait` (for the promise), `after` (what stop() or unsubscribe_muxer() does next).
Posted tasks are the set `jobs`. `Release` is `~callback_caller()`: it runs when
the last of the sender and the tasks drops the completion object. A muxer's name
also stands for the thread that destroys it. `Publish` does what the state
requires under `_kiew_m`, publications during and after `stop()` included.
In the code `unload()` first waits for `_muxers` to be empty, then calls `stop()`,
which does nothing on a stopped engine, then commits. The model's
`Stop`, `StopOpenCache`, `Unload` in this order cover both the
case where stop() was called before and the case where unload() does it.

`Broadcast` is the abstract promise: there is one log, and what each subscriber
got is a contiguous piece of it from where it joined.

### PersistentCache and AtomicCache

The three files are variables that survive the process; `Open` is `_open()`,
which brings FILE.old back when FILE is missing; `commit()` is one step per system
call, each of which may fail or be followed by a crash. `AtomicCache` has a
content and what is staged; the refinement maps the content to what the next
`_open()` finds.

### Notifier and Service

`Notifier` has no state of its own: its operators take the record of a service
and the world (time, what inhibits notifications, state of the host, contacts
away) and return the record after a call of `notify()`. There is one operator
for each viability function of `notifier.cc`, `ContactsToNotify` with the
escalations, and one `Notify...` per category. `Service` makes the calls, in the
order of `handle_async_check_result()`: `Recorded` is its first part (attempts,
change times, acknowledgement), then `OkResult` or `ProblemResult`
(`AfterHost`, `Retried`, `Confirmed`). The other actions are the commands that
acknowledge, notify and switch flap detection, the expiration event of an
acknowledgement, and the start and end of downtimes as the notifier sees them.

The percentage of state changes is abstracted to the zone it is in (below,
between, above the thresholds), chosen freely at each result. The fields `owed`,
`excused`, `lost`, `wrong`, `fresh`, `repeated` are history: who was told of the
problem and not yet of its end, whose recovery was forgotten, who got one that
was wrong, who was told of a state twice. `ExcuseResets` leaves the recoveries
lost to the finding of `service_recovery` out of `lost`, so that the other run
can look for other causes.

### Downtime

Downtimes by id with their flags; the timed events in the order in which
`loop::add_event()` keeps them; and, because `handle()` calls itself
through the downtimes that it triggers, a stack of calls in progress:
`Handle` is one call up to its loop, `HandleEach` and `HandleStop` one turn of
the loops of a start and of a stop. `Unschedule` is one turn of
`unschedule_downtime()`, whose `remove_downtime()` removes nothing, as it
compares the address of an id with the id. `RunEvent` takes the first event due,
`CheckResult` is what a check result does to flexible downtimes, `Restart` saves
and reloads (`Register` schedules the events anew, in the order of loading).
`Schedule` also schedules the downtimes of the anomaly detections of a service.

### Bam

Services, service KPIs, the nodes of a boolean expression, and BAs of the kinds
impact, best, worst and ratio_number, each with one of the downtime behaviours
ignore, ignore_kpi and inherit. The propagation is a depth-first recursion:
`stack` holds the calls still to be made, and each action is one
`update_from()` or `service_update()`: it updates what its node caches and puts
the calls to its parents in front when the code would notify them. A change of an
inherited downtime also sends a command to centengine, whose answers wait in
`feedback` and come back later (`Deliver`). `Eval` and `Reference` recompute
everything from the services: they are the definition that the caches are
compared with.

`Weight` is what `_apply_impact()` takes off the level of a BA of kind impact for
one KPI, `Rating` the state that a level or a computed state stands for, and
`StateOf` adds to it the test of `get_state_hard()` that all the KPIs are in
downtime. `Init` is what the configuration leaves: `add_impact()` takes the KPIs
(`FirstImpacts`) and `_resolve_kpi()` forces a propagation after each, so that
every BA starts with the states of the BAs below (`FirstState`). `Regular` names
the configurations for which states and downtimes are meant to be exact: the
theorems assume it, and `MCBam` asserts that the configurations of `bam_tree`
satisfy it.

## 4. Runs

| run | checks | shows |
|---|---|---|
| `muxer_failover` | TypeOK, NoDuplicate, Conservation, AckedWereDelivered, QueueBound, MemoryDrains | reconnections, over-acknowledgements, spilling, refilling, destruction, a crash and an I/O error in any order lose, repeat and forget nothing they must not, and all that enters memory is drained |
| `muxer_feeder` | NoDuplicate, AckedWereDelivered, OneReader | reader tasks: one at a time, only what the client took is forgotten |
| `engine_safety` | TypeOK, OneBatch, Complete, Kept, UnloadEnds, OrderedBroadcast | one batch at a time, no subscribed muxer misses an event, nothing disappears without trace, stop and unload end; the engine implements `Broadcast` |
| `cache_atomic` | FilesInPlace, AtomicReplacement | the cache implements `AtomicCache` |
| `splitter_muxer` | TypeOK, Accounted, WithinLimit, ImplementsFile, EveryChunkRead | the parts amount to the file the muxer relies on, across restarts, a crash and refused writes; the account is exact and the limit kept; without a limit every chunk is read |
| `service_notify` | TypeOK, HardIsConfirmed, NoWrongRecovery, RecoveryKept, NotRepeated, RecoveryArrives, ProblemAnnounced | hard states are confirmed; problems and recoveries reach the right contacts, once, although downtimes, flapping, periods and absences held them back |
| `downtime_mixed` | TypeOK, DepthExact, FixedInWindow, FlexibleStarts, TriggeredWithin, FixedLasts, FixedEnds | counters agree with the downtimes in effect; fixed downtimes cover exactly their windows, through stale events and a restart, and end |
| `bam_tree` | TypeOK, ExpressionExact, StateExact, DowntimeExact | at rest, the caches of expression and BAs agree with a recomputation from the services |

Runs that end in a counterexample, each against a sentence of the repository
(quoted in `PROJECT.json`, "findings"):

| run | what the code does |
|---|---|
| `engine_wakeup` | the loser of the compare-exchange leaves its event to a winner that has already taken the queue |
| `service_recovery` | a custom notification during a problem zeroes the notification number, and the recovery is then forgotten |
| `downtime_flexible` | a flexible downtime started by its event while the object had a problem does not end when its end event finds the object OK |
| `bam_best` | a BA of kind best that ignores KPIs in downtime turns OK without telling its parents |

Behaviours the models contain, which a reader of the code may not expect and
which no run states:

* `publish()` of a muxer finds memory full, releases the mutex, and spills the
  rest of its batch even if an acknowledgement made room in between. Newer events
  enter memory while older ones wait in the retention file, and are delivered
  before them.
* Events pushed between a reader task's `read()` and the lowering of
  `_reader_running` wake nobody until the next publication; a task that runs
  while no handler is installed leaves the flag raised (`muxer.cc:322`).
* After a crash `_pos` is the end of the reloaded list (`muxer.cc:112`), and a
  feeder's acknowledgement may forget events never given to it; a failover is
  safe, because it starts with `nack_events()`.
* A queue swapped out while every muxer is expired is destroyed
  (`engine.cc:397`); between the change of state in `stop()` and the opening of
  the cache, `publish()` uses a null `_cache_file` (`engine.cc:109`), which the
  model records in `nullCache`; stopping an engine that was never started
  replaces the events of the previous run by an empty file. The comment of
  `engine.hh` on `not_started` ("All event that could be received is lost")
  differs from the code, which queues them; the model follows the code.
* FILE.new is opened in append mode: an abandoned transaction of a persistent
  cache becomes part of the next one. `AtomicCache` therefore promises that a
  commit installs all that was staged since the previous commit.
* At the disk limit the loop of `stream::write()` does not end, with the mutex of
  the muxer held: nobody can read to make room. Hence `limit = 0` in
  `EveryChunkRead`.
* With two queue files, the constructor of the second resets the account
  to its own size (`splitter.cc:104`), and `Accounted` fails. The run has one.
* With a reader and a writer that no mutex serializes (`Serialized = FALSE`), the
  reader may open by name a part the writer has not flushed, take its end for the
  end of the part and erase it: `EveryChunkRead` fails. In the broker the muxer
  serializes them; only the unit test `concurrent.cc` does not.
* With `send_recovery_notifications_anyways`, outside the period, a recovery is
  sent without a look at the state (`notifier.cc:483`); the run has it off.
* The expiration event of an acknowledgement ends a later acknowledgement too
  (`service.cc:831` compares with `>=`); after three changes in one second a
  service may stay in a soft OK state.
* A flexible downtime started by a problem in the second of its own start event
  is ended by that event. A triggered flexible downtime of an object that is OK
  makes the loop of its parent's stop endless (`service_downtime.cc:427`). A
  triggered downtime that starts before its parent makes the reload throw through
  a `noexcept` function: `up` becomes FALSE. The expiration of a waiting downtime
  leaves the pending counter raised.

### Bounds

Every bound is a constant that appears only in guards.

* Muxer. With a memory limit of 2, batches of up to 3 and 5 or 6 events, a batch
  fills memory, spills in the middle, is refilled by acknowledgements of every
  size, and memory, file and batch in progress hold events at the same time; one
  event is refused by the filter in the middle of a batch. Two restarts, one
  crash and one failure are what it takes for a file to be reopened after a crash
  and again after a stop.
* Engine. Two publishers and two muxers are what it takes for one thread to lose
  the compare-exchange and for one task to run in the pool beside the sender;
  three events allow two batches, one with two events. Publishers and task slots
  are symmetric; muxers are not, because the first of the list is served by the
  sender. (No symmetry in a run with a liveness property.)
* Persistent cache. Three crashes and two failures allow a commit to be
  interrupted during the recovery from an interrupted commit.
* Splitter. Parts of three units hold two chunks of one and not the chunk of
  three: five chunks fill several parts, one of them oversized. The limit of 7
  refuses the header of a third part when the first two are full, and a chunk
  after its header when the first part was erased before.
* Service. Two attempts, two contacts of which an escalation adds one from the
  second notification on, a recovery delay of one second in a history of
  two, one change of the environment: a problem can be held back in one second
  and announced in the next, with flapping, a downtime or an acknowledgement
  between.
* Downtime. Three downtimes (a service downtime brings one for its anomaly
  detection), two state changes, one restart and six seconds let fixed, flexible
  and triggered downtimes overlap, be cancelled and be reloaded in effect. The
  requests contain no triggered flexible downtime (see above).
* BAM. Three levels with a service on two paths, an expression in which a
  service occurs twice, six mixes of kinds and behaviours. `MaxFeedback` stops
  the services while more than one answer is under way.

Deadlock is not checked where the system may come to rest (all published and
drained, the clock at its bound); it is checked for the cache and for BAM.

### Fairness

* Muxer (`FailoverFairness`): a `publish()` that started goes on; the failover
  reconnects (its thread retries until asked to stop); its loop calls `read()` at
  every turn, and its stream, flushed every second, ends up acknowledging what it
  was given. The mutex is held by others at times, hence strong fairness for
  reading and acknowledging: each contender releases it after finite work, and
  the thread tries again for ever. Disconnections are bounded by `MaxCuts`, since
  a connection that is always cut drains nothing.
* Engine (`Fairness`): threads and the pool run; the muxers of an engine that is
  stopped end up destroyed (at the end of cbd `endpoint::unload()` deletes the
  endpoints, stops the engine and precedes `engine::unload()`; a feeder or a
  pool task may hold a muxer a little longer), and main goes on to unload the
  engine. Publishing, starting and stopping are not fair.
* Splitter: the loop of `stream::write()` goes on; the muxer reads its file
  again whenever memory has room, for ever, hence strong fairness for `Read`,
  which writes interrupt; a closed file is opened again.
* Service: every result schedules the next check, so a service that stays in its
  state goes on reporting it. Commands, ticks and changes are not fair.
* Downtime: the main loop runs and time passes.

### Assumptions on the environment

* Downtime: the loop does what is due within the second (`Tick` waits for it),
  and commands and check results run after the events due in earlier seconds, as
  the order of the queue has it.
* Bam: the BA of the expression does not look at downtimes; leaves are told of a
  status before KPIs, as the order of their creation has it; the first
  impacts agree with the first states, because `_resolve_kpi()` forces a
  propagation. `StateExact` and `DowntimeExact` speak of a BA above the
  expression only when the expression is known.

## 5. Proofs

All theorems are proved by TLAPS for every value of the constants allowed by
the named assumption of the component's module: the types of the parameters and
what the code ensures of them (the memory limit is not zero, as
`event_queue_max_size()` ensures; the missing file is not a file; the muxers of
the engine, its publishers and its main thread are different; clocks and attempts
start at 1). `SequenceFacts` holds the lemmas on sequences, their elements, their
suffixes and removals that several proofs cite, and what the folds of the
community modules compute: the sum of a function over a finite set, changed at one
place, over a part of the set or over one more element, and `FlattenSeq`.
The library's induction theorems cannot be instantiated (see the end of this
section), so these lemmas argue by a least counterexample, a set of naturals
given explicitly.

`MuxerProofs`

* `TypeCorrect`. `TypeOK` is inductive: `_pos` stays inside the list because
  `ack_events()` stops at it, the read offset inside the file because
  `TakenCount` does.
* `ConservationHolds`. `Conservation` is inductive together with `TypeOK` and
  `Lifecycle` (without a muxer object there is no open file, no queue and no
  publication, and only then is there a memory file). The argument is one
  step per action on the set of accounted events; the lemmas on `Elems` of
  slices, concatenations and appends, `TakeFacts` (taking `n` events from the
  file splits `Unread` into what is taken and what remains unread) and
  `LoadFacts` (the constructor) carry it.
* `QueueBoundHolds`. Needs `Bounded`: the memory file has the same bound, because
  the constructor loads it whole, and then at least one event more.
* `OneReaderHolds`. Needs `FlagRaised`: a task that is posted or running implies
  that `_reader_running` is raised. The converse does not hold.
* `AckedWereDeliveredHolds`, for a failover. Needs `Given`: during a
  connection all that precedes `_pos` was delivered, which `nack_events()`
  establishes, and no reader task goes beyond its test of the handler. Without
  `~Feeder` the property does not hold after a crash.

* `NoDuplicateHolds`. Needs `EachOnce`: as long as the file was not reopened, the
  memory queue, the unread part of the file and the batch of `publish()` are
  disjoint sequences without repetition, none of their events was acknowledged
  and all are older than the next one to be published. Moving a prefix of
  the file into memory splits `Unread` (`TakeSplit`), and the lemmas
  `DistinctConcat`, `DistinctParts` and `DistinctAppend` carry the rest.

`MuxEngineProofs`, for any number of muxers, publishers and pool threads

* `TypeCorrect`; `OneBatchHolds`. `OneBatch` needs `Control`, three parts that are
  inductive only together: `Exclusive` (the thread that won the
  compare-exchange and the tasks it posted share one batch, and the flag is up as
  long as one of them is at work), `Subscribed` (`_muxers` has no muxer twice, and
  every living muxer is in it and at rest) and `Targets` (the muxers being handed the
  batch are alive and different). The flag alone is not enough: `swap` may
  run only when the tasks of the previous batch are gone, which `Release` ensures.
* `CompleteHolds`. Needs `Continues`: what a muxer got, with the batch that it is
  being handed, is the log since it subscribed.
* `BroadcastImplemented`. Under `Safe == TypeOK /\ Control /\ Continues` the step in
  which a thread takes `_kiew` is the abstract append, the step that hands a
  batch the abstract delivery, and every other step a stutter.
* `KeptHolds`. Needs `CacheOpened` (the cache file is opened once, when `stop()`
  ends) and `KeptElsewhere`: until the engine is unloaded no published event
  depends on what is on disk.

`ServiceProofs`, for any sets of contacts, escalations and inhibitors

The operators of `Notifier` take and return the record of a service, so there is
one lemma for each of them, on records, saying that it preserves
`Good(s, t)`: the types and three conditional parts; `Service` then only composes
them. `Inv` adds `Confirmation` and `Surroundings`.

* `TypeCorrect`; `HardIsConfirmedHolds`, from `Confirmation`.
* `NoWrongRecoveryHolds`. Needs `Truthful`: the contacts of the remembered problem
  notification are among those who are owed a recovery. Assumes
  `~SendAnyways`: with `send_recovery_notifications_anyways`, `notify()` sends a
  recovery that is not viable, and the property is not meant.
* `RecoveryKeptHolds`. Needs `Remembered`: who is owed a recovery and not excused is
  in the remembered notification, is still addressed, and the count is not 0.
  Assumes `ExcuseResets` (without it the property is refuted by the run
  `service_recovery`) and `Widening`: escalations without a last notification, for
  every state, whose contacts include the members. With others, a contact of
  the first escalation is not addressed any more when the next one applies, and
  its recovery is lost by configuration. `service_notify` is an instance.
* `NotRepeatedHolds`. Needs `Once`: who was told of the hard state was told after it
  was entered, and the state has not changed since. Assumes `NoRepetition`, the
  configuration that the property is about: a service that is not volatile, and no
  interval.

`DowntimeProofs`, for any objects, requests and anomaly detections, and any
number of downtimes, checks and restarts

`Inv == Core /\ Counted /\ Windows` is inductive, in three layers: each action has
one lemma for each layer, and the lemma of `Core` also says which downtimes the
calls in progress are about after the step (`Among`), which is all that the other
layers need to know of the stack.

* `Core`. `Types`; `Disciplined`: each call is made inside a loop or a stop, for
  other downtimes than the calls around it and triggered by later ones, and a
  triggered downtime is handled only while its parent is in effect; so `handle()`
  never comes back to a downtime that it is ending, and no call outlives
  its downtime. `Within`: a triggered downtime in effect is within its parent, or in
  the list of a cancellation. `Known`: an id that is not given yet has only
  events that are overdue, hence a new downtime, which `Open` schedules after
  them, does not inherit the event of a cancelled one that had the same id before
  a restart.
* `TypeCorrect`, `DepthExactHolds`, from `Counted`: depth is the number of downtimes
  in effect that no stop has left yet, pending at least the number of flexible ones
  that wait. Only a bound holds of pending: the expiration does not decrement it.
* `TriggeredWithinHolds`, from `Within`: no cancellation is in progress when the
  loop is idle.
* `FixedInWindowHolds`, `FixedLastsHolds`, from `FixedKept`: a fixed
  downtime has exactly one event, at its start and then after its end, or that event
  is being handled and it has none.
* `FlexibleStartsHolds`, from `FlexKept` and `Counted`: a flexible downtime that has
  not started waits or still has its first event; when it waits, `pending` is not 0,
  so a hard problem finds it.

`SplitterProofs`

* `TypeCorrect`, for any queues, with writer and reader serialized or not. Its
  invariant `TypeInv` adds to `TypeOK` that names are finitely many, and that a
  `read()` past its opening has a file.
* `FileImplemented`: under `Serialized` (the muxer calls its file under its own
  mutex) every step of each queue is a step of `RetentionFile` or a stutter.
  Needs `Place`: a file has one name, of one queue (`NoAlias`); a file without a
  name is gone (`NoGarbage`); there is no data without a header (`HeaderFirst`);
  the writer has the last part open or that part is empty (`Writer`); the
  reader has the first part open, and shares the writer's file exactly when
  that is the last part, except while the empty part is about to be erased
  (`Reader`); a closed queue has nothing open (`Closed`). Without
  `Writer` and `Reader` a part could be erased while it is written to. The lemmas
  on `FlattenSeq` of a sequence that gains or loses a part, or whose
  last part grows, turn a step on inodes into one on `disk`. Without
  `Serialized` the theorem is not to be expected: `_open_read_file()` opens by
  name after it released `_write_m` (see the hazards).
* `AccountExact`: for one queue the account of `disk_accessor` is the size of its
  parts, modulo `Word`. From `Place` and `CountInv`: each step adds to the account
  what it adds to the sum over the parts. For several queues it does not hold:
  `set_current_size()` is given the size of the files of one of them.
* `LimitKept`: with one queue, and `NoOverflow` (the limit plus a header or a chunk
  fits in `size_t`), the parts stay within the limit, the comparison in
  `fwrite()` being one of sums that did not wrap.

`PersistentCacheProofs`

* `FilesInPlaceHolds`, from `Inv == TypeOK /\ FilesInPlace /\ FilesClosed` (both
  files are closed during `commit()`).
* `ImplementsAtomicCache`: every step is a step of `AtomicCache` or a stutter;
  only the second rename changes what a reader finds, and moving FILE to
  FILE.old or back does not.

`BamProofs`

All four theorems are for any services, any graph of BAs whose edges go up in
number (the configuration refuses circles), any expression whose operators have
operands of their own, any order of the notifications, and any number of answers
under way. The recursive functions of `Bam` are first shown to satisfy the equations
that define them (`ValueUnfold`, `EvalUnfold`, `ReferenceUnfold` and the like, from
`Recursion` of `SequenceFacts`), and what is said of all nodes or all BAs is shown
along their numbers (`SetInduction`).

* `TypeCorrect`. `TypeInv` says that the level or state of a BA is the one that
  its impacts give (`agg = Applied`), although `ba_impact::_apply_changes()` only
  adds and takes off; the bounds of `TypeOK` on the level follow. It also says that
  the calls on the stack are calls that the graph allows.
* `ExpressionCorrect`, from `ExpressionInv`: every leaf has the state of its
  service and every operator has what it cached of its children, or a call that will
  tell it is on the stack. `bool_not` keeps nothing and passes the call on, so that
  a change may be on its way below a chain of negations of which the operator
  above already reads the new value: this is `Soon`. `OperInv` says what an operator
  may have cached in the three cases that `_update_state()` tells apart; the cache
  of the child that did not decide may be stale, and in the other two cases it is
  shown that `Differs` does not miss the change that makes it matter.
* `StateCorrect` and `DowntimeCorrect`, from `BaInv`. `SvcInv`: a service KPI has
  the state and the downtimes of its service or is to be told, and the downtime event
  it has still to see is the one difference. `ImpactInv`: a BA has of each KPI the
  state that the KPI's own impacts give (`Base`) and its downtime, or is to be told;
  `Base` is used since `get_state_hard()` of a worst BA that ignores KPIs in
  downtime reads the downtimes afresh, before its parents hear of them, and it is
  shown equal to the hard state (`HardIsBase`). `InheritInv`: the inherited
  downtime is the one the impacts give, or a call is still to come.
  `FeedbackInv`: the last answer of the engine under way is the downtime the BA ends
  with; `_downtimed` may be wrong before that. `AtOnce`: the call to a BA about a
  service KPI is the next one made, so no BA is read between the two. With the stack
  empty and the answers delivered, each BA is exact if the BAs below are
  (`QuietStep`).

The last two assume `Regular`:

* the BA of the expression has the behaviour ignore: `bool_binary_operator` tells its
  parents of changes of its value only, so the impact of an expression has a
  downtime that nothing keeps up to date, and the invariant says nothing of it;
* no best BA ignores KPIs in downtime: the run `bam_best` refutes it;
* a worst BA ignores KPIs in downtime only if they are services: with a BA
  below, `get_state_hard()` reads a downtime before the impacts have it, and a parent
  notified for another reason records a state that `Base` is not. `HardIsBase`
  is false there, during a propagation; TLC found no lasting difference on the
  graph of `MCBam`, so this part is what the proof needs, not a known fault;
* a KPI that is ok takes no points and the thresholds are below 100, and above 0 for
  ratio_number, so that a BA whose KPIs are all ok is ok. Otherwise a BA that inherits
  is not ok from the start, with no KPI that is not, and `DowntimeExact` fails in
  the initial state, since nothing computes the inherited downtime before the
  first change.

Only model-checked: liveness (`MemoryDrains`, `UnloadEnds`, `EveryChunkRead`,
`RecoveryArrives`, `ProblemAnnounced`, `FixedEnds`), which is out of the prover's
reach. All the other properties of the passing runs are stated by a theorem.

## 6. Not modelled

* The content of files and events, compression and serialisation: data the
  properties do not tell apart. Of the retention file, `remove_all_files()` and
  `flush()`.
* Filters that change while a muxer runs, `remove_queue_files()` (which erases
  files the muxer still has open, `feeder.cc:247`), the lifecycle of failovers,
  feeders and acceptors; an exception out of `muxer::publish()` in the sending
  thread (`engine.cc:436`). Planned.
* An uninitialised count of acknowledgements (failover.cc, when `stop()` throws)
  is covered only up to `OverAck` events too many, not as a negative number.
* Of centengine: hosts as checked objects, the scheduling of checks, freshness,
  event handlers, the computation of the flapping percentage, time periods and
  dependencies as such (they inhibit or not, at any time), configuration and
  retention of anything but downtimes.
* Of BAM: soft states, acknowledgements, reporting events, the persistent cache,
  the percentage kinds, xor, comparisons and arithmetic, reload of the
  configuration. Levels are whole points; the code's `int32_t previous_level`
  (`ba_impact.cc:123`) would not see a change of less than one. An operator does
  not tell its parents of a change of downtime alone
  (`bool_binary_operator.cc:139`).
* Network, databases, Lua, RRD, TLS, gRPC: external libraries and I/O. SQL and
  the agent: see `PROJECT.json`. Query construction, configuration parsing,
  conversions and generated code make up most of the repository's lines and hold
  little that a state machine would tell.
