------------------------------ MODULE Downtime ------------------------------
(***************************************************************************)
(* The scheduled downtimes of the monitoring engine: downtime_manager,     *)
(* host_downtime and service_downtime (engine/src/downtimes), the timed    *)
(* events that start, end and expire them, and their reload from the       *)
(* retention file when the engine restarts.                                *)
(*                                                                         *)
(* Everything runs in the main loop.  handle() calls itself for the        *)
(* downtimes that another one triggers: the calls in progress are the      *)
(* frames of a stack, and the loop goes on when the stack is empty.  A     *)
(* check result changes an object to OK or to a soft or hard problem.      *)
(***************************************************************************)
EXTENDS Integers, FiniteSets, Sequences, SequencesExt

CONSTANTS Object,        \* hosts and services
          Hosts,         \* the objects that are hosts
          Checked,       \* the objects whose state changes
          Detectors,     \* the anomaly detections of every service
          Requests,      \* the downtimes that operators ask for
          Cancels,       \* whether operators cancel downtimes
          MaxDowntimes,  \* bound on the downtimes scheduled
          MaxChecks,     \* bound on the state changes
          MaxRestarts,   \* bound on the restarts
          MaxTime        \* bound on the clock

Request == [obj : Object, start : Nat, end : Nat, fixed : BOOLEAN,
            duration : Nat \ {0}, triggered : BOOLEAN]

ASSUME DowntimeAssumption ==
  /\ Hosts \subseteq Object /\ Checked \subseteq Object
  /\ Detectors \in [Object -> SUBSET Object]
  /\ \A o \in Object : IsFiniteSet(Detectors[o])
  /\ Requests \subseteq Request /\ Cancels \in BOOLEAN
  /\ {MaxDowntimes, MaxChecks, MaxRestarts} \subseteq Nat /\ MaxTime \in Nat \ {0}

VARIABLES now,       \* time()
          state,     \* "ok", "soft" or "hard": the state of every object
          depth,     \* _scheduled_downtime_depth of every object
          pending,   \* _pending_flex_downtime of every object
          downtimes, \* _scheduled_downtimes, by id
          lastId,    \* _next_id
          events,    \* _event_list_high: the events of the downtimes
          stack,     \* the calls in progress, innermost first
          up,        \* the engine is running
          checks, restarts

vars == <<now, state, depth, pending, downtimes, lastId, events, stack, up,
          checks, restarts>>

Init ==
  /\ now = 1 /\ state = [o \in Object |-> "ok"]
  /\ depth = [o \in Object |-> 0] /\ pending = [o \in Object |-> 0]
  /\ downtimes = <<>> /\ lastId = 0 /\ events = <<>> /\ stack = <<>>
  /\ up = TRUE /\ checks = 0 /\ restarts = 0

Ids == DOMAIN downtimes

Children(id) == {c \in Ids : downtimes[c].trigger = id}

(* The first of some downtimes in the order of the map.                    *)
First(ids) ==
  CHOOSE c \in ids : \A d \in ids \ {c} :
    \/ downtimes[c].start < downtimes[d].start
    \/ downtimes[c].start = downtimes[d].start /\ c < d

(* loop::add_event(): after the events that are due at the same time.      *)
AddEvent(queue, e) ==
  InsertAt(queue, Cardinality({i \in DOMAIN queue : queue[i].at <= e.at}) + 1, e)

Scheduled(id, at) == [kind |-> "scheduled", id |-> id, at |-> at]

Expire(at) == [kind |-> "expire", id |-> 0, at |-> at]

Idle == up /\ stack = <<>>

(* The events that process commands and check results run in the order of  *)
(* the queue, so after the ones that were due in an earlier second.        *)
Open == Idle /\ (events # <<>> => Head(events).at >= now)
-----------------------------------------------------------------------------
(* schedule_downtime(): the downtime, and one that it triggers for every   *)
(* anomaly detection of the service.  subscribe() schedules an event for a *)
(* downtime that no other one triggers.                                    *)
NewDowntime(q, o, trigger) ==
  [obj |-> o, start |-> q.start, end |-> q.end, fixed |-> q.fixed,
   duration |-> q.duration, trigger |-> trigger,
   inEffect |-> FALSE, startFlex |-> FALSE, incremented |-> FALSE]

Schedule(q, trigger) ==
  LET id        == lastId + 1
      detectors == SetToSeq(Detectors[q.obj])
      last      == id + Len(detectors)
  IN /\ Open /\ q.start < q.end /\ q.end > now
     /\ q.triggered = (trigger # 0) /\ last <= MaxDowntimes
     /\ downtimes' = [i \in Ids \cup id .. last |->
                        CASE i < id -> downtimes[i]
                          [] i = id -> NewDowntime(q, q.obj, trigger)
                          [] i > id -> NewDowntime(q, detectors[i - id], id)]
     /\ lastId' = last
     /\ events' = IF trigger = 0 THEN AddEvent(events, Scheduled(id, q.start)) ELSE events
     /\ UNCHANGED <<now, state, depth, pending, stack, up, checks, restarts>>
-----------------------------------------------------------------------------
(* handle(), called for the downtime of the innermost frame.               *)
Call(id) == [op |-> "handle", id |-> id]

Each(ids) == [op |-> "each", ids |-> ids]

Stop(id, scan) == [op |-> "stop", id |-> id, scan |-> scan]

Cancel(ids) == [op |-> "cancel", ids |-> ids]

Top(op) == up /\ stack # <<>> /\ Head(stack).op = op

(* A flexible downtime waits while its object is OK.                       *)
Waits(d) == ~d.fixed /\ ~d.startFlex /\ state[d.obj] = "ok"

Wait(id, d) ==
  /\ pending' = [pending EXCEPT ![d.obj] = @ + 1]
  /\ downtimes' = [downtimes EXCEPT ![id].incremented = TRUE]
  /\ events' = AddEvent(events, Expire(d.end + 1))
  /\ stack' = Tail(stack)
  /\ UNCHANGED depth

\* Mutant: every flexible downtime that ends is uncounted.
UncountedAlways(d) ==
  [pending EXCEPT ![d.obj] = IF ~d.fixed /\ @ > 0 THEN @ - 1 ELSE @]

(* An ended downtime that waited is not pending any more.                  *)
Uncounted(d) ==
  [pending EXCEPT ![d.obj] = IF ~d.fixed /\ d.incremented /\ @ > 0 THEN @ - 1 ELSE @]

BeginStop(id, d) ==
  /\ depth' = [depth EXCEPT ![d.obj] = @ - 1]
  /\ pending' = Uncounted(d)
  /\ stack' = <<Stop(id, 1)>> \o Tail(stack)
  /\ UNCHANGED <<downtimes, events>>

\* Mutant: the end of a fixed downtime is its first second outside.
EndTimeEarly(d) == IF d.fixed THEN d.end - 1 ELSE now + d.duration

(* The run time of the event that ends a downtime.                         *)
EndTime(d) == IF d.fixed THEN d.end + 1 ELSE now + d.duration

Start(id, d) ==
  /\ depth' = [depth EXCEPT ![d.obj] = @ + 1]
  /\ downtimes' = [downtimes EXCEPT ![id].inEffect = TRUE]
  /\ events' = AddEvent(events, Scheduled(id, EndTime(d)))
  /\ stack' = (IF Children(id) = {} THEN <<>> ELSE <<Each(Children(id))>>) \o Tail(stack)
  /\ UNCHANGED pending

Handle ==
  /\ Top("handle")
  /\ LET id == Head(stack).id
         d  == downtimes[id]
     IN IF Waits(d) THEN Wait(id, d)
        ELSE IF d.inEffect THEN BeginStop(id, d) ELSE Start(id, d)
  /\ UNCHANGED <<now, state, lastId, up, checks, restarts>>

(* The loops of a start and of check_pending_flex_*_downtime().            *)
HandleEach ==
  /\ Top("each")
  /\ LET ids == Head(stack).ids
     IN stack' = IF ids = {} THEN Tail(stack)
                 ELSE <<Call(First(ids)), Each(ids \ {First(ids)})>> \o Tail(stack)
  /\ UNCHANGED <<now, state, depth, pending, downtimes, lastId, events, up, checks, restarts>>

\* Mutant: the downtimes that it triggered are left as they are.
StopStepAlone(f) ==
  /\ downtimes' = [c \in Ids \ {f.id} |-> downtimes[c]]
  /\ stack' = Tail(stack)

\* Mutant: the loop goes on after scans that found nothing.
StopStepForever(f) ==
  LET triggered == Children(f.id)
  IN /\ stack' = (IF triggered # {} THEN <<Call(First(triggered))>> ELSE <<>>)
                 \o <<Stop(f.id, 3 - f.scan)>> \o Tail(stack)
     /\ UNCHANGED downtimes

(* The loop of a stop: two scans for a triggered downtime, until the       *)
(* second one finds none.                                                  *)
StopStep(f) ==
  LET triggered == Children(f.id)
  IN IF triggered # {}
       THEN /\ stack' = <<Call(First(triggered)), Stop(f.id, 3 - f.scan)>> \o Tail(stack)
            /\ UNCHANGED downtimes
     ELSE IF f.scan = 1
       THEN /\ stack' = <<Stop(f.id, 2)>> \o Tail(stack)
            /\ UNCHANGED downtimes
     ELSE /\ downtimes' = [c \in Ids \ {f.id} |-> downtimes[c]]
          /\ stack' = Tail(stack)

HandleStop ==
  /\ Top("stop")
  /\ StopStep(Head(stack))
  /\ UNCHANGED <<now, state, depth, pending, lastId, events, up, checks, restarts>>
-----------------------------------------------------------------------------
(* unschedule_downtime() and the deletion by object: a downtime takes the  *)
(* ones that it triggers with it.  remove_downtime() compares the address  *)
(* of the id of an event with the id, so the events stay in the queue.     *)
CancelDowntimes(ids) ==
  /\ Open /\ Cancels /\ ids # {}
  /\ stack' = <<Cancel(ids)>>
  /\ UNCHANGED <<now, state, depth, pending, downtimes, lastId, events, up, checks, restarts>>

\* Mutant: a downtime that has not started yet leaves as well.
UncoveredAlways(d) == [depth EXCEPT ![d.obj] = @ - 1]

Uncovered(d) == [depth EXCEPT ![d.obj] = IF d.inEffect THEN @ - 1 ELSE @]

Unschedule ==
  /\ Top("cancel")
  /\ LET ids == Head(stack).ids \cap Ids
         id  == First(ids)
         d   == downtimes[id]
     IN IF ids = {}
          THEN stack' = Tail(stack) /\ UNCHANGED <<depth, pending, downtimes>>
          ELSE /\ pending' = [pending EXCEPT ![d.obj] =
                                IF ~d.fixed /\ d.incremented THEN @ - 1 ELSE @]
               /\ depth' = Uncovered(d)
               /\ downtimes' = [c \in Ids \ {id} |-> downtimes[c]]
               /\ stack' = <<Cancel((ids \ {id}) \cup Children(id))>> \o Tail(stack)
  /\ UNCHANGED <<now, state, lastId, events, up, checks, restarts>>
-----------------------------------------------------------------------------
(* The main loop: the first event of the queue when it is due.             *)
Due == events # <<>> /\ Head(events).at <= now

\* Mutant: a downtime in effect expires too.
ExpiredAny(d) == d.end < now

Expired(d) == ~d.inEffect /\ d.end < now

RunEvent ==
  /\ Idle /\ Due /\ events' = Tail(events)
  /\ LET e == Head(events)
     IN IF e.kind = "expire"
          THEN /\ downtimes' = [c \in {i \in Ids : ~Expired(downtimes[i])} |-> downtimes[c]]
               /\ UNCHANGED stack
          ELSE /\ stack' = IF e.id \in Ids THEN <<Call(e.id)>> ELSE <<>>
               /\ UNCHANGED downtimes
  /\ UNCHANGED <<now, state, depth, pending, lastId, up, checks, restarts>>

(* A check result.  A host looks for flexible downtimes at every change, a *)
(* service when a problem is hard and some are pending.                    *)
LooksForFlexible(o, s) ==
  IF o \in Hosts THEN s # "ok" ELSE s = "hard" /\ pending[o] > 0

Startable(o) ==
  {i \in Ids : LET d == downtimes[i]
               IN /\ d.obj = o /\ ~d.fixed /\ ~d.inEffect /\ d.trigger = 0
                  /\ d.start <= now /\ now <= d.end}

CheckResult(o, s) ==
  /\ Open /\ checks < MaxChecks /\ checks' = checks + 1
  /\ s # state[o] /\ ~(state[o] = "hard" /\ s = "soft")
  /\ state' = [state EXCEPT ![o] = s]
  /\ LET ids == IF LooksForFlexible(o, s) THEN Startable(o) ELSE {}
     IN /\ downtimes' = [i \in Ids |-> [downtimes[i] EXCEPT !.startFlex = @ \/ i \in ids]]
        /\ stack' = IF ids = {} THEN <<>> ELSE <<Each(ids)>>
  /\ UNCHANGED <<now, depth, pending, lastId, events, up, restarts>>

(* The engine stops, which saves the downtimes in the order of the map,    *)
(* and starts: the constructor of a triggered downtime throws when its     *)
(* parent is not loaded yet, through a function that may not throw.        *)
(* initialize_downtime_data() then drops the stale downtimes and the ones  *)
(* they triggered.                                                         *)
Loadable ==
  \A i \in Ids : LET p == downtimes[i].trigger
                 IN p # 0 => p \in Ids /\ downtimes[p].start <= downtimes[i].start

Stale(i) == downtimes[i].end < now

Valid == CHOOSE s \in SUBSET Ids :
  s = {i \in Ids : ~Stale(i) /\ downtimes[i].trigger \in s \cup {0}}

\* Mutant: the start of a downtime that has begun is not scheduled again.
UntriggeredFuture == {i \in Ids : downtimes[i].trigger = 0 /\ downtimes[i].start >= now}

Untriggered == {i \in Ids : downtimes[i].trigger = 0}

(* The events that register_downtime() schedules, in the order of loading. *)
Register ==
  \E ids \in [1 .. Cardinality(Untriggered) -> Untriggered] :
    /\ Untriggered = {ids[k] : k \in DOMAIN ids}
    /\ \A j, k \in DOMAIN ids : j < k =>
         \/ downtimes[ids[j]].start < downtimes[ids[k]].start
         \/ downtimes[ids[j]].start = downtimes[ids[k]].start /\ ids[j] < ids[k]
    /\ events' = [k \in DOMAIN ids |-> Scheduled(ids[k], downtimes[ids[k]].start)]

Restart ==
  /\ Idle /\ restarts < MaxRestarts /\ restarts' = restarts + 1
  /\ depth' = [o \in Object |-> 0] /\ pending' = [o \in Object |-> 0]
  /\ IF Loadable
       THEN /\ downtimes' = [i \in Valid |->
                  [downtimes[i] EXCEPT !.inEffect = FALSE, !.startFlex = FALSE,
                                       !.incremented = FALSE]]
            /\ Register
            /\ lastId' = IF Valid = {} THEN 0
                         ELSE CHOOSE i \in Valid : \A j \in Valid : j <= i
            /\ UNCHANGED up
       ELSE /\ up' = FALSE /\ downtimes' = <<>> /\ events' = <<>>
            /\ UNCHANGED lastId
  /\ UNCHANGED <<now, state, stack, checks>>

(* The loop does what is due within the second.                            *)
Tick ==
  /\ Idle /\ ~Due /\ now < MaxTime /\ now' = now + 1
  /\ UNCHANGED <<state, depth, pending, downtimes, lastId, events, stack, up, checks, restarts>>

MainLoop == Handle \/ HandleEach \/ HandleStop \/ Unschedule \/ RunEvent

Next ==
  \/ \E q \in Requests, t \in Ids \cup {0} : Schedule(q, t)
  \/ \E i \in Ids : CancelDowntimes({i})
  \/ \E o \in Object : CancelDowntimes({i \in Ids : downtimes[i].obj = o})
  \/ \E o \in Checked, s \in {"ok", "soft", "hard"} : CheckResult(o, s)
  \/ MainLoop \/ Restart \/ Tick

Spec == Init /\ [][Next]_vars

(* The main loop runs, and time passes.                                    *)
LiveSpec == Spec /\ WF_vars(MainLoop) /\ WF_vars(Tick)
-----------------------------------------------------------------------------
Frame ==
  [op : {"handle"}, id : Ids] \cup [op : {"each", "cancel"}, ids : SUBSET Ids]
    \cup [op : {"stop"}, id : Ids, scan : {1, 2}]

(* Every variable has its type: every call in progress is for a downtime   *)
(* that exists, and no counter is negative.                                *)
TypeOK ==
  /\ now \in 1 .. MaxTime /\ state \in [Object -> {"ok", "soft", "hard"}]
  /\ depth \in [Object -> 0 .. MaxDowntimes] /\ pending \in [Object -> Nat]
  /\ Ids \subseteq 1 .. lastId /\ lastId \in 0 .. MaxDowntimes
  /\ \A i \in Ids : downtimes[i].obj \in Object /\ downtimes[i].trigger \in 0 .. i - 1
  /\ \A i \in DOMAIN events : events[i].kind = "scheduled" => events[i].id > 0
  /\ \A i \in DOMAIN stack : stack[i] \in Frame
  /\ up \in BOOLEAN /\ checks \in 0 .. MaxChecks /\ restarts \in 0 .. MaxRestarts

Stopping == {stack[i].id : i \in {j \in DOMAIN stack : stack[j].op = "stop"}}

(* _scheduled_downtime_depth counts the downtimes in effect, through       *)
(* nested starts and stops, cancellations and expirations: an object does  *)
(* not stay muted after its last downtime, nor is it notified inside one.  *)
DepthExact ==
  \A o \in Object :
    depth[o] = Cardinality({i \in Ids \ Stopping :
                              downtimes[i].obj = o /\ downtimes[i].inEffect})

(* The engine has done what is due.                                        *)
Quiet == Idle /\ ~Due

(* A fixed downtime is in effect from its start to its end, however many   *)
(* downtimes and stale events there are.                                   *)
FixedInWindow ==
  Quiet => \A i \in Ids :
    LET d == downtimes[i]
    IN d.fixed /\ d.trigger = 0 => d.inEffect = (d.start <= now) /\ now <= d.end

(* Only a cancellation takes a fixed downtime away before its end: not the *)
(* event of another downtime, nor the expiration, nor a restart.           *)
FixedLasts ==
  [][\A i \in Ids :
       downtimes[i].fixed /\ downtimes[i].trigger = 0 /\ i \notin Ids' =>
         downtimes[i].end < now \/ Top("cancel") \/ ~up']_vars

(* A flexible downtime is in effect when its object has a hard problem in  *)
(* its window: it does not miss the problem for a wrong count of pending   *)
(* downtimes.                                                              *)
FlexibleStarts ==
  Quiet => \A i \in Ids :
    LET d == downtimes[i]
    IN /\ ~d.fixed /\ d.trigger = 0 /\ d.start <= now /\ now <= d.end
       /\ state[d.obj] = "hard"
       => d.inEffect

(* A triggered downtime is in effect only within the one that triggers it. *)
TriggeredWithin ==
  Idle => \A i \in Ids :
    LET d == downtimes[i]
    IN d.trigger # 0 /\ d.inEffect =>
         d.trigger \in Ids /\ downtimes[d.trigger].inEffect

(* The end event of every fixed downtime takes it, and the ones that it    *)
(* triggers, out of the map.                                               *)
FixedEnds ==
  \A i \in 1 .. MaxDowntimes :
    (i \in Ids /\ downtimes[i].fixed /\ downtimes[i].trigger = 0) ~> i \notin Ids

(* A downtime in effect ends, as a comment of cmd_schedule_downtime() says *)
(* of the flexible one: it "will last for "duration" seconds".             *)
DowntimeEnds ==
  \A i \in 1 .. MaxDowntimes :
    (i \in Ids /\ downtimes[i].inEffect) ~> ~(i \in Ids /\ downtimes[i].inEffect)
=============================================================================
