------------------------------ MODULE Service -------------------------------
(***************************************************************************)
(* A service of the monitoring engine (engine/src/service.cc): what a      *)
(* check result does to its state (soft and hard states, attempts,         *)
(* acknowledgement, flapping) and which notifications follow, with the     *)
(* commands that acknowledge a problem, send a custom notification and     *)
(* switch flap detection, and the start and end of its downtimes.          *)
(*                                                                         *)
(* The engine runs all of this in its main loop, one call at a time.       *)
(* The host, the time periods, the master of its dependencies and the      *)
(* presence of the contacts change between calls.  The percentage of       *)
(* state changes is below, between or above the flap thresholds; a check   *)
(* result is processed up to MaxLatency after its check started.           *)
(***************************************************************************)
EXTENDS Notifier

CONSTANTS Results,       \* the states that check results report
          MaxAttempts,   \* max_check_attempts()
          AckTimeout,    \* acknowledgement_timeout()
          Commands,      \* the commands that operators use
          Disturbances,  \* the inhibitors that come and go
          Hosts,         \* the states the host takes
          Absences,      \* the sets of contacts that may be away together
          Zones,         \* where the percentage of state changes may be
          MaxLatency,    \* bound on the age of a check result
          MaxTime,       \* bound on the clock
          MaxChanges     \* bound on the changes of the environment

ASSUME ServiceAssumption ==
  /\ Results \subseteq State /\ MaxAttempts \in Nat \ {0} /\ AckTimeout \in Nat
  /\ Disturbances \subseteq Inhibitor /\ Hosts \subseteq {"up", "softDown", "down"}
  /\ Absences \subseteq SUBSET Contact
  /\ Zones \subseteq {"below", "between", "above"}
  /\ MaxLatency \in Nat /\ MaxTime \in Nat \ {0} /\ MaxChanges \in Nat

VARIABLES svc,       \* the service
          now,       \* time()
          env, host, away,  \* what notify() reads besides the service
          ackEvents, \* when the scheduled EVENT_EXPIRE_SERVICE_ACK are due
          changes    \* how often the environment changed

vars == <<svc, now, env, host, away, ackEvents, changes>>

World == [now |-> now, env |-> env, host |-> host, away |-> away]

Init ==
  /\ svc = [state |-> "ok", type |-> "hard", attempt |-> 1, lastHard |-> "ok",
            lastChange |-> 0, lastHardChange |-> 0, hostProblem |-> FALSE,
            ack |-> "none", lastAck |-> 0,
            flapDetection |-> TRUE, flapping |-> FALSE, flapNotif |-> FALSE,
            depth |-> 0, number |-> 0, normal |-> {}, lastNotification |-> 0,
            owed |-> {}, excused |-> {}, lost |-> {}, wrong |-> {},
            fresh |-> {}, repeated |-> {}]
  /\ now = 1 /\ env = {} /\ host = "up" /\ away \in Absences
  /\ ackEvents = {}
  /\ changes = 0
-----------------------------------------------------------------------------
(* Flapping: set_flap(), clear_flap(), check_for_flapping() and            *)
(* handle_flap_detection_disabled().                                       *)
SetFlap(s) == NotifyFlapping([s EXCEPT !.flapping = TRUE], World, "flappingstart")

ClearFlap(s) ==
  NotifyRecovery(NotifyFlapping([s EXCEPT !.flapping = FALSE], World, "flappingstop"),
                 World)

CheckForFlapping(s, zone) ==
  CASE s.flapDetection /\ zone = "above" /\ s.state # "ok" /\ ~s.flapping -> SetFlap(s)
    [] s.flapDetection /\ zone = "below" /\ s.flapping -> ClearFlap(s)
    [] OTHER -> s

(* service_downtime::handle() and unschedule(): the notification is        *)
(* skipped inside another downtime.                                        *)
EnterDowntime(s) == [NotifyDowntime(s, World) EXCEPT !.depth = @ + 1]

LeaveDowntime(s) == NotifyDowntime([s EXCEPT !.depth = @ - 1], World)
-----------------------------------------------------------------------------
(* handle_async_check_result(): a check that started at time t reports     *)
(* state r.                                                                *)

\* Mutant: one attempt too many.
NextAttemptInclusive(s, r) ==
  IF s.state = "ok" /\ r # "ok" THEN 1
  ELSE IF s.type = "soft" /\ s.attempt <= MaxAttempts THEN s.attempt + 1
  ELSE s.attempt

NextAttempt(s, r) ==
  IF s.state = "ok" /\ r # "ok" THEN 1
  ELSE IF s.type = "soft" /\ s.attempt < MaxAttempts THEN s.attempt + 1
  ELSE s.attempt

StateChange(s, r) == r # s.state

HardStateChange(s, r) ==
  \/ s.hostProblem /\ r = "ok"
  \/ /\ NextAttempt(s, r) >= MaxAttempts
     /\ r # s.lastHard \/ s.lastChange > s.lastHardChange

(* A normal acknowledgement ends with the state it was given for, a        *)
(* sticky one with the problem.                                            *)
AckAfter(s, r) ==
  IF \/ s.ack = "normal" /\ StateChange(s, r)
     \/ s.ack = "sticky" /\ r = "ok" /\ (StateChange(s, r) \/ HardStateChange(s, r))
    THEN "none" ELSE s.ack

(* What is done before the state is looked at: attempts, change times,     *)
(* and acknowledgement.                                                    *)
Recorded(s, r, t) ==
  LET change == StateChange(s, r)
      hard   == HardStateChange(s, r)
      first(old) == IF old = 0 THEN t ELSE old
  IN [s EXCEPT
        !.state = r, !.attempt = NextAttempt(s, r), !.ack = AckAfter(s, r),
        !.lastNotification = IF change \/ hard THEN 0 ELSE @,
        !.lastChange = IF change THEN t ELSE first(@),
        !.lastHardChange = IF hard THEN t ELSE first(@),
        !.fresh = IF change \/ hard THEN {} ELSE @]

(* The operators below are the stages of the handler.  A stage takes the   *)
(* record of the service that the previous one made and sets svc' at the   *)
(* end: \E b \in {e} names the value of e.                                 *)
Becomes(s) == svc' = s

HardRecovery(s, t) ==
  [s EXCEPT !.type = "hard", !.lastHardChange = t, !.attempt = 1]

SoftRecovery(s) ==
  [s EXCEPT !.type = "soft",
            !.attempt = IF MaxAttempts - 1 < 1 THEN 1 ELSE MaxAttempts - 1]

(* Every result OK tries the recovery notification again, a hard recovery  *)
(* twice.                                                                  *)
OkReset(s) == [s EXCEPT !.hostProblem = FALSE, !.lastHard = "ok",
                        !.lastNotification = 0, !.ack = "none"]

\* Mutant: only the hard recovery itself is announced.
OkResultOnce(s, change, hard, t, zone) ==
  IF hard
    THEN \E a \in {CheckForFlapping(HardRecovery(s, t), zone)} :
           Becomes(OkReset(NotifyRecovery(a, World)))
    ELSE \E a \in {OkReset(IF change THEN SoftRecovery(s) ELSE s)} :
           Becomes(CheckForFlapping(a, zone))

OkResult(s, change, hard, t, zone) ==
  IF hard
    THEN \E a \in {CheckForFlapping(HardRecovery(s, t), zone)} :
           \E b \in {NotifyRecovery(a, World)} :
             \E c \in {NotifyRecovery(b, World)} : Becomes(OkReset(c))
    ELSE \E a \in {IF change THEN SoftRecovery(s) ELSE s} :
           \E b \in {OkReset(NotifyRecovery(a, World))} :
             Becomes(CheckForFlapping(b, zone))

(* With the host down the problem is hard at once; when the host is back   *)
(* a soft problem starts its attempts again.                               *)
AfterHost(s, change, hard, t) ==
  IF host # "up"
    THEN LET hardNow == hard \/ s.lastHard # s.state
         IN [s EXCEPT !.hostProblem = TRUE,
                      !.lastChange = IF change \/ hardNow THEN t ELSE @,
                      !.lastHardChange = IF hardNow THEN t ELSE @,
                      !.type = IF hardNow THEN "hard" ELSE @,
                      !.lastHard = s.state]
    ELSE [s EXCEPT !.hostProblem = FALSE,
                   !.attempt = IF s.hostProblem /\ s.type = "soft" THEN 1 ELSE @]

\* Mutant: the state type stays as it is.
RetriedHard(s, zone) == CheckForFlapping(s, zone)

(* Attempts are left: a soft state, unless the host is down.               *)
Retried(s, zone) ==
  CheckForFlapping([s EXCEPT !.type = IF host = "up" THEN "soft" ELSE @], zone)

(* No attempt is left: a hard problem.  A flexible downtime may start      *)
(* with it, before the notification.                                       *)
Confirmed(s, flexible, zone) ==
  \E a \in {[s EXCEPT !.type = "hard", !.lastHard = s.state]} :
    \E b \in {IF flexible THEN EnterDowntime(a) ELSE a} :
      \E c \in {CheckForFlapping(b, zone)} : Becomes(NotifyNormal(c, World))

\* Mutant: only a hard state change is announced.
ProblemResultOnce(s, change, hard, t, zone, flexible) ==
  \E a \in {AfterHost(s, change, hard, t)} :
    IF a.attempt < MaxAttempts THEN Becomes(Retried(a, zone))
    ELSE IF change \/ hard THEN Confirmed(a, flexible, zone)
    ELSE Becomes(CheckForFlapping([a EXCEPT !.type = "hard", !.lastHard = a.state], zone))

ProblemResult(s, change, hard, t, zone, flexible) ==
  \E a \in {AfterHost(s, change, hard, t)} :
    IF a.attempt < MaxAttempts THEN Becomes(Retried(a, zone))
    ELSE Confirmed(a, flexible /\ (change \/ hard \/ a.lastHard # s.lastHard), zone)

CheckResult(r, t, zone, flexible) ==
  /\ \E a \in {Recorded(svc, r, t)} :
       LET change == StateChange(svc, r)
           hard   == HardStateChange(svc, r)
       IN IF r = "ok" THEN OkResult(a, change, hard, t, zone)
          ELSE ProblemResult(a, change, hard, t, zone, flexible)
  /\ UNCHANGED <<now, env, host, away, ackEvents, changes>>
-----------------------------------------------------------------------------
(* acknowledge_service_problem(), with the expiration event it schedules,  *)
(* remove_service_acknowledgement() and the expiration event.  The event   *)
(* of an earlier acknowledgement is not removed by a later one.            *)
Acknowledge(kind, notified) ==
  /\ "acknowledge" \in Commands /\ svc.state # "ok"
  /\ LET s == [svc EXCEPT !.ack = kind, !.lastAck = now]
     IN svc' = IF notified THEN NotifyAcknowledgement(s, World) ELSE s
  /\ ackEvents' = IF AckTimeout > 0 THEN ackEvents \cup {now + AckTimeout}
                  ELSE ackEvents
  /\ UNCHANGED <<now, env, host, away, changes>>

RemoveAcknowledgement ==
  /\ "acknowledge" \in Commands /\ svc.ack # "none"
  /\ svc' = [svc EXCEPT !.ack = "none"]
  /\ UNCHANGED <<now, env, host, away, ackEvents, changes>>

AckExpired(s) == s.ack # "none" /\ AckTimeout > 0 /\ s.lastAck + AckTimeout >= now

ExpireAcknowledgement(e) ==
  /\ e <= now
  /\ ackEvents' = ackEvents \ {e}
  /\ svc' = IF AckExpired(svc) THEN [svc EXCEPT !.ack = "none"] ELSE svc
  /\ UNCHANGED <<now, env, host, away, changes>>

(* _wrapper_send_custom_service_notification()                             *)
CustomNotification(forced) ==
  /\ "custom" \in Commands
  /\ svc' = NotifyCustom(svc, World, forced)
  /\ UNCHANGED <<now, env, host, away, ackEvents, changes>>

(* disable_flap_detection() and enable_flap_detection(), which looks at    *)
(* the history at once.                                                    *)
DisableFlapDetection ==
  /\ "flapDetection" \in Commands /\ svc.flapDetection
  /\ LET s == [svc EXCEPT !.flapDetection = FALSE, !.flapping = FALSE]
     IN svc' = IF svc.flapping
               THEN NotifyRecovery(NotifyFlapping(s, World, "flappingdisabled"), World)
               ELSE s
  /\ UNCHANGED <<now, env, host, away, ackEvents, changes>>

EnableFlapDetection(zone) ==
  /\ "flapDetection" \in Commands /\ ~svc.flapDetection
  /\ svc' = CheckForFlapping([svc EXCEPT !.flapDetection = TRUE], zone)
  /\ UNCHANGED <<now, env, host, away, ackEvents, changes>>

(* A downtime of the service starts; one ends or is cancelled.             *)
StartDowntime ==
  /\ "downtime" \in Commands /\ svc.depth = 0
  /\ svc' = EnterDowntime(svc)
  /\ UNCHANGED <<now, env, host, away, ackEvents, changes>>

EndDowntime ==
  /\ svc.depth > 0
  /\ svc' = LeaveDowntime(svc)
  /\ UNCHANGED <<now, env, host, away, ackEvents, changes>>

(* The environment.                                                        *)
Tick ==
  /\ now < MaxTime /\ now' = now + 1
  /\ UNCHANGED <<svc, env, host, away, ackEvents, changes>>

ChangeEnvironment ==
  /\ changes < MaxChanges /\ changes' = changes + 1
  /\ \/ /\ \E i \in Disturbances : env' = (env \ {i}) \cup ({i} \ env)
        /\ UNCHANGED <<host, away>>
     \/ host' \in Hosts \ {host} /\ UNCHANGED <<env, away>>
     \/ away' \in Absences \ {away} /\ UNCHANGED <<env, host>>
  /\ UNCHANGED <<svc, now, ackEvents>>

Check(r) ==
  \E zone \in Zones, flexible \in {"downtime" \in Commands /\ svc.depth = 0, FALSE} :
    \E t \in {u \in (now - MaxLatency) .. now : u > 0} :
      CheckResult(r, t, zone, flexible)

Next ==
  \/ \E r \in Results : Check(r)
  \/ \E kind \in {"normal", "sticky"}, n \in BOOLEAN : Acknowledge(kind, n)
  \/ RemoveAcknowledgement
  \/ \E e \in ackEvents : ExpireAcknowledgement(e)
  \/ \E forced \in BOOLEAN : CustomNotification(forced)
  \/ DisableFlapDetection
  \/ \E zone \in Zones : EnableFlapDetection(zone)
  \/ StartDowntime \/ EndDowntime
  \/ Tick \/ ChangeEnvironment

Spec == Init /\ [][Next]_vars

(* Every result schedules the next check: a service that stays in its      *)
(* state goes on reporting it.                                             *)
LiveSpec == Spec /\ WF_vars(\E r \in {svc.state} : Check(r))
-----------------------------------------------------------------------------
(* What is remembered of the notification of a problem.                    *)
NotificationType == [to : SUBSET Contact, interval : Nat]

(* What the fields of a service range over at time t: the ones of the      *)
(* state, those of its notifications and the history.                      *)
ServiceType(t) ==
  [state : State, type : {"soft", "hard"}, attempt : 1 .. MaxAttempts,
   lastHard : State, lastChange : 0 .. t, lastHardChange : 0 .. t,
   hostProblem : BOOLEAN, ack : {"none", "normal", "sticky"}, lastAck : 0 .. t,
   flapDetection : BOOLEAN, flapping : BOOLEAN, flapNotif : BOOLEAN,
   depth : 0 .. 1, number : 0 .. MaxNumber,
   normal : SUBSET NotificationType, lastNotification : 0 .. t,
   owed : SUBSET Contact, excused : SUBSET Contact, lost : SUBSET Contact,
   wrong : SUBSET Contact, fresh : SUBSET Contact, repeated : SUBSET Contact]

(* Every field has its type: an attempt is never counted beyond            *)
(* max_check_attempts(), no time is in the future, and one notification of *)
(* a problem is remembered at most.                                        *)
TypeOK ==
  /\ svc \in ServiceType(now) /\ Cardinality(svc.normal) <= 1
  /\ now \in 1 .. MaxTime /\ env \subseteq Inhibitor /\ host \in Hosts \cup {"up"}
  /\ away \subseteq Contact /\ changes \in 0 .. MaxChanges

(* A problem is hard when, and only when, handle_async_check_result() used *)
(* all the attempts for it or the host had a problem too, through every    *)
(* sequence of results, host states and recoveries.                        *)
HardIsConfirmed ==
  svc.state # "ok" =>
    IF svc.type = "soft" THEN svc.attempt < MaxAttempts
    ELSE /\ svc.lastHard = svc.state
         /\ svc.hostProblem \/ svc.attempt = MaxAttempts

(* notify() announces a recovery only when the service is OK, and only to  *)
(* contacts that were told of the problem and not yet of its end.          *)
NoWrongRecovery == svc.wrong = {}

(* notify() does not lose a recovery: a contact that was told of a problem *)
(* is told of its end, however much later that is possible, unless         *)
(* notifications are disabled or it is away then.  (With ExcuseResets,     *)
(* also unless a custom or flapping notification was sent in between.)     *)
RecoveryKept == svc.lost = {}

(* With a notification interval of 0, notify() announces a hard state once *)
(* to a contact, whatever else it is notified of in between.               *)
NotRepeated == svc.repeated = {}

(* Nothing keeps notify() from announcing a problem or a recovery.         *)
Calm == env = {} /\ host = "up" /\ away = {} /\ svc.depth = 0 /\ ~svc.flapping

(* When the service stays in a hard OK state in calm conditions, the       *)
(* repeated notify(reason_recovery) of the results OK settles what the     *)
(* contacts are owed, although a downtime, flapping, the time period or    *)
(* the recovery delay held it back when the service recovered.             *)
RecoveryArrives ==
  <>[](/\ Calm /\ svc.state = "ok" /\ svc.type = "hard"
       /\ svc.lastHardChange + RecoveryDelay <= now) => <>[](svc.owed = {})

(* When a problem stays, unacknowledged and in calm conditions, the checks *)
(* make it hard and a notification follows the hard state change, although *)
(* it was held back, or nobody was there to receive it, at that change.    *)
ProblemAnnounced ==
  <>[](/\ Calm /\ svc.state # "ok" /\ svc.ack = "none"
       /\ svc.lastHardChange + FirstDelay <= now) =>
    <>[](svc.lastHardChange <= svc.lastNotification)
=============================================================================
