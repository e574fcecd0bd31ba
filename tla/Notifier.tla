------------------------------ MODULE Notifier ------------------------------
(***************************************************************************)
(* The notifier of the monitoring engine (engine/src/notifier.cc, with     *)
(* notification.cc, contact.cc, escalation.cc): which notifications about  *)
(* a service are viable, who receives them, and what is remembered of      *)
(* them.  Its operators compute the record of the service after a call     *)
(* of notify(); module Service makes the calls.                            *)
(*                                                                         *)
(* s is the record of the service and w what notify() reads besides it:    *)
(*   now    time()                                                         *)
(*   env    what inhibits notifications: "disabled", "outOfPeriod",        *)
(*          "dependency" (authorized_by_dependencies() fails) and          *)
(*          "hostDowntime"                                                 *)
(*   host   the state of its host: "up", or down in a soft or hard state   *)
(*   away   the contacts that may not be notified now                      *)
(* The fields owed, excused, lost, wrong, fresh and repeated of s are      *)
(* history: they record what the contacts were told and influence nothing. *)
(***************************************************************************)
EXTENDS Integers, FiniteSets

CONSTANTS Contact,           \* all the contacts
          Members,           \* those of the service, by name or by group
          NotifyOn,          \* the notification flags of the service
          ContactNotifyOn,   \* the notification flags of every contact
          Interval,          \* _notification_interval
          FirstDelay,        \* _first_notification_delay
          RecoveryDelay,     \* _recovery_notification_delay
          Volatile,          \* get_is_volatile()
          SendAnyways,       \* send_recovery_notifications_anyways
          SoftDependencies,  \* soft_state_dependencies
          Escalations,       \* the escalations of the service
          MaxNumber,         \* _notification_number is counted up to here
          ExcuseResets       \* history only: is a recovery that is lost because
                             \* another notification reset the count excused?

State == {"ok", "warning", "critical", "unknown"}
Flag == State \cup {"flappingstart", "flappingstop", "flappingdisabled", "downtime"}
Inhibitor == {"disabled", "outOfPeriod", "dependency", "hostDowntime"}

(* The numbers of the notifications an escalation is for, last = 0 being   *)
(* no limit, the states it is for, and whom it notifies how often.         *)
EscalationType == [first : Nat, last : Nat, on : SUBSET Flag,
                   to : SUBSET Contact, interval : Nat]

ASSUME NotifierAssumption ==
  /\ Members \subseteq Contact /\ NotifyOn \subseteq Flag
  /\ ContactNotifyOn \in [Contact -> SUBSET Flag]
  /\ Interval \in Nat /\ FirstDelay \in Nat /\ RecoveryDelay \in Nat
  /\ Volatile \in BOOLEAN /\ SendAnyways \in BOOLEAN
  /\ SoftDependencies \in BOOLEAN
  /\ \A e \in Escalations : e \in EscalationType
  /\ MaxNumber \in Nat \ {0} /\ ExcuseResets \in BOOLEAN

Enabled(w) == "disabled" \notin w.env
InPeriod(w) == "outOfPeriod" \notin w.env
IsInDowntime(s, w) == s.depth > 0 \/ "hostDowntime" \in w.env

(* get_notify_on_current_state(): nothing about the services of a host     *)
(* that is down.                                                           *)
NotifyOnCurrentState(s, w) ==
  /\ w.host = "up" \/ (w.host = "softDown" /\ ~SoftDependencies)
  /\ s.state \in NotifyOn

\* Mutant: a notification of the same second as the change does not count.
IntervalElapsedStrict(s, w) ==
  \A n \in s.normal :
    s.lastHardChange < s.lastNotification =>
      n.interval > 0 /\ s.lastNotification + n.interval <= w.now

(* A problem is announced when the service enters it, and again when the   *)
(* interval has passed; an interval of 0 is never repeated.                *)
IntervalElapsed(s, w) ==
  \A n \in s.normal :
    s.lastHardChange <= s.lastNotification =>
      n.interval > 0 /\ s.lastNotification + n.interval <= w.now

ViableNormal(s, w) ==
  /\ Enabled(w) /\ ~IsInDowntime(s, w) /\ InPeriod(w) /\ ~s.flapping
  /\ \/ Volatile
     \/ /\ s.type = "hard" /\ s.ack = "none" /\ s.state # "ok"
        /\ NotifyOnCurrentState(s, w)
        /\ (s.normal = {}) => (s.lastHardChange + FirstDelay <= w.now)
        /\ "dependency" \notin w.env
        /\ IntervalElapsed(s, w)

(* "later" keeps what is known of the problem for the next attempt,        *)
(* "never" forgets it.                                                     *)
RecoveryVerdict(s, w) ==
  CASE ~Enabled(w) -> "never"
    [] Enabled(w) /\ ~InPeriod(w) -> IF SendAnyways THEN "send" ELSE "later"
    [] OTHER ->
         IF IsInDowntime(s, w) \/ s.flapping \/ s.type # "hard" \/ s.state # "ok"
           THEN "later"
         ELSE IF "ok" \notin NotifyOn THEN "never"
         ELSE IF s.lastHardChange + RecoveryDelay > w.now THEN "later"
         ELSE IF s.number = 0 \/ s.normal = {} THEN "never"
         ELSE "send"

ViableAcknowledgement(s, w) == Enabled(w) /\ s.state # "ok"

ViableFlapping(s, w, reason) ==
  /\ Enabled(w) /\ reason \in NotifyOn
  /\ (reason = "flappingstart") <=> ~s.flapNotif
  /\ ~IsInDowntime(s, w)

ViableDowntime(s, w) == Enabled(w) /\ "downtime" \in NotifyOn /\ s.depth = 0

ViableCustom(s, w, forced) == forced \/ (Enabled(w) /\ ~IsInDowntime(s, w))

(* contact::should_be_notified()                                           *)
ShouldBeNotified(c, s, w, reason) ==
  /\ c \notin w.away
  /\ CASE reason = "normal"   -> s.state \in ContactNotifyOn[c]
       [] reason = "recovery" -> /\ "ok" \in ContactNotifyOn[c]
                                 /\ \E n \in s.normal : c \in n.to
       [] reason \in {"acknowledgement", "custom"} -> TRUE
       [] OTHER -> reason \in ContactNotifyOn[c]

ViableEscalations(s) ==
  {e \in Escalations : /\ e.first <= s.number
                       /\ e.last # 0 => s.number <= e.last
                       /\ s.state \in e.on}

(* get_contacts_to_notify(): viable escalations replace the contacts and   *)
(* the interval of the service.                                            *)
ContactsToNotify(s, w, reason) ==
  {c \in (IF ViableEscalations(s) = {} THEN Members
          ELSE UNION {e.to : e \in ViableEscalations(s)}) :
     ShouldBeNotified(c, s, w, reason)}

IntervalOf(s) ==
  IF ViableEscalations(s) = {} THEN Interval
  ELSE CHOOSE i \in {e.interval : e \in ViableEscalations(s)} :
         \A e \in ViableEscalations(s) : i <= e.interval

Counted(s) == [s EXCEPT !.number = IF @ < MaxNumber THEN @ + 1 ELSE @]

Stamped(s, w, to) ==
  [s EXCEPT !.lastNotification = IF to = {} THEN @ ELSE w.now]

(* notify(reason_normal).  The new notification inherits the contacts of   *)
(* the one it replaces: they are to be told of the recovery.               *)
NotifyNormal(s, w) ==
  IF ~ViableNormal(s, w) THEN s
  ELSE LET n  == Counted(s)
           to == ContactsToNotify(n, w, "normal")
       IN [Stamped(n, w, to) EXCEPT
             !.normal = {[to |-> to \cup UNION {p.to : p \in s.normal},
                          interval |-> IntervalOf(n)]},
             !.owed = @ \cup to, !.excused = @ \ to,
             !.repeated = @ \cup (to \cap s.fresh), !.fresh = @ \cup to]

\* Mutant: the recovery keeps the notification of the problem.
ForgottenCount(s) ==
  [s EXCEPT !.number = 0, !.owed = {}, !.excused = {}, !.fresh = {}]

Forgotten(s) ==
  [s EXCEPT !.normal = {}, !.number = 0,
            !.owed = {}, !.excused = {}, !.fresh = {}]

(* notify(reason_recovery).  A "never" because of the count or of the      *)
(* missing notification says that no problem was announced.                *)
NotifyRecovery(s, w) ==
  CASE RecoveryVerdict(s, w) = "later" -> s
    [] RecoveryVerdict(s, w) = "never" ->
         [Forgotten(s) EXCEPT
            !.lost = @ \cup (IF Enabled(w) /\ "ok" \in NotifyOn
                             THEN s.owed \ s.excused ELSE {})]
    [] OTHER -> LET to == ContactsToNotify(s, w, "recovery")
                IN [Forgotten(Stamped(s, w, to)) EXCEPT
                      !.lost = @ \cup {c \in s.owed \ (to \cup s.excused \cup w.away) :
                                         "ok" \in ContactNotifyOn[c]},
                      !.wrong = @ \cup (IF s.state = "ok" THEN to \ s.owed ELSE to)]

\* Mutant: the count is reset by an acknowledgement as well.
NotifyAcknowledgementResets(s, w) ==
  IF ~ViableAcknowledgement(s, w) THEN s
  ELSE [Stamped(s, w, ContactsToNotify(s, w, "acknowledgement")) EXCEPT !.number = 0]

(* notify() for the other reasons.  Only acknowledgements and downtimes    *)
(* keep _notification_number.                                              *)
NotifyAcknowledgement(s, w) ==
  IF ~ViableAcknowledgement(s, w) THEN s
  ELSE Stamped(Counted(s), w, ContactsToNotify(Counted(s), w, "acknowledgement"))

NotifyDowntime(s, w) ==
  IF ~ViableDowntime(s, w) THEN s
  ELSE Stamped(Counted(s), w, ContactsToNotify(Counted(s), w, "downtime"))

Zeroed(s) ==
  [s EXCEPT !.number = 0, !.excused = IF ExcuseResets THEN s.owed ELSE @]

NotifyFlapping(s, w, reason) ==
  IF ~ViableFlapping(s, w, reason) THEN s
  ELSE [Zeroed(Stamped(s, w, ContactsToNotify(Counted(s), w, reason)))
          EXCEPT !.flapNotif = (reason = "flappingstart")]

NotifyCustom(s, w, forced) ==
  IF ~ViableCustom(s, w, forced) THEN s
  ELSE Zeroed(Stamped(s, w, ContactsToNotify(Counted(s), w, "custom")))
=============================================================================
