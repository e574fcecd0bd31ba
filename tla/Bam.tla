-------------------------------- MODULE Bam --------------------------------
(***************************************************************************)
(* Business activity monitoring (broker/bam).  Service statuses and        *)
(* downtimes reach service KPIs and the leaves of boolean expressions;     *)
(* whoever changes notifies its parents (computable.cc) and so on up to    *)
(* the business activities (BAs) that depend on other BAs.                 *)
(*                                                                         *)
(* Propagation is a depth-first recursion on one thread: `stack' holds     *)
(* the calls still to be made, the next one first, and a node that changes *)
(* puts the calls to its parents in front.  Each node caches what it last  *)
(* saw of its children, and notifies only when it believes that it         *)
(* changed: the properties ask whether these caches agree, once the        *)
(* recursion is over, with the values recomputed from the services.        *)
(*                                                                         *)
(* Soft states, acknowledgements and the events recorded for reporting are *)
(* left out.                                                               *)
(***************************************************************************)
EXTENDS Integers, Sequences, FiniteSets, FiniteSetsExt, SequencesExt

CONSTANTS
  Service,      \* monitored services
  BA,           \* numbers of the BAs, a BA depends on smaller ones only
  SvcKpi,       \* pairs <<s, b>>: service s is a KPI of BA b
  BaKpi,        \* pairs <<c, b>>: BA c is a KPI of BA b
  Node,         \* numbers of the nodes of the expression, children first
  Exp,          \* Exp[n]: the operator of node n and its children
  ExpBA,        \* the BA the expression is a KPI of
  ImpactIf,     \* the value of the expression that impacts (_impact_if)
  Configs,      \* functions that give each BA its kind and downtime behaviour
  Nominal,      \* Nominal[h + 1]: points a KPI in state h takes (kind impact)
  Warning, Critical,          \* thresholds of the kind impact
  NumWarning, NumCritical,    \* thresholds of the kind ratio_number
  Hard,         \* Hard[s]: the hard states service s takes
  Id,           \* Id[s]: identifiers of the downtimes of service s
  Owned,        \* BAs whose own service an operator puts in downtime
  MaxFeedback   \* bound on the downtime events under way to one BA

OK == 0
WARNING == 1
CRITICAL == 2
UNKNOWN == 3
State == OK .. UNKNOWN

Kinds == {"impact", "worst", "best", "ratio_number"}
Behaviours == {"ignore", "ignore_kpi", "inherit"}

ASSUME BamAssumption ==
  /\ IsFiniteSet(Service) /\ IsFiniteSet(BA) /\ BA \subseteq Nat
  /\ SvcKpi \subseteq Service \X BA
  /\ BaKpi \subseteq BA \X BA
  /\ \A e \in BaKpi : e[1] < e[2]
  /\ Node # {} /\ IsFiniteSet(Node) /\ Node \subseteq Nat
  /\ ExpBA \in BA /\ Owned \subseteq BA
  /\ \A s \in Service : OK \in Hard[s] /\ Hard[s] \subseteq State
  /\ Configs \subseteq [BA -> [kind : Kinds, dt : Behaviours]]
  /\ Nominal \in [1 .. 4 -> Nat]
  /\ Warning \in Int /\ Critical \in Int /\ NumWarning \in Int /\ NumCritical \in Int
  /\ MaxFeedback \in Nat

\* The expression: every operator has operands of its own, built before it
ASSUME ExpAssumption ==
  \A n \in Node :
    \/ Exp[n].op = "service" /\ Exp[n].svc \in Service
    \/ /\ Exp[n].op \in {"not", "and", "or"}
       /\ Exp[n].l \in Node /\ Exp[n].r \in Node
       /\ Exp[n].l < n /\ Exp[n].r < n
       /\ Exp[n].op = "not" <=> Exp[n].l = Exp[n].r

\* The KPIs, each of one BA
SKpi == {[type |-> "service", src |-> e[1], ba |-> e[2]] : e \in SvcKpi}
BKpi == {[type |-> "ba", src |-> e[1], ba |-> e[2]] : e \in BaKpi}
Root == Max(Node)
EKpi == [type |-> "exp", src |-> Root, ba |-> ExpBA]
KpisOf(b) == {k \in SKpi \union BKpi \union {EKpi} : k.ba = b}

Leaf == {n \in Node : Exp[n].op = "service"}
Binary == {n \in Node : Exp[n].op \in {"and", "or"}}

VARIABLES
  config,    \* kind and downtime behaviour of each BA
  svc,       \* the services: hard state and downtimes in effect
  kpi,       \* service KPIs: _state_hard, _downtime_ids, _downtimed
  leaf,      \* bool_service: _state_known, _state_hard, _in_downtime
  oper,      \* bool_and, bool_or: what they cache
  exp,       \* kpi_boolexp: _current_state, and whether it has an event
  ba,        \* BAs: _impacts, level or computed state, downtimes
  own,       \* downtime an operator put on the BA's own service
  feedback,  \* downtime events of the engine about the BA's own service
  stack      \* calls still to be made by the propagation under way

vars == <<config, svc, kpi, leaf, oper, exp, ba, own, feedback, stack>>

----------------------------------------------------------------------------
(* Boolean expressions *)

\* value_hard() of a node: bool_not computes it when asked
Value[n \in Node] ==
  CASE n \in Leaf -> leaf[n].hard
    [] Exp[n].op = "not" -> IF Value[Exp[n].l] = 0 THEN 1 ELSE 0
    [] OTHER -> IF oper[n].value THEN 1 ELSE 0

Known[n \in Node] ==
  CASE n \in Leaf -> leaf[n].known
    [] Exp[n].op = "not" -> Known[Exp[n].l]
    [] OTHER -> oper[n].known

Down[n \in Node] ==
  CASE n \in Leaf -> leaf[n].down
    [] Exp[n].op = "not" -> Down[Exp[n].l]
    [] OTHER -> oper[n].down

\* bool_binary_operator::_update_state(): values are taken when both are known
BinaryState(n) ==
  LET l == Exp[n].l  r == Exp[n].r IN
  IF Known[l] /\ Known[r]
    THEN [oper[n] EXCEPT !.known = TRUE, !.l = Value[l], !.r = Value[r],
                         !.down = Down[l] \/ Down[r]]
    ELSE [oper[n] EXCEPT !.known = FALSE]

\* bool_and and bool_or know their value from one child that decides it
OperState(n) ==
  LET l == Exp[n].l
      r == Exp[n].r
      or == Exp[n].op = "or"
      Decides(m) == Known[m] /\ (Value[m] # 0) = or
      cached == IF or THEN 1 ELSE 0
      both == BinaryState(n)
  IN IF Decides(l) THEN [oper[n] EXCEPT !.l = cached, !.value = or, !.known = TRUE]
     ELSE IF Decides(r) THEN [oper[n] EXCEPT !.r = cached, !.value = or, !.known = TRUE]
     ELSE [both EXCEPT !.value = both.known /\ ~or]

\* A binary operator reacts when the child it hears of is not what it cached
Differs(n, child) ==
  \/ Known[child] # oper[n].known
  \/ child = Exp[n].l /\ oper[n].l # Value[child]
  \/ child # Exp[n].l /\ oper[n].r # Value[child]

\* bool_expression::get_state()
ExpState == IF (Value[Root] # 0) = ImpactIf THEN CRITICAL ELSE OK

----------------------------------------------------------------------------
(* Business activities *)

\* ba_worst and ba_best order the states ok, unknown, warning, critical
Severity(h) == <<0, 2, 3, 1>>[h + 1]
Worst(S) == CHOOSE h \in S : \A g \in S : Severity(g) <= Severity(h)
Best(S) == CHOOSE h \in S : \A g \in S : Severity(g) >= Severity(h)

\* _fill_impact() of the three KPIs: points for a state
Points(k, h) ==
  IF k.type = "exp" /\ h # OK THEN Nominal[CRITICAL + 1] ELSE Nominal[h + 1]

\* in_downtime() of a KPI, read from the child itself
KpiDown(k) == CASE k.type = "service" -> kpi[k].downtimed
                [] k.type = "ba" -> ba[k.src].down
                [] k.type = "exp" -> Down[k.src]

\* What _apply_impact() skips
Ignored(b, impact) == config[b].dt = "ignore_kpi" /\ impact.down

\* The points that the impact i of KPI k takes from BA b
Weight(b, k, i) == IF Ignored(b, i) THEN 0 ELSE Points(k, i.state)

\* The state that the level or computed state a of BA b stands for
Rating(b, a) ==
  CASE config[b].kind = "impact" ->
         IF a <= Critical THEN CRITICAL ELSE IF a <= Warning THEN WARNING ELSE OK
    [] config[b].kind = "ratio_number" ->
         IF a >= NumCritical THEN CRITICAL
         ELSE IF a >= NumWarning THEN WARNING ELSE OK
    [] config[b].kind \in {"worst", "best"} -> a

\* get_state_hard() of BA b, its level or computed state being a
StateOf(b, a) ==
  IF /\ config[b].kind \in {"worst", "best"} /\ config[b].dt = "ignore_kpi"
     /\ KpisOf(b) # {} /\ \A k \in KpisOf(b) : KpiDown(k)
  THEN OK ELSE Rating(b, a)

StateHard(b) == StateOf(b, ba[b].agg)

KpiState(k) == CASE k.type = "service" -> kpi[k].hard
                 [] k.type = "ba" -> StateHard(k.src)
                 [] k.type = "exp" -> exp.state

KpiOk(k) == KpiState(k) = OK \/ (k.type = "exp" /\ exp.state = UNKNOWN)

\* The level or computed state of the impacts, from nothing
Applied(b, impacts) ==
  LET counted == {k \in DOMAIN impacts : ~Ignored(b, impacts[k])}
      states == {impacts[k].state : k \in counted}
  IN CASE config[b].kind = "impact" ->
            100 - SumFunction([k \in DOMAIN impacts |-> Weight(b, k, impacts[k])])
       [] config[b].kind = "worst" -> Worst(states \union {OK})
       [] config[b].kind = "best" -> Best(states \union {CRITICAL})
       [] config[b].kind = "ratio_number" ->
            Cardinality({k \in counted : impacts[k].state = CRITICAL})

\* Mutant: the old impact is added back by the new downtime flag
ChangedFlag(b, k, new) ==
  LET old == [ba[b].impacts[k] EXCEPT !.down = new.down]
  IN IF config[b].kind = "impact"
       THEN ba[b].agg + Weight(b, k, old) - Weight(b, k, new)
       ELSE Applied(b, [ba[b].impacts EXCEPT ![k] = new])

\* _apply_changes(): ba_impact adds back the old impact of the child and
\* takes off the new one, the others go through all the impacts again
Changed(b, k, new) ==
  IF config[b].kind = "impact"
    THEN ba[b].agg + Weight(b, k, ba[b].impacts[k]) - Weight(b, k, new)
    ELSE Applied(b, [ba[b].impacts EXCEPT ![k] = new])

\* Mutant: every KPI has to be in downtime
EveryKpiInDowntimeAll(b) ==
  KpisOf(b) # {} /\ \A k \in KpisOf(b) : KpiDown(k)

\* _compute_inherited_downtime(): every KPI that is not ok is in downtime
EveryKpiInDowntime(b) ==
  KpisOf(b) # {} /\ \A k \in KpisOf(b) : KpiOk(k) \/ KpiDown(k)

----------------------------------------------------------------------------
(* The calls of the propagation *)

Push(calls) == stack' = calls \o Tail(stack)

\* Parents of a node of the expression: its operator, or the KPI
NodeParents(n) ==
  IF n = Root THEN {[to |-> "exp"]}
  ELSE {[to |-> "node", node |-> m, child |-> n] :
          m \in {m \in Node \ Leaf : n \in {Exp[m].l, Exp[m].r}}}

\* kpi_ba::update_from() keeps nothing: it passes the call on to its BA
BaParents(b) == {[to |-> "ba", kpi |-> k] : k \in {k \in BKpi : k.src = b}}

NotifyIf(cond, parents) ==
  \E calls \in SetToSeqs(IF cond THEN parents ELSE {}) : Push(calls)

\* kpi_service::service_update() with a status
KpiStatus(k) ==
  /\ kpi' = [kpi EXCEPT ![k].hard = svc[k.src].hard]
  /\ NotifyIf(kpi[k].hard # svc[k.src].hard, {[to |-> "ba", kpi |-> k]})
  /\ UNCHANGED <<config, svc, leaf, oper, exp, ba, own, feedback>>

\* Mutant: the end of any downtime lowers the flag
KpiDowntimeAny(k, i, ended) ==
  LET ids == IF ended THEN kpi[k].ids \ {i} ELSE kpi[k].ids \union {i}
      flag == ~ended
  IN /\ kpi' = [kpi EXCEPT ![k] = [hard |-> @.hard, ids |-> ids, downtimed |-> flag]]
     /\ NotifyIf(kpi[k].downtimed # flag, {[to |-> "ba", kpi |-> k]})
     /\ UNCHANGED <<config, svc, leaf, oper, exp, ba, own, feedback>>

\* kpi_service::service_update() with a downtime event: the flag is raised
\* before an event already handled is dropped
KpiDowntime(k, i, ended) ==
  LET ids == IF ended THEN kpi[k].ids \ {i} ELSE kpi[k].ids \union {i}
      flag == ids # {}
  IN /\ kpi' = [kpi EXCEPT ![k] = [hard |-> @.hard, ids |-> ids, downtimed |-> flag]]
     /\ NotifyIf(kpi[k].downtimed # flag, {[to |-> "ba", kpi |-> k]})
     /\ UNCHANGED <<config, svc, leaf, oper, exp, ba, own, feedback>>

\* bool_service::service_update(): only a status makes the state known
LeafUpdate(n, status) ==
  LET s == svc[Exp[n].svc]
      new == [known |-> leaf[n].known \/ status,
              hard |-> IF status THEN s.hard ELSE leaf[n].hard,
              down |-> s.downtimes # {}]
  IN /\ leaf' = [leaf EXCEPT ![n] = new]
     /\ NotifyIf(new # leaf[n], NodeParents(n))
     /\ UNCHANGED <<config, svc, kpi, oper, exp, ba, own, feedback>>

\* Mutant: an operator hears only of a child whose value it does not have
NodeUpdateValue(n, child) ==
  LET differs == \/ child = Exp[n].l /\ oper[n].l # Value[child]
                 \/ child # Exp[n].l /\ oper[n].r # Value[child]
  IN /\ oper' = IF n \in Binary /\ differs
                  THEN [oper EXCEPT ![n] = OperState(n)] ELSE oper
     /\ NotifyIf(n \in Binary => differs, NodeParents(n))
     /\ UNCHANGED <<config, svc, kpi, leaf, exp, ba, own, feedback>>

\* update_from() of an operator
NodeUpdate(n, child) ==
  /\ oper' = IF n \in Binary /\ Differs(n, child)
               THEN [oper EXCEPT ![n] = OperState(n)] ELSE oper
  /\ NotifyIf(n \in Binary => Differs(n, child), NodeParents(n))
  /\ UNCHANGED <<config, svc, kpi, leaf, exp, ba, own, feedback>>

\* bool_expression and kpi_boolexp::update_from(): an expression that is no
\* longer known leaves the KPI the state of its event
ExpUpdate ==
  LET state == IF Known[Root] \/ ~exp.event THEN ExpState ELSE exp.state
  IN /\ exp' = [state |-> state, event |-> TRUE]
     /\ NotifyIf(state # exp.state, {[to |-> "ba", kpi |-> EKpi]})
     /\ UNCHANGED <<config, svc, kpi, leaf, oper, ba, own, feedback>>

\* The inherited downtime of BA b once its level or state is a
InheritedAfter(b, a) ==
  IF config[b].dt # "inherit" THEN ba[b].inherited
  ELSE StateOf(b, a) # OK /\ EveryKpiInDowntime(b)

\* ba::update_from().  A change of the inherited downtime is also a command
\* sent to the engine, which answers with events about the BA's service: the
\* downtime is added, not yet started, then starts; or it is deleted.
BaUpdate(k) ==
  LET b == k.ba
      new == [state |-> KpiState(k), down |-> KpiDown(k)]
      agg == Changed(b, k, new)
      inherited == InheritedAfter(b, agg)
      turned == inherited # ba[b].inherited
      down == IF turned THEN inherited ELSE ba[b].down
      events == CASE turned /\ inherited -> <<FALSE, TRUE>>
                  [] turned /\ ~inherited -> <<FALSE>>
                  [] OTHER -> <<>>
  IN /\ ba' = [ba EXCEPT ![b] = [impacts |-> [@.impacts EXCEPT ![k] = new],
                                 agg |-> agg, down |-> down,
                                 inherited |-> inherited]]
     /\ feedback' = [feedback EXCEPT ![b] = @ \o events]
     /\ NotifyIf(agg # ba[b].agg \/ down # ba[b].down, BaParents(b))
     /\ UNCHANGED <<config, svc, kpi, leaf, oper, exp, own>>

Call ==
  /\ stack # <<>>
  /\ LET c == Head(stack) IN
       \/ c.to = "status" /\ KpiStatus(c.kpi)
       \/ c.to = "downtime" /\ KpiDowntime(c.kpi, c.id, c.ended)
       \/ c.to = "leaf" /\ LeafUpdate(c.node, c.status)
       \/ c.to = "node" /\ NodeUpdate(c.node, c.child)
       \/ c.to = "exp" /\ ExpUpdate
       \/ c.to = "ba" /\ BaUpdate(c.kpi)

----------------------------------------------------------------------------
(* The events the monitoring stream writes to the service book *)

Listeners(s) == {k \in SKpi : k.src = s}
Leaves(s) == {n \in Leaf : Exp[n].svc = s}

\* service_book::update() with a status: every listener is told, and the
\* leaves, which the configuration creates first, before the KPIs
Status(s, h) ==
  /\ stack = <<>>
  /\ svc' = [svc EXCEPT ![s].hard = h]
  /\ \E ns \in SetToSeqs({[to |-> "leaf", node |-> n, status |-> TRUE] :
                            n \in Leaves(s)}),
        ks \in SetToSeqs({[to |-> "status", kpi |-> k] : k \in Listeners(s)}) :
       stack' = ns \o ks
  /\ UNCHANGED <<config, kpi, leaf, oper, exp, ba, own, feedback>>

\* A downtime starts, starts again (the event is delivered twice) or ends:
\* an event for the KPIs, then an adaptive status for the leaves
Downtime(s, i, ended) ==
  /\ stack = <<>>
  /\ ended => i \in svc[s].downtimes
  /\ svc' = [svc EXCEPT ![s].downtimes = IF ended THEN @ \ {i} ELSE @ \union {i}]
  /\ \E ks \in SetToSeqs({[to |-> "downtime", kpi |-> k, id |-> i,
                           ended |-> ended] : k \in Listeners(s)}),
        ns \in SetToSeqs({[to |-> "leaf", node |-> n, status |-> FALSE] :
                            n \in Leaves(s)}) :
       stack' = ks \o ns
  /\ UNCHANGED <<config, kpi, leaf, oper, exp, ba, own, feedback>>

\* An operator puts the service of a BA in downtime, or ends it
OwnDowntime(b) ==
  /\ stack = <<>>
  /\ config[b].dt # "inherit"
  /\ own' = [own EXCEPT ![b] = ~@]
  /\ feedback' = [feedback EXCEPT ![b] = Append(@, ~own[b])]
  /\ UNCHANGED <<config, svc, kpi, leaf, oper, exp, ba, stack>>

\* ba::service_update(): an event about the BA's own service
Deliver(b) ==
  /\ stack = <<>>
  /\ feedback[b] # <<>>
  /\ ba' = [ba EXCEPT ![b].down = Head(feedback[b])]
  /\ feedback' = [feedback EXCEPT ![b] = Tail(@)]
  /\ stack' \in SetToSeqs(IF ba[b].down # Head(feedback[b])
                            THEN BaParents(b) ELSE {})
  /\ UNCHANGED <<config, svc, kpi, leaf, oper, exp, own>>

\* The configuration adds the KPIs one by one, and each time tells the BAs
\* above, so that it leaves every BA with the states of its KPIs; f gives the
\* states of the BAs below
FirstImpacts(b, f) ==
  [k \in KpisOf(b) |-> [state |-> CASE k.type = "service" -> OK
                                   [] k.type = "ba" -> f[k.src]
                                   [] k.type = "exp" -> UNKNOWN,
                        down |-> FALSE]]

FirstState[b \in BA] == Rating(b, Applied(b, FirstImpacts(b, FirstState)))

Calm == \A b \in BA : Len(feedback[b]) <= MaxFeedback

Init ==
  /\ config \in Configs
  /\ svc = [s \in Service |-> [hard |-> OK, downtimes |-> {}]]
  /\ kpi = [k \in SKpi |-> [hard |-> OK, ids |-> {}, downtimed |-> FALSE]]
  /\ leaf = [n \in Leaf |-> [known |-> FALSE, hard |-> OK, down |-> FALSE]]
  /\ oper = [n \in Binary |-> [known |-> FALSE, value |-> FALSE, l |-> 0,
                               r |-> 0, down |-> FALSE]]
  /\ exp = [state |-> UNKNOWN, event |-> FALSE]
  /\ ba = [b \in BA |->
             LET impacts == FirstImpacts(b, FirstState)
             IN [impacts |-> impacts, agg |-> Applied(b, impacts),
                 down |-> FALSE, inherited |-> FALSE]]
  /\ own = [b \in BA |-> FALSE]
  /\ feedback = [b \in BA |-> <<>>]
  /\ stack = <<>>

Next ==
  \/ Call
  \/ \E s \in Service : \E h \in Hard[s] : Calm /\ Status(s, h)
  \/ \E s \in Service, e \in BOOLEAN : \E i \in Id[s] : Calm /\ Downtime(s, i, e)
  \/ \E b \in Owned : Calm /\ OwnDowntime(b)
  \/ \E b \in BA : Deliver(b)

Spec == Init /\ [][Next]_vars

----------------------------------------------------------------------------
(* Properties *)

Quiet == stack = <<>> /\ \A b \in BA : feedback[b] = <<>>

\* The state of every variable: the downtime flag of a service KPI agrees with
\* its set of downtimes (kpi_service::service_update()), and the level of a BA
\* of kind impact stays within what its KPIs can take from 100 points.
TypeOK ==
  /\ config \in Configs
  /\ \A s \in Service : svc[s].hard \in Hard[s] /\ svc[s].downtimes \subseteq Id[s]
  /\ \A k \in SKpi : /\ kpi[k].hard \in Hard[k.src] /\ kpi[k].downtimed \in BOOLEAN
                     /\ kpi[k].ids \subseteq Id[k.src]
                     /\ kpi[k].downtimed <=> kpi[k].ids # {}
  /\ leaf \in [Leaf -> [known : BOOLEAN, hard : State, down : BOOLEAN]]
  /\ oper \in [Binary -> [known : BOOLEAN, value : BOOLEAN, l : State,
                          r : State, down : BOOLEAN]]
  /\ exp \in [state : State, event : BOOLEAN]
  /\ \A b \in BA :
       /\ ba[b].impacts \in [KpisOf(b) -> [state : State, down : BOOLEAN]]
       /\ ba[b].agg \in CASE config[b].kind = "impact" ->
                               100 - Cardinality(KpisOf(b)) * Max(Range(Nominal)) .. 100
                          [] config[b].kind = "ratio_number" ->
                               0 .. Cardinality(KpisOf(b))
                          [] OTHER -> State
       /\ ba[b].down \in BOOLEAN /\ ba[b].inherited \in BOOLEAN
       /\ feedback[b] \in Seq(BOOLEAN)

\* Three-valued evaluation of the expression on the services themselves
Eval[n \in Node] ==
  LET arg == Eval[Exp[n].l]  right == Eval[Exp[n].r] IN
  CASE n \in Leaf -> IF leaf[n].known
                       THEN (IF svc[Exp[n].svc].hard = OK THEN "F" ELSE "T")
                       ELSE "?"
    [] Exp[n].op = "not" -> CASE arg = "T" -> "F" [] arg = "F" -> "T"
                              [] OTHER -> "?"
    [] Exp[n].op = "and" -> IF "F" \in {arg, right} THEN "F"
                            ELSE IF "?" \in {arg, right} THEN "?" ELSE "T"
    [] Exp[n].op = "or" -> IF "T" \in {arg, right} THEN "T"
                           ELSE IF "?" \in {arg, right} THEN "?" ELSE "F"

\* Once a propagation is over every operator of the expression has the value
\* that a three-valued evaluation of the services gives, and knows it exactly
\* when that evaluation does, whatever the order in which the first statuses
\* arrived (bool_and::_update_state(), bool_binary_operator::update_from()).
ExpressionExact ==
  stack = <<>> =>
    \A n \in Node : /\ Known[n] <=> Eval[n] # "?"
                    /\ Known[n] => ((Value[n] # 0) <=> Eval[n] = "T")

\* State and downtime of every BA, recomputed from the services; f gives those
\* of the BAs below
StateNow(k, f) == CASE k.type = "service" -> svc[k.src].hard
                    [] k.type = "ba" -> f[k.src].state
                    [] k.type = "exp" -> IF (Eval[Root] = "T") = ImpactIf
                                           THEN CRITICAL ELSE OK

DownNow(k, f) == CASE k.type = "service" -> svc[k.src].downtimes # {}
                   [] k.type = "ba" -> f[k.src].down
                   [] k.type = "exp" -> Down[k.src]

ImpactsNow(b, f) ==
  [k \in KpisOf(b) |-> [state |-> StateNow(k, f), down |-> DownNow(k, f)]]

Recomputed(b, f) ==
  LET allDown == KpisOf(b) # {} /\ \A k \in KpisOf(b) : DownNow(k, f)
      state == IF /\ config[b].kind \in {"worst", "best"}
                  /\ config[b].dt = "ignore_kpi" /\ allDown
               THEN OK ELSE Rating(b, Applied(b, ImpactsNow(b, f)))
  IN [state |-> state,
      down |-> IF config[b].dt # "inherit" THEN own[b]
               ELSE /\ state # OK /\ KpisOf(b) # {}
                    /\ \A k \in KpisOf(b) : StateNow(k, f) = OK \/ DownNow(k, f)]

Reference[b \in BA] == Recomputed(b, Reference)

Depends(b) == b >= ExpBA

\* The configurations for which the next two properties are meant: the BA of
\* the expression leaves downtimes alone, as an operator passes on changes of
\* its value only; a best BA counts all its KPIs, and a worst BA leaves out
\* those in downtime only when they are services; and a BA is ok as long as
\* its KPIs are.
Regular ==
  /\ \A c \in Configs :
       /\ c[ExpBA].dt = "ignore"
       /\ \A b \in BA : c[b].dt = "ignore_kpi" =>
            /\ c[b].kind # "best"
            /\ c[b].kind = "worst" => KpisOf(b) \subseteq SKpi
  /\ Nominal[OK + 1] = 0
  /\ Warning < 100 /\ Critical < 100 /\ NumWarning > 0 /\ NumCritical > 0

\* Once a propagation is over and the engine has answered, the hard state of
\* every BA, through any BAs below it, is the one its KPIs give: no cached
\* impact, incremental level or notification that was not sent
\* (ba::update_from(), _apply_changes()) leaves it behind its services.
StateExact ==
  Quiet => \A b \in BA :
    (Depends(b) => Known[Root]) => StateHard(b) = Reference[b].state

\* At the same moments a BA is in downtime exactly when it should be: by its
\* own service, or, when it inherits, because it is not ok and all the KPIs
\* that are not ok are in downtime, whatever the order in which overlapping
\* downtimes ended and the engine's answers came back
\* (_compute_inherited_downtime(), ba::service_update()).
DowntimeExact ==
  Quiet => \A b \in BA :
    (Depends(b) => Known[Root]) => ba[b].down = Reference[b].down
=============================================================================
