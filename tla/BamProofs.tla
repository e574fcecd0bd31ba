----------------------------- MODULE BamProofs -----------------------------
(***************************************************************************)
(* What the propagation of broker/bam leaves behind, for any services,     *)
(* BAs, KPIs, expression and order of the notifications.                   *)
(*                                                                         *)
(* Types hold because the level that ba_impact keeps up to date is always  *)
(* the one its impacts give (TypeInv).  Every cache agrees with what it    *)
(* copies, or a call that will bring it up to date is on the stack: this   *)
(* is ExpressionInv for the operators of the expression, where a call may  *)
(* still be below a chain of negations (Soon), and BaInv for the KPIs, the *)
(* BAs and the downtimes the engine is asked for.  With the stack empty    *)
(* each node is then exact as soon as its children are, and induction      *)
(* along the numbers of the nodes, or of the BAs, ends the argument.       *)
(*                                                                         *)
(* The functions of Bam that are recursive (Value, Eval, Reference...) are *)
(* first shown to satisfy the equations that define them.                  *)
(***************************************************************************)
EXTENDS Bam, SequenceFacts

----------------------------------------------------------------------------
(* The invariant *)

Kpi == SKpi \union BKpi \union {EKpi}
Impact == [state : State, down : BOOLEAN]
Ids == UNION {Id[s] : s \in Service}

\* The calls that a propagation makes.
StatusCall(k) == [to |-> "status", kpi |-> k]
DowntimeCall(k, i, e) == [to |-> "downtime", kpi |-> k, id |-> i, ended |-> e]
LeafCall(n, s) == [to |-> "leaf", node |-> n, status |-> s]
NodeCall(n, c) == [to |-> "node", node |-> n, child |-> c]
ExpCall == [to |-> "exp"]
BaCall(k) == [to |-> "ba", kpi |-> k]

IsCall(c) ==
  \/ \E k \in SKpi : c = StatusCall(k)
  \/ \E k \in SKpi, e \in BOOLEAN : \E i \in Id[k.src] : c = DowntimeCall(k, i, e)
  \/ \E n \in Leaf, s \in BOOLEAN : c = LeafCall(n, s)
  \/ \E n \in Node \ Leaf : \E m \in {Exp[n].l, Exp[n].r} : c = NodeCall(n, m)
  \/ c = ExpCall
  \/ \E k \in Kpi : c = BaCall(k)

Called(c) == c \in ToSet(stack)

\* Types, in parts: the level or state of a BA is the one that its impacts
\* give, which the bounds of TypeOK follow from.
SvcType == /\ svc \in [Service -> [hard : State, downtimes : SUBSET Ids]]
           /\ \A s \in Service : svc[s].hard \in Hard[s] /\ svc[s].downtimes \subseteq Id[s]
KpiType == /\ kpi \in [SKpi -> [hard : State, ids : SUBSET Ids, downtimed : BOOLEAN]]
           /\ \A k \in SKpi : /\ kpi[k].hard \in Hard[k.src] /\ kpi[k].ids \subseteq Id[k.src]
                              /\ kpi[k].downtimed <=> kpi[k].ids # {}
NodeType == /\ leaf \in [Leaf -> [known : BOOLEAN, hard : State, down : BOOLEAN]]
            /\ oper \in [Binary -> [known : BOOLEAN, value : BOOLEAN, l : State,
                                    r : State, down : BOOLEAN]]
ExpType == exp \in [state : State, event : BOOLEAN]
BaType == /\ ba = [b \in BA |-> [impacts |-> ba[b].impacts, agg |-> ba[b].agg,
                                 down |-> ba[b].down, inherited |-> ba[b].inherited]]
          /\ \A b \in BA : /\ ba[b].impacts \in [KpisOf(b) -> Impact]
                            /\ ba[b].agg = Applied(b, ba[b].impacts)
                            /\ ba[b].down \in BOOLEAN /\ ba[b].inherited \in BOOLEAN
EventType == own \in [BA -> BOOLEAN] /\ feedback \in [BA -> Seq(BOOLEAN)]
StackType == stack \in Seq(ToSet(stack)) /\ \A c \in ToSet(stack) : IsCall(c)

TypeInv == /\ config \in Configs /\ SvcType /\ KpiType /\ NodeType /\ ExpType
           /\ BaType /\ EventType /\ StackType

\* A node below c, through negations only, is about to be told of a change.
Soon[c \in Node] ==
  /\ Exp[c].op = "not"
  /\ Called(NodeCall(c, Exp[c].l)) \/ Soon[Exp[c].l]

\* Operator m has still to be told of a change of its child c.
Pending(m, c) == Called(NodeCall(m, c)) \/ Soon[c]

Or(m) == Exp[m].op = "or"
Decides(m, c) == Known[c] /\ ((Value[c] # 0) <=> Or(m))

\* What bool_and and bool_or cache, by case: nothing known, then no child
\* decides and one is unknown; the value that one child decides, then the
\* child it was taken from still decides; the other value, then both are known
\* and neither decides.  Each but for a child the operator will be told of.
OperInv(m) ==
  LET l == Exp[m].l
      r == Exp[m].r
      o == oper[m]
  IN /\ ~o.known => /\ \A c \in {l, r} : Pending(m, c) \/ ~Decides(m, c)
                    /\ \E c \in {l, r} : Pending(m, c) \/ ~Known[c]
     /\ o.known /\ (o.value <=> Or(m)) =>
          \/ ((o.l # 0) <=> Or(m)) /\ (Pending(m, l) \/ Decides(m, l))
          \/ ((o.r # 0) <=> Or(m)) /\ (Pending(m, r) \/ Decides(m, r))
     /\ o.known /\ ~(o.value <=> Or(m)) =>
          /\ ~((o.l # 0) <=> Or(m)) /\ ~((o.r # 0) <=> Or(m))
          /\ \A c \in {l, r} : Pending(m, c) \/ (Known[c] /\ ~Decides(m, c))

\* A leaf has the hard state of its service.
LeafInv(n) == leaf[n].known => \/ Called(LeafCall(n, TRUE))
                               \/ leaf[n].hard = svc[Exp[n].svc].hard

ExprInv == /\ \A n \in Leaf : LeafInv(n)
           /\ \A m \in Binary : OperInv(m)

\* The KPI of the expression has its state.
ExpInv == Known[Root] => Called(ExpCall) \/ Soon[Root] \/ exp.state = ExpState

\* A service KPI has the state and the downtimes of its service, or is about
\* to be told of them.
SvcInv(k) ==
  /\ Called(StatusCall(k)) \/ kpi[k].hard = svc[k.src].hard
  /\ \/ kpi[k].ids = svc[k.src].downtimes
     \/ \E i \in Ids, e \in BOOLEAN : Called(DowntimeCall(k, i, e))
  /\ \A i \in Ids, e \in BOOLEAN : Called(DowntimeCall(k, i, e)) =>
        svc[k.src].downtimes = IF e THEN kpi[k].ids \ {i} ELSE kpi[k].ids \union {i}

\* The state of a BA as its impacts give it.
Base(b) == Rating(b, ba[b].agg)

\* The state of a KPI, a BA below being taken by its impacts.
BaseOf(k) == IF k.type = "ba" THEN Base(k.src) ELSE KpiState(k)

\* What BA b has of its KPI k.  The downtime of the expression is not among
\* it: an operator passes on changes of its value only.
ImpactInv(b, k) ==
  \/ Called(BaCall(k))
  \/ /\ ba[b].impacts[k].state = BaseOf(k)
     /\ k.type # "exp" => ba[b].impacts[k].down = KpiDown(k)

\* By the impacts it has, BA b is not ok and every KPI that is not is in downtime.
Covered(b) == /\ KpisOf(b) # {} /\ Base(b) # OK
              /\ \A k \in KpisOf(b) : ba[b].impacts[k].state = OK \/ ba[b].impacts[k].down

\* The inherited downtime follows the impacts.
InheritInv(b) ==
  config[b].dt = "inherit" =>
    \/ ba[b].inherited = Covered(b)
    \/ \E k \in KpisOf(b) : Called(BaCall(k))

\* The downtime BA b ends with once the engine has answered: the last answer
\* under way says so.
Final(b) == IF config[b].dt = "inherit" THEN ba[b].inherited ELSE own[b]
FeedbackInv(b) == IF feedback[b] = <<>> THEN ba[b].down = Final(b)
                  ELSE feedback[b][Len(feedback[b])] = Final(b)

\* A BA is told of a service KPI at once: no other BA reads, between the two
\* steps, a downtime of which its parents are not told yet.
AtOnce == \A i \in DOMAIN stack :
             stack[i].to = "ba" /\ stack[i].kpi.type = "service" => i = 1

BaInv == /\ \A k \in SKpi : SvcInv(k)
         /\ \A b \in BA : /\ \A k \in KpisOf(b) : ImpactInv(b, k)
                          /\ InheritInv(b) /\ FeedbackInv(b)
         /\ AtOnce

----------------------------------------------------------------------------
(* Constants and recursive functions *)

\* The nodes of the expression: the root is the last one, children come first.
LEMMA NodeFacts ==
  /\ Root \in Node /\ \A n \in Node : n <= Root
  /\ \A n \in Node : n \in Nat
  /\ \A n \in Node : \/ n \in Leaf /\ n \notin Binary /\ Exp[n].op # "not"
                     \/ n \in Binary /\ n \notin Leaf /\ Exp[n].op # "not"
                     \/ Exp[n].op = "not" /\ n \notin Leaf /\ n \notin Binary
  /\ \A n \in Node \ Leaf : /\ Exp[n].l \in Node /\ Exp[n].r \in Node
                            /\ Exp[n].l < n /\ Exp[n].r < n
  /\ Leaf \subseteq Node /\ Binary \subseteq Node
<1>1. Root \in Node /\ \A n \in Node : n <= Root
  BY MaxFacts, BamAssumption DEF Root
<1> QED BY <1>1, BamAssumption, ExpAssumption DEF Leaf, Binary

\* A function of the nodes given at the leaves, and at an operator by its
\* value at the left child.
Chain(D, base, step, f) ==
  f \in [Node -> D] /\ \A n \in Node :
    f[n] = IF n \in Leaf THEN base[n] ELSE step[n][f[Exp[n].l]]

\* A function on the nodes may be defined from the child below a negation.
LEMMA ChainExists ==
  ASSUME NEW D, D # {}, NEW base \in [Leaf -> D], NEW step \in [Node \ Leaf -> [D -> D]]
  PROVE  \E f : Chain(D, base, step, f)
<1> DEFINE Body(f, n) == IF n \in Leaf THEN base[n] ELSE step[n][f[Exp[n].l]]
           F == [f \in [Node -> D] |-> [n \in Node |-> Body(f, n)]]
<1>1. \A f \in [Node -> D], n \in Node : Body(f, n) \in D
  BY NodeFacts
<1>2. ASSUME NEW f \in [Node -> D], NEW g \in [Node -> D], NEW n \in Node,
             \A m \in Node : m < n => f[m] = g[m]
      PROVE  Body(f, n) = Body(g, n)
  <2>1. n \notin Leaf => f[Exp[n].l] = g[Exp[n].l]
    BY <1>2, NodeFacts
  <2> QED BY <2>1
<1> HIDE DEF Body
<1>3. IsRecursion(F, Node, D)
  <2>1. Node \subseteq Nat /\ IsFiniteSet(Node)
    BY BamAssumption
  <2>2. F \in [[Node -> D] -> [Node -> D]]
    BY <1>1
  <2>3. \A f \in [Node -> D], n \in Node : F[f][n] = Body(f, n)
    OBVIOUS
  <2> HIDE DEF F
  <2> QED BY <1>2, <2>1, <2>2, <2>3 DEF IsRecursion
<1>4. PICK f \in [Node -> D] : f = F[f]
  <2> HIDE DEF F
  <2> QED BY <1>3, Recursion
<1>5. \A n \in Node : f[n] = Body(f, n)
  BY <1>4
<1> QED BY <1>4, <1>5 DEF Body, Chain

\* The recursive functions have the values that their definitions say.
Valued == \A n \in Node :
  Value[n] = CASE n \in Leaf -> leaf[n].hard
               [] Exp[n].op = "not" -> (IF Value[Exp[n].l] = 0 THEN 1 ELSE 0)
               [] OTHER -> (IF oper[n].value THEN 1 ELSE 0)

\* Value satisfies its definition, and so do Known, Down, Soon and Eval below.
LEMMA ValueUnfold == Valued
<1> DEFINE D == {leaf[n].hard : n \in Leaf} \cup {0, 1}
           base == [n \in Leaf |-> leaf[n].hard]
           step == [n \in Node \ Leaf |-> [v \in D |->
                      IF Exp[n].op = "not" THEN (IF v = 0 THEN 1 ELSE 0) ELSE (IF oper[n].value THEN 1 ELSE 0)]]
           Body(f, n) == CASE n \in Leaf -> leaf[n].hard
                           [] Exp[n].op = "not" -> (IF f[Exp[n].l] = 0 THEN 1 ELSE 0)
                           [] OTHER -> (IF oper[n].value THEN 1 ELSE 0)
<1>1. PICK f : Chain(D, base, step, f)
  <2>1. D # {} /\ base \in [Leaf -> D]
    BY NodeFacts
  <2>2. step \in [Node \ Leaf -> [D -> D]]
    BY NodeFacts
  <2> HIDE DEF D, base, step
  <2> QED BY <2>1, <2>2, ChainExists
<1>2. f \in [Node -> D] /\ \A n \in Node : f[n] = Body(f, n)
  BY <1>1, NodeFacts DEF Chain
<1>3. f = [n \in Node |-> Body(f, n)]
  <2> HIDE DEF D, Body
  <2> QED BY <1>2
<1>4. Value = [n \in Node |-> Body(Value, n)]
  <2> HIDE DEF D
  <2> QED BY <1>3 DEF Value
<1> HIDE DEF Body
<1>5. \A n \in Node : Value[n] = Body(Value, n)
  BY <1>4
<1> QED BY <1>5 DEF Valued, Body

Knows == \A n \in Node :
  Known[n] = CASE n \in Leaf -> leaf[n].known
               [] Exp[n].op = "not" -> Known[Exp[n].l]
               [] OTHER -> oper[n].known

LEMMA KnownUnfold == Knows
<1> DEFINE D == {leaf[n].known : n \in Leaf} \cup {oper[n].known : n \in Node}
           base == [n \in Leaf |-> leaf[n].known]
           step == [n \in Node \ Leaf |-> [v \in D |->
                      IF Exp[n].op = "not" THEN v ELSE oper[n].known]]
           Body(f, n) == CASE n \in Leaf -> leaf[n].known
                           [] Exp[n].op = "not" -> f[Exp[n].l]
                           [] OTHER -> oper[n].known
<1>1. PICK f : Chain(D, base, step, f)
  <2>1. D # {} /\ base \in [Leaf -> D]
    BY NodeFacts
  <2>2. step \in [Node \ Leaf -> [D -> D]]
    BY NodeFacts
  <2> HIDE DEF D, base, step
  <2> QED BY <2>1, <2>2, ChainExists
<1>2. f \in [Node -> D] /\ \A n \in Node : f[n] = Body(f, n)
  BY <1>1, NodeFacts DEF Chain
<1>3. f = [n \in Node |-> Body(f, n)]
  <2> HIDE DEF D, Body
  <2> QED BY <1>2
<1>4. Known = [n \in Node |-> Body(Known, n)]
  <2> HIDE DEF D
  <2> QED BY <1>3 DEF Known
<1> HIDE DEF Body
<1>5. \A n \in Node : Known[n] = Body(Known, n)
  BY <1>4
<1> QED BY <1>5 DEF Knows, Body

Downs == \A n \in Node :
  Down[n] = CASE n \in Leaf -> leaf[n].down
               [] Exp[n].op = "not" -> Down[Exp[n].l]
               [] OTHER -> oper[n].down

LEMMA DownUnfold == Downs
<1> DEFINE D == {leaf[n].down : n \in Leaf} \cup {oper[n].down : n \in Node}
           base == [n \in Leaf |-> leaf[n].down]
           step == [n \in Node \ Leaf |-> [v \in D |->
                      IF Exp[n].op = "not" THEN v ELSE oper[n].down]]
           Body(f, n) == CASE n \in Leaf -> leaf[n].down
                           [] Exp[n].op = "not" -> f[Exp[n].l]
                           [] OTHER -> oper[n].down
<1>1. PICK f : Chain(D, base, step, f)
  <2>1. D # {} /\ base \in [Leaf -> D]
    BY NodeFacts
  <2>2. step \in [Node \ Leaf -> [D -> D]]
    BY NodeFacts
  <2> HIDE DEF D, base, step
  <2> QED BY <2>1, <2>2, ChainExists
<1>2. f \in [Node -> D] /\ \A n \in Node : f[n] = Body(f, n)
  BY <1>1, NodeFacts DEF Chain
<1>3. f = [n \in Node |-> Body(f, n)]
  <2> HIDE DEF D, Body
  <2> QED BY <1>2
<1>4. Down = [n \in Node |-> Body(Down, n)]
  <2> HIDE DEF D
  <2> QED BY <1>3 DEF Down
<1> HIDE DEF Body
<1>5. \A n \in Node : Down[n] = Body(Down, n)
  BY <1>4
<1> QED BY <1>5 DEF Downs, Body

Soons == \A n \in Node :
  Soon[n] = (Exp[n].op = "not" /\ (Called(NodeCall(n, Exp[n].l)) \/ Soon[Exp[n].l]))

LEMMA SoonUnfold == Soons
<1> DEFINE base == [n \in Leaf |-> FALSE]
           step == [n \in Node \ Leaf |-> [v \in BOOLEAN |->
                      Exp[n].op = "not" /\ (Called(NodeCall(n, Exp[n].l)) \/ v)]]
           Body(f, n) == Exp[n].op = "not" /\ (Called(NodeCall(n, Exp[n].l)) \/ f[Exp[n].l])
<1>1. PICK f : Chain(BOOLEAN, base, step, f)
  <2>1. BOOLEAN # {} /\ base \in [Leaf -> BOOLEAN]
    BY NodeFacts
  <2>2. step \in [Node \ Leaf -> [BOOLEAN -> BOOLEAN]]
    BY NodeFacts
  <2> HIDE DEF base, step
  <2> QED BY <2>1, <2>2, ChainExists
<1>2. f \in [Node -> BOOLEAN]
  BY <1>1 DEF Chain
<1>3. ASSUME NEW n \in Node PROVE f[n] = Body(f, n)
  <2>1. CASE n \in Leaf
    <3>1. f[n] = FALSE
      BY <1>1, <2>1 DEF Chain
    <3> QED BY <2>1, <3>1, NodeFacts
  <2>2. CASE n \notin Leaf
    <3>1. f[n] = step[n][f[Exp[n].l]] /\ f[Exp[n].l] \in BOOLEAN
      BY <1>1, <1>2, <2>2, NodeFacts DEF Chain
    <3>2. step[n][f[Exp[n].l]] = Body(f, n)
      BY <2>2, <3>1
    <3> QED BY <3>1, <3>2
  <2> QED BY <2>1, <2>2
<1> HIDE DEF Body
<1>4. f = [n \in Node |-> Body(f, n)]
  BY <1>2, <1>3
<1>5. Soon = [n \in Node |-> Body(Soon, n)]
  BY <1>4 DEF Soon, Body
<1>6. \A n \in Node : Soon[n] = Body(Soon, n)
  BY <1>5
<1> QED BY <1>6 DEF Soons, Body

Evals == \A n \in Node :
  Eval[n] = CASE n \in Leaf -> IF leaf[n].known
                                 THEN (IF svc[Exp[n].svc].hard = OK THEN "F" ELSE "T")
                                 ELSE "?"
              [] Exp[n].op = "not" -> CASE Eval[Exp[n].l] = "T" -> "F"
                                        [] Eval[Exp[n].l] = "F" -> "T"
                                        [] OTHER -> "?"
              [] Exp[n].op = "and" -> IF "F" \in {Eval[Exp[n].l], Eval[Exp[n].r]} THEN "F"
                                      ELSE IF "?" \in {Eval[Exp[n].l], Eval[Exp[n].r]} THEN "?" ELSE "T"
              [] Exp[n].op = "or" -> IF "T" \in {Eval[Exp[n].l], Eval[Exp[n].r]} THEN "T"
                                     ELSE IF "?" \in {Eval[Exp[n].l], Eval[Exp[n].r]} THEN "?" ELSE "F"

LEMMA EvalUnfold == Evals
<1> DEFINE D == {"T", "F", "?"}
           Body(f, n) ==
             CASE n \in Leaf -> IF leaf[n].known
                                  THEN (IF svc[Exp[n].svc].hard = OK THEN "F" ELSE "T")
                                  ELSE "?"
               [] Exp[n].op = "not" -> CASE f[Exp[n].l] = "T" -> "F"
                                         [] f[Exp[n].l] = "F" -> "T"
                                         [] OTHER -> "?"
               [] Exp[n].op = "and" -> IF "F" \in {f[Exp[n].l], f[Exp[n].r]} THEN "F"
                                       ELSE IF "?" \in {f[Exp[n].l], f[Exp[n].r]} THEN "?" ELSE "T"
               [] Exp[n].op = "or" -> IF "T" \in {f[Exp[n].l], f[Exp[n].r]} THEN "T"
                                      ELSE IF "?" \in {f[Exp[n].l], f[Exp[n].r]} THEN "?" ELSE "F"
           F == [f \in [Node -> D] |-> [n \in Node |-> Body(f, n)]]
<1>1. ASSUME NEW f \in [Node -> D], NEW n \in Node PROVE Body(f, n) \in D
  <2>1. n \in Leaf \/ Exp[n].op \in {"not", "and", "or"}
    BY ExpAssumption DEF Leaf
  <2> QED BY <2>1
<1>2. ASSUME NEW f \in [Node -> D], NEW g \in [Node -> D], NEW n \in Node,
             \A m \in Node : m < n => f[m] = g[m]
      PROVE  Body(f, n) = Body(g, n)
  <2>1. n \notin Leaf => f[Exp[n].l] = g[Exp[n].l] /\ f[Exp[n].r] = g[Exp[n].r]
    BY <1>2, NodeFacts
  <2> QED BY <2>1
<1> HIDE DEF D, Body
<1>3. IsRecursion(F, Node, D)
  <2>1. D # {} /\ Node \subseteq Nat /\ IsFiniteSet(Node)
    BY BamAssumption DEF D
  <2>2. F \in [[Node -> D] -> [Node -> D]]
    BY <1>1
  <2>3. \A f \in [Node -> D], n \in Node : F[f][n] = Body(f, n)
    OBVIOUS
  <2> HIDE DEF F
  <2> QED BY <1>2, <2>1, <2>2, <2>3 DEF IsRecursion
<1>4. PICK f \in [Node -> D] : f = F[f]
  <2> HIDE DEF F
  <2> QED BY <1>3, Recursion
<1>5. f = [n \in Node |-> Body(f, n)]
  BY <1>4
<1>6. Eval = [n \in Node |-> Body(Eval, n)]
  BY <1>5 DEF Eval, Body
<1>7. \A n \in Node : Eval[n] = Body(Eval, n)
  BY <1>6
<1> QED BY <1>7 DEF Evals, Body

\* Types of the recursive functions.
LEMMA ExprTypes ==
  ASSUME NodeType
  PROVE  \A n \in Node : Value[n] \in State /\ Known[n] \in BOOLEAN /\ Down[n] \in BOOLEAN
<1> DEFINE S == {n \in Node : Value[n] \in State /\ Known[n] \in BOOLEAN /\ Down[n] \in BOOLEAN}
<1>1. ASSUME NEW n \in Node, \A m \in Node : m < n => m \in S PROVE n \in S
  <2>1. CASE n \in Leaf
    <3>1. Exp[n].op # "not"
      BY <2>1, NodeFacts
    <3>2. Value[n] = leaf[n].hard /\ Known[n] = leaf[n].known /\ Down[n] = leaf[n].down
      BY <2>1, <3>1, ValueUnfold, KnownUnfold, DownUnfold DEF Valued, Knows, Downs
    <3> QED BY <2>1, <3>2 DEF NodeType
  <2>2. CASE n \in Binary
    <3>1. n \notin Leaf /\ Exp[n].op # "not"
      BY <2>2, NodeFacts
    <3>2. /\ Value[n] = IF oper[n].value THEN 1 ELSE 0
          /\ Known[n] = oper[n].known /\ Down[n] = oper[n].down
      BY <3>1, ValueUnfold, KnownUnfold, DownUnfold DEF Valued, Knows, Downs
    <3> QED BY <2>2, <3>2 DEF NodeType, State, OK, UNKNOWN
  <2>3. CASE Exp[n].op = "not"
    <3>1. n \notin Leaf /\ Exp[n].l \in Node /\ Exp[n].l < n
      BY <2>3, NodeFacts
    <3>2. /\ Value[n] = IF Value[Exp[n].l] = 0 THEN 1 ELSE 0
          /\ Known[n] = Known[Exp[n].l] /\ Down[n] = Down[Exp[n].l]
      BY <2>3, <3>1, ValueUnfold, KnownUnfold, DownUnfold DEF Valued, Knows, Downs
    <3> QED BY <1>1, <3>1, <3>2 DEF State, OK, UNKNOWN
  <2> QED BY <2>1, <2>2, <2>3, NodeFacts
<1>2. Node \subseteq Nat
  BY BamAssumption
<1> HIDE DEF S
<1>3. \A n \in Node : n \in S
  BY <1>1, <1>2, SetInduction
<1> QED BY <1>3 DEF S

\* The KPIs are of three types, told apart by their field, each of one BA.
LEMMA KpiFacts ==
  /\ \A k \in SKpi : k.type = "service" /\ k.src \in Service /\ k.ba \in BA
  /\ \A k \in BKpi : k.type = "ba" /\ k.src \in BA /\ k.ba \in BA /\ k.src < k.ba
  /\ EKpi.type = "exp" /\ EKpi.src = Root /\ EKpi.ba = ExpBA /\ ExpBA \in BA
  /\ \A k \in Kpi : k.ba \in BA /\ k \in KpisOf(k.ba)
  /\ \A b : KpisOf(b) \subseteq Kpi
  /\ \A k \in Kpi : /\ k.type = "service" => k \in SKpi
                    /\ k.type = "ba" => k \in BKpi
                    /\ k.type = "exp" => k = EKpi
                    /\ k.type \in {"service", "ba", "exp"}
<1>1. \A k \in SKpi : k.type = "service" /\ k.src \in Service /\ k.ba \in BA
  BY BamAssumption DEF SKpi
<1>2. \A k \in BKpi : k.type = "ba" /\ k.src \in BA /\ k.ba \in BA /\ k.src < k.ba
  BY BamAssumption DEF BKpi
<1>3. EKpi.type = "exp" /\ EKpi.src = Root /\ EKpi.ba = ExpBA /\ ExpBA \in BA
  BY BamAssumption DEF EKpi
<1> QED BY <1>1, <1>2, <1>3 DEF Kpi, KpisOf

\* The KPIs are finitely many.
LEMMA KpisFinite ==
  /\ IsFiniteSet(SKpi) /\ IsFiniteSet(BKpi)
  /\ \A b : IsFiniteSet(KpisOf(b)) /\ Cardinality(KpisOf(b)) \in Nat
<1>1. IsFiniteSet(SKpi)
  <2>1. IsFiniteSet(SvcKpi)
    BY BamAssumption, FS_Product, FS_Subset
  <2> DEFINE f == [e \in SvcKpi |-> [type |-> "service", src |-> e[1], ba |-> e[2]]]
  <2>2. f \in Surjection(SvcKpi, SKpi)
    BY DEF SKpi, Surjection
  <2> QED BY <2>1, <2>2, FS_Surjection
<1>2. IsFiniteSet(BKpi)
  <2>1. IsFiniteSet(BaKpi)
    BY BamAssumption, FS_Product, FS_Subset
  <2> DEFINE f == [e \in BaKpi |-> [type |-> "ba", src |-> e[1], ba |-> e[2]]]
  <2>2. f \in Surjection(BaKpi, BKpi)
    BY DEF BKpi, Surjection
  <2> QED BY <2>1, <2>2, FS_Surjection
<1>3. IsFiniteSet(Kpi)
  BY <1>1, <1>2, FS_Union, FS_Singleton DEF Kpi
<1>4. ASSUME NEW b PROVE IsFiniteSet(KpisOf(b)) /\ Cardinality(KpisOf(b)) \in Nat
  BY <1>3, FS_Subset, FS_CardinalityType, KpiFacts
<1> QED BY <1>1, <1>2, <1>4

\* The calls to the parents of a node and of a BA are finitely many.
LEMMA ParentsFinite ==
  /\ \A n : IsFiniteSet(NodeParents(n))
  /\ \A b : IsFiniteSet(BaParents(b))
  /\ \A c : IsFiniteSet({c}) /\ Cardinality({c}) = 1
<1>1. ASSUME NEW n PROVE IsFiniteSet(NodeParents(n))
  <2> DEFINE M == {m \in Node \ Leaf : n \in {Exp[m].l, Exp[m].r}}
             f == [m \in M |-> [to |-> "node", node |-> m, child |-> n]]
             P == {[to |-> "node", node |-> m, child |-> n] : m \in M}
  <2>1. IsFiniteSet(M)
    <3>1. M \in SUBSET Node
      OBVIOUS
    <3> HIDE DEF M
    <3> QED BY <3>1, BamAssumption, FS_Subset
  <2>2. f \in Surjection(M, P)
    <3> HIDE DEF M
    <3> QED BY DEF Surjection
  <2>3. IsFiniteSet(P)
    <3> HIDE DEF M, P, f
    <3> QED BY <2>1, <2>2, FS_Surjection
  <2>4. IsFiniteSet({[to |-> "exp"]})
    BY FS_Singleton
  <2> QED BY <2>3, <2>4 DEF NodeParents
<1>2. ASSUME NEW b PROVE IsFiniteSet(BaParents(b))
  <2> DEFINE M == {k \in BKpi : k.src = b}
             f == [k \in M |-> [to |-> "ba", kpi |-> k]]
  <2>1. IsFiniteSet(M)
    <3>1. M \in SUBSET BKpi
      OBVIOUS
    <3> HIDE DEF M
    <3> QED BY <3>1, KpisFinite, FS_Subset
  <2>2. f \in Surjection(M, BaParents(b))
    BY DEF Surjection, BaParents
  <2>3. IsFiniteSet(BaParents(b))
    <3> HIDE DEF M, f
    <3> QED BY <2>1, <2>2, FS_Surjection
  <2> QED BY <2>3
<1> QED BY <1>1, <1>2, FS_Singleton

----------------------------------------------------------------------------
(* The stack *)

Rest == ToSet(Tail(stack))

\* The call at the head was made, and the calls of S are put in its place.
Pushed(S) == Replaces(S, stack, stack')

\* A call notifies: the calls to the parents come in front of the others.
LEMMA NotifyFacts ==
  ASSUME StackType, stack # <<>>, NEW cond, NEW P, IsFiniteSet(P), NotifyIf(cond, P)
  PROVE  Pushed(IF cond THEN P ELSE {})
<1> DEFINE S == IF cond THEN P ELSE {}
<1>1. PICK calls \in SetToSeqs(S) : stack' = calls \o Tail(stack)
  BY DEF NotifyIf, Push
<1>2. IsFiniteSet(S)
  BY FS_EmptySet
<1>3. stack \in Seq(ToSet(stack))
  BY DEF StackType
<1> HIDE DEF S
<1>4. Replaces(S, stack, stack')
  BY <1>1, <1>2, <1>3, InFront
<1> QED BY <1>4 DEF S, Pushed

\* The call at the head, and the calls that are left, are calls.
LEMMA HeadIsCall ==
  ASSUME StackType, stack # <<>>, NEW S, Pushed(S)
  PROVE  /\ Called(Head(stack)) /\ IsCall(Head(stack))
         /\ \A c \in Rest : Called(c) /\ Called(c)'
         /\ \A c \in S : Called(c)'
         /\ \A c : Called(c) => c = Head(stack) \/ Called(c)'
         /\ \A c : Called(c)' => c \in S \/ Called(c)
  BY DEF StackType, Pushed, Replaces, Rest, Called

LEMMA PushType ==
  ASSUME StackType, stack # <<>>, NEW S, Pushed(S), \A c \in S : IsCall(c)
  PROVE  StackType'
<1>1. \A c \in ToSet(stack') : IsCall(c)
  BY DEF Pushed, Replaces, StackType
<1> QED BY <1>1 DEF StackType, Pushed, Replaces, IsCall

\* What a node notifies is a call that the propagation knows.
LEMMA ParentsAreCalls ==
  /\ \A n \in Node : \A c \in NodeParents(n) : IsCall(c)
  /\ \A b : \A c \in BaParents(b) : IsCall(c)
  /\ \A k \in Kpi : IsCall(BaCall(k))
<1>1. ASSUME NEW n \in Node, NEW c \in NodeParents(n) PROVE IsCall(c)
  <2>1. CASE n = Root
    BY <2>1 DEF NodeParents, IsCall, ExpCall
  <2>2. CASE n # Root
    <3>1. PICK m \in Node \ Leaf : n \in {Exp[m].l, Exp[m].r} /\ c = NodeCall(m, n)
      BY <2>2 DEF NodeParents, NodeCall
    <3> QED BY <3>1 DEF IsCall
  <2> QED BY <2>1, <2>2
<1>2. ASSUME NEW k \in Kpi PROVE IsCall(BaCall(k))
  BY DEF IsCall
<1>3. ASSUME NEW b, NEW c \in BaParents(b) PROVE IsCall(c)
  <2>1. PICK k \in BKpi : c = BaCall(k)
    BY DEF BaParents, BaCall
  <2> QED BY <1>2, <2>1 DEF Kpi
<1> QED BY <1>1, <1>2, <1>3

----------------------------------------------------------------------------
(* Levels and states of a BA *)

\* The worst and the best of a set of states are among them.
LEMMA WorstBest ==
  ASSUME NEW S, S \subseteq State, S # {}
  PROVE  Worst(S) \in S /\ Best(S) \in S
<1>1. \A h \in S : h \in {0, 1, 2, 3}
  BY DEF State, OK, UNKNOWN
<1>2. Severity(0) = 0 /\ Severity(1) = 2 /\ Severity(2) = 3 /\ Severity(3) = 1
  BY DEF Severity
<1>3. \E h \in S : \A g \in S : Severity(g) <= Severity(h)
  <2>1. CASE 2 \in S
    BY <1>1, <1>2, <2>1
  <2>2. CASE 2 \notin S /\ 1 \in S
    BY <1>1, <1>2, <2>2
  <2>3. CASE 2 \notin S /\ 1 \notin S /\ 3 \in S
    BY <1>1, <1>2, <2>3
  <2>4. CASE 2 \notin S /\ 1 \notin S /\ 3 \notin S
    BY <1>1, <1>2, <2>4
  <2> QED BY <2>1, <2>2, <2>3, <2>4
<1>4. \E h \in S : \A g \in S : Severity(g) >= Severity(h)
  <2>1. CASE 0 \in S
    BY <1>1, <1>2, <2>1
  <2>2. CASE 0 \notin S /\ 3 \in S
    BY <1>1, <1>2, <2>2
  <2>3. CASE 0 \notin S /\ 3 \notin S /\ 1 \in S
    BY <1>1, <1>2, <2>3
  <2>4. CASE 0 \notin S /\ 3 \notin S /\ 1 \notin S
    BY <1>1, <1>2, <2>4
  <2> QED BY <2>1, <2>2, <2>3, <2>4
<1> HIDE DEF Severity
<1> QED BY <1>3, <1>4 DEF Worst, Best

LEMMA NominalFacts ==
  /\ Max(Range(Nominal)) \in Nat
  /\ \A h \in State : Nominal[h + 1] \in Nat /\ Nominal[h + 1] <= Max(Range(Nominal))
<1>1. Nominal \in [1 .. 4 -> Nat] /\ DOMAIN Nominal = 1 .. 4
  BY BamAssumption
<1>2. Range(Nominal) \subseteq Nat /\ \A i \in 1 .. 4 : Nominal[i] \in Range(Nominal)
  BY <1>1 DEF Range
<1>3. IsFiniteSet(Range(Nominal))
  <2>1. Nominal \in Surjection(1 .. 4, Range(Nominal))
    BY <1>1, <1>2 DEF Surjection, Range
  <2>2. IsFiniteSet(1 .. 4)
    <3>1. \A a, c \in Int : IsFiniteSet(a .. c)
      BY FS_Interval
    <3>2. 1 \in Int /\ 4 \in Int
      OBVIOUS
    <3> QED BY <3>1, <3>2, Zenon
  <2> QED BY <2>1, <2>2, FS_Surjection
<1>4. Range(Nominal) # {}
  BY <1>2
<1>5. /\ Max(Range(Nominal)) \in Range(Nominal)
      /\ \A x \in Range(Nominal) : x <= Max(Range(Nominal))
  BY <1>2, <1>3, <1>4, MaxFacts
<1>6. \A h \in State : h + 1 \in 1 .. 4
  BY DEF State, OK, UNKNOWN
<1> QED BY <1>1, <1>2, <1>5, <1>6

\* The points of an impact are bounded by the largest nominal impact.
LEMMA WeightFacts ==
  ASSUME NEW b, NEW k, NEW i \in Impact
  PROVE  Weight(b, k, i) \in Nat /\ Weight(b, k, i) <= Max(Range(Nominal))
<1>1. CRITICAL \in State /\ i.state \in State
  BY DEF State, OK, UNKNOWN, CRITICAL, Impact
<1>2. Points(k, i.state) \in Nat /\ Points(k, i.state) <= Max(Range(Nominal))
  BY <1>1, NominalFacts DEF Points
<1> HIDE DEF Points
<1> QED BY <1>2, NominalFacts DEF Weight

\* The level or computed state that any impacts give is in its range.
LEMMA AppliedType ==
  ASSUME config \in Configs, NEW b \in BA, NEW impacts \in [KpisOf(b) -> Impact]
  PROVE  Applied(b, impacts) \in
           CASE config[b].kind = "impact" ->
                  100 - Cardinality(KpisOf(b)) * Max(Range(Nominal)) .. 100
             [] config[b].kind = "ratio_number" -> 0 .. Cardinality(KpisOf(b))
             [] OTHER -> State
<1>1. config[b].kind \in Kinds
  BY BamAssumption
<1> DEFINE counted == {k \in DOMAIN impacts : ~Ignored(b, impacts[k])}
           states == {impacts[k].state : k \in counted}
<1>2. IsFiniteSet(KpisOf(b)) /\ Cardinality(KpisOf(b)) \in Nat
  BY KpisFinite
<1>3. CASE config[b].kind = "impact"
  <2> DEFINE f == [k \in DOMAIN impacts |-> Weight(b, k, impacts[k])]
             m == Max(Range(Nominal))
             n == Cardinality(KpisOf(b))
  <2>1. Applied(b, impacts) = 100 - SumFunction(f)
    BY <1>3 DEF Applied
  <2>2. \A k \in KpisOf(b) : f[k] \in Nat /\ f[k] <= m
    BY WeightFacts
  <2>3. SumFunction(f) = SumFunctionOnSet(f, KpisOf(b))
    BY DEF SumFunction
  <2>4. m \in Nat
    BY NominalFacts
  <2> HIDE DEF f, m, n
  <2>5. SumFunction(f) \in Nat /\ SumFunction(f) <= n * m
    BY <1>2, <2>2, <2>3, <2>4, SumAtMost DEF n
  <2>6. n * m \in Nat
    BY <1>2, <2>4 DEF n
  <2>7. 100 - SumFunction(f) \in 100 - n * m .. 100
    BY <2>5, <2>6
  <2> QED BY <1>3, <2>1, <2>7 DEF m, n
<1>4. CASE config[b].kind = "ratio_number"
  <2> DEFINE c == {k \in counted : impacts[k].state = CRITICAL}
  <2>1. Applied(b, impacts) = Cardinality(c)
    BY <1>4 DEF Applied
  <2>2. c \in SUBSET KpisOf(b)
    OBVIOUS
  <2> HIDE DEF c
  <2>3. Cardinality(c) \in Nat /\ Cardinality(c) <= Cardinality(KpisOf(b))
    BY <1>2, <2>2, FS_Subset, FS_CardinalityType
  <2>4. Cardinality(c) \in 0 .. Cardinality(KpisOf(b))
    BY <1>2, <2>3
  <2> QED BY <1>4, <2>1, <2>4
<1>5. CASE config[b].kind \in {"worst", "best"}
  <2>1. states \subseteq State
    BY DEF Impact
  <2>2. OK \in State /\ CRITICAL \in State
    BY DEF State, OK, UNKNOWN, CRITICAL
  <2> HIDE DEF states, counted
  <2>3. Worst(states \union {OK}) \in State /\ Best(states \union {CRITICAL}) \in State
    <3>1. states \union {OK} \subseteq State /\ states \union {OK} # {}
      BY <2>1, <2>2
    <3>2. states \union {CRITICAL} \subseteq State /\ states \union {CRITICAL} # {}
      BY <2>1, <2>2
    <3> HIDE DEF State
    <3> QED BY <3>1, <3>2, WorstBest
  <2>4. Applied(b, impacts) \in State
    BY <1>5, <2>3 DEF Applied, states, counted
  <2> QED BY <1>5, <2>4
<1> QED BY <1>1, <1>3, <1>4, <1>5 DEF Kinds

\* _apply_changes() of ba_impact gives the level that all the impacts give.
LEMMA ChangedIs ==
  ASSUME config \in Configs, BaType, NEW b \in BA, NEW k \in KpisOf(b), NEW new \in Impact
  PROVE  Changed(b, k, new) = Applied(b, [ba[b].impacts EXCEPT ![k] = new])
<1> DEFINE old == ba[b].impacts
           upd == [old EXCEPT ![k] = new]
<1>1. old \in [KpisOf(b) -> Impact] /\ ba[b].agg = Applied(b, old)
  BY DEF BaType
<1> HIDE DEF old
<1>2. upd \in [KpisOf(b) -> Impact] /\ upd[k] = new /\ \A j \in KpisOf(b) : j # k => upd[j] = old[j]
  BY <1>1
<1>3. CASE config[b].kind = "impact"
  <2> HIDE DEF upd
  <2> DEFINE f == [j \in DOMAIN old |-> Weight(b, j, old[j])]
             g == [j \in DOMAIN upd |-> Weight(b, j, upd[j])]
             K == KpisOf(b)
             R == K \ {k}
  <2>1. Applied(b, old) = 100 - SumFunction(f) /\ Applied(b, upd) = 100 - SumFunction(g)
    BY <1>3 DEF Applied
  <2>2. SumFunction(f) = SumFunctionOnSet(f, K) /\ SumFunction(g) = SumFunctionOnSet(g, K)
    BY <1>1, <1>2 DEF SumFunction
  <2>3. \A j \in K : f[j] \in Int /\ g[j] \in Int
    BY <1>1, <1>2, WeightFacts
  <2>4. \A j \in R : f[j] = g[j]
    BY <1>1, <1>2
  <2>5. f[k] = Weight(b, k, old[k]) /\ g[k] = Weight(b, k, new)
    BY <1>1, <1>2
  <2>6. IsFiniteSet(K) /\ IsFiniteSet(R) /\ K \in SUBSET K /\ R \in SUBSET K
    BY KpisFinite, FS_Subset
  <2> HIDE DEF f, g
  <2>7. SumFunctionOnSet(f, K) = f[k] + SumFunctionOnSet(f, R)
    BY <2>3, <2>6, SumTake
  <2>8. SumFunctionOnSet(g, K) = g[k] + SumFunctionOnSet(g, R)
    BY <2>3, <2>6, SumTake
  <2>9. SumFunctionOnSet(f, R) = SumFunctionOnSet(g, R)
    BY <2>4, <2>6, SumEqual
  <2>10. SumFunctionOnSet(f, R) \in Int
    BY <2>3, <2>6, SumType
  <2>11. f[k] \in Int /\ g[k] \in Int
    BY <2>3
  <2>12. Changed(b, k, new) = ba[b].agg + f[k] - g[k]
    BY <1>3, <2>5 DEF Changed, old
  <2> HIDE DEF K, R
  <2>13. Applied(b, upd) = Applied(b, old) + f[k] - g[k]
    BY <2>1, <2>2, <2>7, <2>8, <2>9, <2>10, <2>11
  <2> QED BY <1>1, <2>12, <2>13 DEF upd, old
<1>4. CASE config[b].kind # "impact"
  BY <1>4 DEF Changed, upd, old
<1> QED BY <1>3, <1>4 DEF upd, old

LEMMA RatingType ==
  ASSUME config \in Configs, NEW b \in BA, NEW impacts \in [KpisOf(b) -> Impact]
  PROVE  Rating(b, Applied(b, impacts)) \in State
<1>1. config[b].kind \in Kinds
  BY BamAssumption
<1>2. OK \in State /\ WARNING \in State /\ CRITICAL \in State
  BY DEF State, OK, WARNING, CRITICAL, UNKNOWN
<1>3. config[b].kind \in {"worst", "best"} => Applied(b, impacts) \in State
  BY AppliedType
<1> HIDE DEF State
<1> QED BY <1>1, <1>2, <1>3 DEF Rating, Kinds

LEMMA FirstTypes ==
  ASSUME NEW f, NEW b \in BA, \A c \in BA : c < b => f[c] \in State
  PROVE  FirstImpacts(b, f) \in [KpisOf(b) -> Impact]
<1> SUFFICES ASSUME NEW k \in KpisOf(b)
             PROVE  FirstImpacts(b, f)[k] \in Impact
  BY DEF FirstImpacts
<1>1. k \in Kpi /\ k.type \in {"service", "ba", "exp"}
  BY KpiFacts
<1>2. OK \in State /\ UNKNOWN \in State
  BY DEF State, OK, UNKNOWN
<1> DEFINE h == CASE k.type = "service" -> OK [] k.type = "ba" -> f[k.src] [] k.type = "exp" -> UNKNOWN
<1>3. k.type = "ba" => f[k.src] \in State
  BY <1>1, KpiFacts DEF KpisOf
<1>4. h \in State
  <2> HIDE DEF State
  <2> QED BY <1>1, <1>2, <1>3
<1>5. FirstImpacts(b, f)[k] = [state |-> h, down |-> FALSE]
  BY DEF FirstImpacts
<1> HIDE DEF h, State
<1> QED BY <1>4, <1>5 DEF Impact

Firsts == /\ \A b \in BA : FirstState[b] \in State
          /\ \A b \in BA : FirstState[b] = Rating(b, Applied(b, FirstImpacts(b, FirstState)))

\* FirstState satisfies its definition, and gives states.
LEMMA FirstUnfold ==
  ASSUME config \in Configs
  PROVE  Firsts
<1> DEFINE Body(f, b) == Rating(b, Applied(b, FirstImpacts(b, f)))
           F == [f \in [BA -> State] |-> [b \in BA |-> Body(f, b)]]
<1>1. ASSUME NEW f \in [BA -> State], NEW b \in BA PROVE Body(f, b) \in State
  BY FirstTypes, RatingType
<1>2. ASSUME NEW f \in [BA -> State], NEW g \in [BA -> State], NEW b \in BA,
             \A c \in BA : c < b => f[c] = g[c]
      PROVE  Body(f, b) = Body(g, b)
  <2>1. \A k \in KpisOf(b) : k.type = "ba" => f[k.src] = g[k.src]
    <3> SUFFICES ASSUME NEW k \in KpisOf(b), k.type = "ba" PROVE f[k.src] = g[k.src]
      OBVIOUS
    <3>1. k \in BKpi /\ k.ba = b
      BY KpiFacts DEF KpisOf
    <3> QED BY <1>2, <3>1, KpiFacts
  <2>2. \A k \in KpisOf(b) : FirstImpacts(b, f)[k] = FirstImpacts(b, g)[k]
    BY <2>1, KpiFacts DEF FirstImpacts
  <2>3. FirstImpacts(b, f) \in [KpisOf(b) -> Impact] /\ FirstImpacts(b, g) \in [KpisOf(b) -> Impact]
    BY FirstTypes
  <2>4. FirstImpacts(b, f) = FirstImpacts(b, g)
    BY <2>2, <2>3
  <2> QED BY <2>4
<1> HIDE DEF Body
<1>3. IsRecursion(F, BA, State)
  <2>1. State # {} /\ BA \subseteq Nat /\ IsFiniteSet(BA)
    BY BamAssumption DEF State, OK, UNKNOWN
  <2>2. F \in [[BA -> State] -> [BA -> State]]
    BY <1>1
  <2>3. \A f \in [BA -> State], b \in BA : F[f][b] = Body(f, b)
    OBVIOUS
  <2> HIDE DEF F, State
  <2> QED BY <1>2, <2>1, <2>2, <2>3 DEF IsRecursion
<1>4. PICK f \in [BA -> State] : f = F[f]
  <2> HIDE DEF F
  <2> QED BY <1>3, Recursion
<1>5. f = [b \in BA |-> Body(f, b)]
  BY <1>4
<1>6. FirstState = [b \in BA |-> Body(FirstState, b)]
  BY <1>5 DEF FirstState, Body
<1>7. \A b \in BA : FirstState[b] = Body(FirstState, b)
  BY <1>6
<1> DEFINE S == {b \in BA : FirstState[b] \in State}
<1>8. ASSUME NEW b \in BA, \A c \in BA : c < b => c \in S PROVE b \in S
  BY <1>7, <1>8, FirstTypes, RatingType DEF Body
<1>9. BA \subseteq Nat
  BY BamAssumption
<1> HIDE DEF S
<1>10. \A b \in BA : b \in S
  BY <1>8, <1>9, SetInduction
<1> QED BY <1>7, <1>10 DEF Firsts, Body, S

\* The level reads only the impacts and the configuration.
LEMMA AppliedFrame ==
  ASSUME config' = config, NEW b
  PROVE  Applied(b, ba[b].impacts)' = Applied(b, ba'[b].impacts)
  BY DEF Applied, Weight, Ignored

\* The inductive invariant implies the type invariant of the model.
LEMMA TypesHold ==
  ASSUME TypeInv
  PROVE  TypeOK
<1>1. ASSUME NEW b \in BA
      PROVE  /\ ba[b].impacts \in [KpisOf(b) -> [state : State, down : BOOLEAN]]
             /\ ba[b].agg \in CASE config[b].kind = "impact" ->
                                   100 - Cardinality(KpisOf(b)) * Max(Range(Nominal)) .. 100
                              [] config[b].kind = "ratio_number" ->
                                   0 .. Cardinality(KpisOf(b))
                              [] OTHER -> State
             /\ ba[b].down \in BOOLEAN /\ ba[b].inherited \in BOOLEAN
             /\ feedback[b] \in Seq(BOOLEAN)
  <2>1. /\ ba[b].impacts \in [KpisOf(b) -> Impact] /\ ba[b].agg = Applied(b, ba[b].impacts)
        /\ ba[b].down \in BOOLEAN /\ ba[b].inherited \in BOOLEAN
        /\ feedback[b] \in Seq(BOOLEAN) /\ config \in Configs
    BY DEF TypeInv, BaType, EventType
  <2>2. ba[b].agg \in CASE config[b].kind = "impact" ->
                             100 - Cardinality(KpisOf(b)) * Max(Range(Nominal)) .. 100
                        [] config[b].kind = "ratio_number" -> 0 .. Cardinality(KpisOf(b))
                        [] OTHER -> State
    BY <2>1, AppliedType
  <2> QED BY <2>1, <2>2 DEF Impact
<1>2. /\ config \in Configs
      /\ \A s \in Service : svc[s].hard \in Hard[s] /\ svc[s].downtimes \subseteq Id[s]
      /\ leaf \in [Leaf -> [known : BOOLEAN, hard : State, down : BOOLEAN]]
      /\ oper \in [Binary -> [known : BOOLEAN, value : BOOLEAN, l : State,
                              r : State, down : BOOLEAN]]
      /\ exp \in [state : State, event : BOOLEAN]
  BY DEF TypeInv, SvcType, NodeType, ExpType
<1>3. \A k \in SKpi : /\ kpi[k].hard \in Hard[k.src] /\ kpi[k].downtimed \in BOOLEAN
                      /\ kpi[k].ids \subseteq Id[k.src]
                      /\ kpi[k].downtimed <=> kpi[k].ids # {}
  BY DEF TypeInv, KpiType
<1> QED BY <1>1, <1>2, <1>3 DEF TypeOK

\* The state of a BA, and of a KPI, and whether it is in downtime.
LEMMA StateTypes ==
  ASSUME TypeInv
  PROVE  /\ \A b \in BA : StateHard(b) \in State /\ Base(b) \in State
         /\ \A k \in Kpi : [state |-> KpiState(k), down |-> KpiDown(k)] \in Impact
<1>1. ASSUME NEW b \in BA PROVE StateHard(b) \in State /\ Base(b) \in State
  <2>1. config[b].kind \in Kinds
    BY BamAssumption DEF TypeInv
  <2>2. OK \in State /\ WARNING \in State /\ CRITICAL \in State
    BY DEF State, OK, WARNING, CRITICAL, UNKNOWN
  <2>3. config[b].kind \in {"worst", "best"} => ba[b].agg \in State
    <3>1. TypeOK
      BY TypesHold
    <3> QED BY <3>1 DEF TypeOK
  <2> HIDE DEF State
  <2> QED BY <2>1, <2>2, <2>3 DEF StateHard, StateOf, Rating, Base, Kinds
<1>2. ASSUME NEW k \in Kpi PROVE KpiState(k) \in State /\ KpiDown(k) \in BOOLEAN
  <2>1. CASE k.type = "service"
    <3>1. k \in SKpi
      BY <2>1, KpiFacts
    <3>2. kpi[k].hard \in State /\ kpi[k].downtimed \in BOOLEAN
      BY <3>1 DEF TypeInv, KpiType
    <3> QED BY <2>1, <3>2 DEF KpiState, KpiDown
  <2>2. CASE k.type = "ba"
    <3>1. k.src \in BA
      BY <2>2, KpiFacts
    <3>2. StateHard(k.src) \in State /\ ba[k.src].down \in BOOLEAN
      BY <1>1, <3>1 DEF TypeInv, BaType
    <3> QED BY <2>2, <3>2 DEF KpiState, KpiDown
  <2>3. CASE k.type = "exp"
    <3>1. k.src \in Node
      BY <2>3, KpiFacts, NodeFacts
    <3>2. exp.state \in State /\ Down[k.src] \in BOOLEAN
      BY <3>1, ExprTypes DEF TypeInv, ExpType
    <3> QED BY <2>3, <3>2 DEF KpiState, KpiDown
  <2> QED BY <2>1, <2>2, <2>3, KpiFacts
<1> QED BY <1>1, <1>2 DEF Impact

----------------------------------------------------------------------------
(* Types are kept *)

LEMMA TypeFrame ==
  ASSUME TypeInv, UNCHANGED config
  PROVE  /\ config' \in Configs
         /\ UNCHANGED svc => SvcType'
         /\ UNCHANGED kpi => KpiType'
         /\ UNCHANGED <<leaf, oper>> => NodeType'
         /\ UNCHANGED exp => ExpType'
         /\ UNCHANGED ba => BaType'
         /\ UNCHANGED <<own, feedback>> => EventType'
         /\ UNCHANGED stack => StackType'
<1>1. ASSUME UNCHANGED ba PROVE BaType'
  <2>1. \A b \in BA : ba[b].agg = Applied(b, ba[b].impacts)'
    BY <1>1, AppliedFrame DEF TypeInv, BaType
  <2> QED BY <1>1, <2>1 DEF TypeInv, BaType
<1>2. UNCHANGED stack => StackType'
  BY DEF TypeInv, StackType, IsCall
<1> QED BY <1>1, <1>2 DEF TypeInv, SvcType, KpiType, NodeType, ExpType, EventType

\* What each call of the propagation does.
LEMMA CallCases ==
  ASSUME TypeInv, Call
  PROVE  /\ stack # <<>>
         /\ \/ \E k \in SKpi : Head(stack) = StatusCall(k) /\ KpiStatus(k)
            \/ \E k \in SKpi, e \in BOOLEAN : \E i \in Id[k.src] :
                 Head(stack) = DowntimeCall(k, i, e) /\ KpiDowntime(k, i, e)
            \/ \E n \in Leaf, s \in BOOLEAN : Head(stack) = LeafCall(n, s) /\ LeafUpdate(n, s)
            \/ \E n \in Node \ Leaf : \E m \in {Exp[n].l, Exp[n].r} :
                 Head(stack) = NodeCall(n, m) /\ NodeUpdate(n, m)
            \/ Head(stack) = ExpCall /\ ExpUpdate
            \/ \E k \in Kpi : Head(stack) = BaCall(k) /\ BaUpdate(k)
<1>1. stack # <<>> /\ stack \in Seq(ToSet(stack)) /\ \A c \in ToSet(stack) : IsCall(c)
  BY DEF Call, TypeInv, StackType
<1>2. IsCall(Head(stack))
  BY <1>1
<1> DEFINE c == Head(stack)
<1>3. \/ c.to = "status" /\ KpiStatus(c.kpi)
      \/ c.to = "downtime" /\ KpiDowntime(c.kpi, c.id, c.ended)
      \/ c.to = "leaf" /\ LeafUpdate(c.node, c.status)
      \/ c.to = "node" /\ NodeUpdate(c.node, c.child)
      \/ c.to = "exp" /\ ExpUpdate
      \/ c.to = "ba" /\ BaUpdate(c.kpi)
  BY DEF Call
<1> HIDE DEF c
<1>4. IsCall(c)
  BY <1>2 DEF c
<1>5. ASSUME NEW k \in SKpi, c = StatusCall(k) PROVE KpiStatus(k)
  <2>1. c.to = "status" /\ c.kpi = k
    BY <1>5 DEF StatusCall
  <2> QED BY <1>3, <2>1
<1>6. ASSUME NEW k \in SKpi, NEW e \in BOOLEAN, NEW i \in Id[k.src], c = DowntimeCall(k, i, e)
      PROVE  KpiDowntime(k, i, e)
  <2>1. c.to = "downtime" /\ c.kpi = k /\ c.id = i /\ c.ended = e
    BY <1>6 DEF DowntimeCall
  <2> QED BY <1>3, <2>1
<1>7. ASSUME NEW n \in Leaf, NEW s \in BOOLEAN, c = LeafCall(n, s) PROVE LeafUpdate(n, s)
  <2>1. c.to = "leaf" /\ c.node = n /\ c.status = s
    BY <1>7 DEF LeafCall
  <2> QED BY <1>3, <2>1
<1>8. ASSUME NEW n \in Node \ Leaf, NEW m, c = NodeCall(n, m) PROVE NodeUpdate(n, m)
  <2>1. c.to = "node" /\ c.node = n /\ c.child = m
    BY <1>8 DEF NodeCall
  <2> QED BY <1>3, <2>1
<1>9. ASSUME c = ExpCall PROVE ExpUpdate
  <2>1. c.to = "exp"
    BY <1>9 DEF ExpCall
  <2> QED BY <1>3, <2>1
<1>10. ASSUME NEW k \in Kpi, c = BaCall(k) PROVE BaUpdate(k)
  <2>1. c.to = "ba" /\ c.kpi = k
    BY <1>10 DEF BaCall
  <2> QED BY <1>3, <2>1
<1> QED BY <1>1, <1>4, <1>5, <1>6, <1>7, <1>8, <1>9, <1>10 DEF IsCall, c

LEMMA KpiStatusType ==
  ASSUME TypeInv, stack # <<>>, NEW k \in SKpi, KpiStatus(k)
  PROVE  /\ TypeInv'
         /\ Pushed(IF kpi[k].hard # svc[k.src].hard THEN {BaCall(k)} ELSE {})
<1> USE DEF KpiStatus
<1>1. Pushed(IF kpi[k].hard # svc[k.src].hard THEN {BaCall(k)} ELSE {})
  BY NotifyFacts, ParentsFinite DEF BaCall, TypeInv
<1>2. StackType'
  BY <1>1, PushType, ParentsAreCalls DEF TypeInv, Kpi
<1>3. k.src \in Service
  BY KpiFacts
<1>4. KpiType'
  <2>1. svc[k.src].hard \in State /\ svc[k.src].hard \in Hard[k.src]
    BY <1>3 DEF TypeInv, SvcType
  <2>2. /\ kpi' = [kpi EXCEPT ![k].hard = svc[k.src].hard]
        /\ kpi \in [SKpi -> [hard : State, ids : SUBSET Ids, downtimed : BOOLEAN]]
    BY DEF TypeInv, KpiType
  <2> QED BY <2>1, <2>2 DEF TypeInv, KpiType
<1> QED BY <1>1, <1>2, <1>4, TypeFrame DEF TypeInv

LEMMA KpiDowntimeType ==
  ASSUME TypeInv, stack # <<>>, NEW k \in SKpi, NEW e \in BOOLEAN, NEW i \in Id[k.src],
         KpiDowntime(k, i, e),
         NEW ids, ids = IF e THEN kpi[k].ids \ {i} ELSE kpi[k].ids \union {i}
  PROVE  /\ TypeInv'
         /\ kpi' = [kpi EXCEPT ![k] = [hard |-> kpi[k].hard, ids |-> ids, downtimed |-> ids # {}]]
         /\ Pushed(IF kpi[k].downtimed # (ids # {}) THEN {BaCall(k)} ELSE {})
<1>1. /\ kpi' = [kpi EXCEPT ![k] = [hard |-> @.hard, ids |-> ids, downtimed |-> ids # {}]]
      /\ NotifyIf(kpi[k].downtimed # (ids # {}), {BaCall(k)})
      /\ UNCHANGED <<config, svc, leaf, oper, exp, ba, own, feedback>>
  BY DEF KpiDowntime, BaCall
<1>2. Pushed(IF kpi[k].downtimed # (ids # {}) THEN {BaCall(k)} ELSE {})
  BY <1>1, NotifyFacts, ParentsFinite DEF TypeInv
<1>3. StackType'
  BY <1>2, PushType, ParentsAreCalls DEF TypeInv, Kpi
<1>4. k.src \in Service /\ kpi[k].ids \subseteq Id[k.src]
  BY KpiFacts DEF TypeInv, KpiType
<1>5. ids \subseteq Id[k.src] /\ ids \in SUBSET Ids
  BY <1>4 DEF Ids
<1>6. kpi' = [kpi EXCEPT ![k] = [hard |-> kpi[k].hard, ids |-> ids, downtimed |-> ids # {}]]
  BY <1>1 DEF TypeInv, KpiType
<1>7. KpiType'
  <2>1. kpi \in [SKpi -> [hard : State, ids : SUBSET Ids, downtimed : BOOLEAN]]
    BY DEF TypeInv, KpiType
  <2>2. kpi[k].hard \in Hard[k.src] /\ kpi[k].hard \in State
    BY DEF TypeInv, KpiType
  <2> QED BY <1>5, <1>6, <2>1, <2>2 DEF TypeInv, KpiType
<1> QED BY <1>1, <1>2, <1>3, <1>6, <1>7, TypeFrame DEF TypeInv

LEMMA LeafUpdateType ==
  ASSUME TypeInv, stack # <<>>, NEW n \in Leaf, NEW s \in BOOLEAN, LeafUpdate(n, s),
         NEW new, new = [known |-> leaf[n].known \/ s,
                         hard |-> IF s THEN svc[Exp[n].svc].hard ELSE leaf[n].hard,
                         down |-> svc[Exp[n].svc].downtimes # {}]
  PROVE  /\ TypeInv'
         /\ leaf' = [leaf EXCEPT ![n] = new]
         /\ Pushed(IF new # leaf[n] THEN NodeParents(n) ELSE {})
<1>1. /\ leaf' = [leaf EXCEPT ![n] = new]
      /\ NotifyIf(new # leaf[n], NodeParents(n))
      /\ UNCHANGED <<config, svc, kpi, oper, exp, ba, own, feedback>>
  BY DEF LeafUpdate
<1>2. n \in Node
  BY NodeFacts
<1>3. Pushed(IF new # leaf[n] THEN NodeParents(n) ELSE {})
  BY <1>1, NotifyFacts, ParentsFinite DEF TypeInv
<1>4. StackType'
  BY <1>2, <1>3, PushType, ParentsAreCalls DEF TypeInv
<1>5. Exp[n].svc \in Service
  BY ExpAssumption DEF Leaf
<1>6. new \in [known : BOOLEAN, hard : State, down : BOOLEAN]
  <2>1. svc[Exp[n].svc].hard \in State
    BY <1>5 DEF TypeInv, SvcType
  <2>2. leaf[n].known \in BOOLEAN /\ leaf[n].hard \in State
    BY DEF TypeInv, NodeType
  <2>3. (leaf[n].known \/ s) \in BOOLEAN /\ (svc[Exp[n].svc].downtimes # {}) \in BOOLEAN
    BY <2>2
  <2> HIDE DEF State
  <2> QED BY <2>1, <2>2, <2>3
<1>7. NodeType'
  <2>1. leaf \in [Leaf -> [known : BOOLEAN, hard : State, down : BOOLEAN]]
    BY DEF TypeInv, NodeType
  <2>2. leaf' \in [Leaf -> [known : BOOLEAN, hard : State, down : BOOLEAN]]
    BY <1>1, <1>6, <2>1
  <2> QED BY <1>1, <2>2 DEF TypeInv, NodeType
<1> QED BY <1>1, <1>3, <1>4, <1>7, TypeFrame DEF TypeInv

OperRecord == [known : BOOLEAN, value : BOOLEAN, l : State, r : State, down : BOOLEAN]

LEMMA OperStateType ==
  ASSUME NodeType, NEW n \in Binary
  PROVE  OperState(n) \in OperRecord
<1> DEFINE l == Exp[n].l
           r == Exp[n].r
           or == Exp[n].op = "or"
           cached == IF or THEN 1 ELSE 0
           both == BinaryState(n)
<1>1. l \in Node /\ r \in Node
  BY NodeFacts
<1>2. /\ Value[l] \in State /\ Value[r] \in State /\ Known[l] \in BOOLEAN /\ Known[r] \in BOOLEAN
      /\ Down[l] \in BOOLEAN /\ Down[r] \in BOOLEAN
  BY <1>1, ExprTypes
<1>3. oper[n] \in OperRecord
  BY DEF NodeType, OperRecord
<1>4. cached \in State
  BY DEF State, OK, UNKNOWN
<1>5. both \in OperRecord
  <2>1. both = IF Known[l] /\ Known[r]
                 THEN [oper[n] EXCEPT !.known = TRUE, !.l = Value[l], !.r = Value[r],
                                      !.down = Down[l] \/ Down[r]]
                 ELSE [oper[n] EXCEPT !.known = FALSE]
    BY DEF BinaryState
  <2> HIDE DEF l, r, State
  <2>2. PICK o \in OperRecord : o = oper[n]
    BY <1>3
  <2>3. (Down[l] \/ Down[r]) \in BOOLEAN
    BY <1>2
  <2> QED BY <1>2, <2>1, <2>2, <2>3 DEF OperRecord
<1>6. OperState(n) = IF Known[l] /\ (Value[l] # 0) = or
                       THEN [oper[n] EXCEPT !.l = cached, !.value = or, !.known = TRUE]
                     ELSE IF Known[r] /\ (Value[r] # 0) = or
                       THEN [oper[n] EXCEPT !.r = cached, !.value = or, !.known = TRUE]
                     ELSE [both EXCEPT !.value = both.known /\ ~or]
  BY DEF OperState
<1>7. or \in BOOLEAN /\ (both.known /\ ~or) \in BOOLEAN
  OBVIOUS
<1> HIDE DEF l, r, or, cached, both, State
<1> QED BY <1>3, <1>4, <1>5, <1>6, <1>7 DEF OperRecord

LEMMA NodeUpdateType ==
  ASSUME TypeInv, stack # <<>>, NEW n \in Node \ Leaf, NEW c \in {Exp[n].l, Exp[n].r},
         NodeUpdate(n, c)
  PROVE  /\ TypeInv'
         /\ Pushed(IF n \in Binary => Differs(n, c) THEN NodeParents(n) ELSE {})
<1>1. /\ oper' = IF n \in Binary /\ Differs(n, c) THEN [oper EXCEPT ![n] = OperState(n)] ELSE oper
      /\ NotifyIf(n \in Binary => Differs(n, c), NodeParents(n))
      /\ UNCHANGED <<config, svc, kpi, leaf, exp, ba, own, feedback>>
  BY DEF NodeUpdate
<1>2. Pushed(IF n \in Binary => Differs(n, c) THEN NodeParents(n) ELSE {})
  BY <1>1, NotifyFacts, ParentsFinite DEF TypeInv
<1>3. StackType'
  BY <1>2, PushType, ParentsAreCalls DEF TypeInv
<1>4. NodeType'
  <2>1. oper \in [Binary -> OperRecord]
    BY DEF TypeInv, NodeType, OperRecord
  <2>2. n \in Binary => OperState(n) \in OperRecord
    BY OperStateType DEF TypeInv
  <2>3. oper' \in [Binary -> OperRecord]
    BY <1>1, <2>1, <2>2
  <2> QED BY <1>1, <2>3 DEF TypeInv, NodeType, OperRecord
<1> QED BY <1>1, <1>2, <1>3, <1>4, TypeFrame DEF TypeInv

LEMMA ExpUpdateType ==
  ASSUME TypeInv, stack # <<>>, ExpUpdate,
         NEW state, state = IF Known[Root] \/ ~exp.event THEN ExpState ELSE exp.state
  PROVE  /\ TypeInv'
         /\ exp' = [state |-> state, event |-> TRUE]
         /\ Pushed(IF state # exp.state THEN {BaCall(EKpi)} ELSE {})
<1>1. /\ exp' = [state |-> state, event |-> TRUE]
      /\ NotifyIf(state # exp.state, {BaCall(EKpi)})
      /\ UNCHANGED <<config, svc, kpi, leaf, oper, ba, own, feedback>>
  BY DEF ExpUpdate, BaCall
<1>2. Pushed(IF state # exp.state THEN {BaCall(EKpi)} ELSE {})
  BY <1>1, NotifyFacts, ParentsFinite DEF TypeInv
<1>3. StackType'
  BY <1>2, PushType, ParentsAreCalls DEF TypeInv, Kpi
<1>4. ExpType'
  <2>1. ExpState \in State /\ exp.state \in State
    BY DEF ExpState, State, OK, CRITICAL, UNKNOWN, TypeInv, ExpType
  <2> HIDE DEF State
  <2> QED BY <1>1, <2>1 DEF ExpType
<1> QED BY <1>1, <1>2, <1>3, <1>4, TypeFrame DEF TypeInv

\* What ba::update_from() does: upd, agg and so on are what BA b becomes.
BaDid(b, k, new, upd, agg, inherited, down) ==
  /\ b = k.ba
  /\ new = [state |-> KpiState(k), down |-> KpiDown(k)]
  /\ upd = [ba[b].impacts EXCEPT ![k] = new]
  /\ agg = Applied(b, upd)
  /\ inherited = InheritedAfter(b, agg)
  /\ down = IF inherited # ba[b].inherited THEN inherited ELSE ba[b].down
  /\ ba' = [ba EXCEPT ![b] = [impacts |-> upd, agg |-> agg, down |-> down,
                              inherited |-> inherited]]
  /\ feedback' = [feedback EXCEPT ![b] =
                    IF inherited # ba[b].inherited
                      THEN IF inherited THEN @ \o <<FALSE, TRUE>> ELSE @ \o <<FALSE>>
                      ELSE @]
  /\ Pushed(IF agg # ba[b].agg \/ down # ba[b].down THEN BaParents(b) ELSE {})
  /\ UNCHANGED <<config, svc, kpi, leaf, oper, exp, own>>

LEMMA InheritedType ==
  ASSUME TypeInv, NEW b \in BA, NEW a
  PROVE  InheritedAfter(b, a) \in BOOLEAN
<1>1. ba[b].inherited \in BOOLEAN
  BY DEF TypeInv, BaType
<1>2. (StateOf(b, a) # OK /\ EveryKpiInDowntime(b)) \in BOOLEAN
  BY DEF EveryKpiInDowntime
<1> QED BY <1>1, <1>2 DEF InheritedAfter

\* ba::update_from(), with what it computes given names.
LEMMA BaUpdateDoes ==
  ASSUME TypeInv, stack # <<>>, NEW k \in Kpi, BaUpdate(k)
  PROVE  \E b, new, upd, agg, inherited, down : BaDid(b, k, new, upd, agg, inherited, down)
<1> DEFINE b == k.ba
           new == [state |-> KpiState(k), down |-> KpiDown(k)]
           upd == [ba[b].impacts EXCEPT ![k] = new]
           agg == Changed(b, k, new)
           inherited == InheritedAfter(b, agg)
           turned == inherited # ba[b].inherited
           down == IF turned THEN inherited ELSE ba[b].down
           events == CASE turned /\ inherited -> <<FALSE, TRUE>>
                       [] turned /\ ~inherited -> <<FALSE>>
                       [] OTHER -> <<>>
<1>1. b \in BA /\ k \in KpisOf(b)
  BY KpiFacts
<1>2. new \in Impact
  BY StateTypes
<1>3. agg = Applied(b, upd)
  <2> HIDE DEF new
  <2> QED BY <1>1, <1>2, ChangedIs DEF TypeInv
<1>4. inherited \in BOOLEAN
  BY <1>1, InheritedType
<1>5. /\ ba' = [ba EXCEPT ![b] = [impacts |-> [@.impacts EXCEPT ![k] = new],
                                  agg |-> agg, down |-> down, inherited |-> inherited]]
      /\ feedback' = [feedback EXCEPT ![b] = @ \o events]
      /\ NotifyIf(agg # ba[b].agg \/ down # ba[b].down, BaParents(b))
      /\ UNCHANGED <<config, svc, kpi, leaf, oper, exp, own>>
  BY DEF BaUpdate
<1> HIDE DEF b, new, agg, inherited
<1>6. Pushed(IF agg # ba[b].agg \/ down # ba[b].down THEN BaParents(b) ELSE {})
  <2> HIDE DEF down
  <2> QED BY <1>5, NotifyFacts, ParentsFinite DEF TypeInv
<1>7. ba' = [ba EXCEPT ![b] = [impacts |-> upd, agg |-> agg, down |-> down,
                               inherited |-> inherited]]
  <2> HIDE DEF down
  <2> QED BY <1>1, <1>5 DEF TypeInv, BaType
<1>8. feedback' = [feedback EXCEPT ![b] =
                    IF inherited # ba[b].inherited
                      THEN IF inherited THEN @ \o <<FALSE, TRUE>> ELSE @ \o <<FALSE>>
                      ELSE @]
  <2>1. feedback[b] \in Seq(BOOLEAN)
    BY <1>1 DEF TypeInv, EventType
  <2>2. feedback[b] \o <<>> = feedback[b]
    BY <2>1
  <2>3. feedback[b] \o events = IF inherited # ba[b].inherited
                      THEN IF inherited THEN feedback[b] \o <<FALSE, TRUE>> ELSE feedback[b] \o <<FALSE>>
                      ELSE feedback[b]
    BY <1>4, <2>2
  <2> HIDE DEF events
  <2> QED BY <1>1, <1>5, <2>3 DEF TypeInv, EventType
<1>9. b = k.ba /\ new = [state |-> KpiState(k), down |-> KpiDown(k)] /\ inherited = InheritedAfter(b, agg)
  BY DEF b, new, inherited
<1>10. BaDid(b, k, new, upd, agg, inherited, down)
  BY <1>3, <1>5, <1>6, <1>7, <1>8, <1>9 DEF BaDid
<1> QED BY <1>10

LEMMA BaUpdateType ==
  ASSUME TypeInv, stack # <<>>, NEW k \in Kpi,
         NEW b, NEW new, NEW upd, NEW agg, NEW inherited, NEW down,
         BaDid(b, k, new, upd, agg, inherited, down)
  PROVE  /\ TypeInv' /\ b \in BA /\ k \in KpisOf(b)
         /\ new \in Impact /\ upd \in [KpisOf(b) -> Impact]
         /\ inherited \in BOOLEAN /\ down \in BOOLEAN
<1>1. b \in BA /\ k \in KpisOf(b)
  BY KpiFacts DEF BaDid
<1>2. new \in Impact
  BY StateTypes DEF BaDid
<1>3. ba[b].impacts \in [KpisOf(b) -> Impact]
  BY <1>1 DEF TypeInv, BaType
<1>4. upd \in [KpisOf(b) -> Impact]
  BY <1>1, <1>2, <1>3 DEF BaDid
<1>5. inherited \in BOOLEAN
  BY <1>1, InheritedType DEF BaDid
<1>6. down \in BOOLEAN
  BY <1>1, <1>5 DEF BaDid, TypeInv, BaType
<1>7. /\ ba' = [ba EXCEPT ![b] = [impacts |-> upd, agg |-> agg, down |-> down,
                                  inherited |-> inherited]]
      /\ agg = Applied(b, upd)
      /\ UNCHANGED <<config, svc, kpi, leaf, oper, exp, own>>
  BY DEF BaDid
<1>8. StackType'
  <2>1. Pushed(IF agg # ba[b].agg \/ down # ba[b].down THEN BaParents(b) ELSE {})
    BY DEF BaDid
  <2> QED BY <2>1, PushType, ParentsAreCalls DEF TypeInv
<1>9. BaType'
  <2>1. ba = [c \in BA |-> [impacts |-> ba[c].impacts, agg |-> ba[c].agg,
                            down |-> ba[c].down, inherited |-> ba[c].inherited]]
    BY DEF TypeInv, BaType
  <2>2. DOMAIN ba = BA
    BY <2>1
  <2>3. DOMAIN ba' = BA
    BY <1>7, <2>2
  <2>4. ba' = [c \in BA |-> ba'[c]]
    BY <1>7, <2>2
  <2>5. /\ ba'[b] = [impacts |-> upd, agg |-> agg, down |-> down, inherited |-> inherited]
        /\ \A c \in BA : c # b => ba'[c] = ba[c]
    BY <1>1, <1>7, <2>2
  <2>6. \A c \in BA : ba[c] = [impacts |-> ba[c].impacts, agg |-> ba[c].agg,
                               down |-> ba[c].down, inherited |-> ba[c].inherited]
    BY <2>1
  <2>7. \A c \in BA : ba'[c] = [impacts |-> ba'[c].impacts, agg |-> ba'[c].agg,
                                down |-> ba'[c].down, inherited |-> ba'[c].inherited]
    BY <2>5, <2>6
  <2>8. ba' = [c \in BA |-> [impacts |-> ba'[c].impacts, agg |-> ba'[c].agg,
                             down |-> ba'[c].down, inherited |-> ba'[c].inherited]]
    BY <2>4, <2>7
  <2>9. ASSUME NEW c \in BA
        PROVE  /\ ba'[c].impacts \in [KpisOf(c) -> Impact]
               /\ ba'[c].agg = Applied(c, ba[c].impacts)'
               /\ ba'[c].down \in BOOLEAN /\ ba'[c].inherited \in BOOLEAN
    <3>1. Applied(c, ba[c].impacts)' = Applied(c, ba'[c].impacts)
      BY <1>7, AppliedFrame
    <3>2. CASE c = b
      BY <1>4, <1>5, <1>6, <1>7, <2>5, <3>1, <3>2
    <3>3. CASE c # b
      BY <2>5, <3>1, <3>3 DEF TypeInv, BaType
    <3> QED BY <3>2, <3>3
  <2> QED BY <2>8, <2>9 DEF BaType
<1>10. EventType'
  <2>1. feedback \in [BA -> Seq(BOOLEAN)] /\ feedback[b] \in Seq(BOOLEAN)
    BY <1>1 DEF TypeInv, EventType
  <2>2. feedback[b] \o <<FALSE, TRUE>> \in Seq(BOOLEAN) /\ feedback[b] \o <<FALSE>> \in Seq(BOOLEAN)
    BY <2>1
  <2>3. feedback' \in [BA -> Seq(BOOLEAN)]
    BY <2>1, <2>2 DEF BaDid
  <2> QED BY <1>7, <2>3 DEF TypeInv, EventType
<1> QED BY <1>1, <1>2, <1>4, <1>5, <1>6, <1>7, <1>8, <1>9, <1>10, TypeFrame DEF TypeInv

LEMMA CallsFinite ==
  ASSUME NEW s, NEW i, NEW e \in BOOLEAN
  PROVE  /\ IsFiniteSet({LeafCall(n, e) : n \in Leaves(s)})
         /\ IsFiniteSet({StatusCall(k) : k \in Listeners(s)})
         /\ IsFiniteSet({DowntimeCall(k, i, e) : k \in Listeners(s)})
<1>1. IsFiniteSet(Leaves(s)) /\ IsFiniteSet(Listeners(s))
  <2>1. Leaves(s) \in SUBSET Node /\ Listeners(s) \in SUBSET SKpi
    BY DEF Leaves, Listeners, Leaf
  <2> QED BY <2>1, BamAssumption, KpisFinite, FS_Subset
<1>2. IsFiniteSet({LeafCall(n, e) : n \in Leaves(s)})
  <2> DEFINE T == {LeafCall(n, e) : n \in Leaves(s)}
             f == [n \in Leaves(s) |-> LeafCall(n, e)]
  <2>1. f \in Surjection(Leaves(s), T)
    BY DEF Surjection
  <2> HIDE DEF T, f
  <2>2. IsFiniteSet(T)
    BY <1>1, <2>1, FS_Surjection
  <2> QED BY <2>2 DEF T
<1>3. IsFiniteSet({StatusCall(k) : k \in Listeners(s)})
  <2> DEFINE T == {StatusCall(k) : k \in Listeners(s)}
             f == [k \in Listeners(s) |-> StatusCall(k)]
  <2>1. f \in Surjection(Listeners(s), T)
    BY DEF Surjection
  <2> HIDE DEF T, f
  <2>2. IsFiniteSet(T)
    BY <1>1, <2>1, FS_Surjection
  <2> QED BY <2>2 DEF T
<1>4. IsFiniteSet({DowntimeCall(k, i, e) : k \in Listeners(s)})
  <2> DEFINE T == {DowntimeCall(k, i, e) : k \in Listeners(s)}
             f == [k \in Listeners(s) |-> DowntimeCall(k, i, e)]
  <2>1. f \in Surjection(Listeners(s), T)
    BY DEF Surjection
  <2> HIDE DEF T, f
  <2>2. IsFiniteSet(T)
    BY <1>1, <2>1, FS_Surjection
  <2> QED BY <2>2 DEF T
<1> QED BY <1>2, <1>3, <1>4

Gathers(u, S) == ToSet(u) = S /\ u \in Seq(ToSet(u))

\* A propagation starts with the calls of S.
Started(S) == stack = <<>> /\ Gathers(stack', S)

LEMMA JoinedCalls ==
  ASSUME NEW S, NEW T, IsFiniteSet(S), IsFiniteSet(T), NEW s \in SetToSeqs(S), NEW t \in SetToSeqs(T),
         NEW u, u = s \o t
  PROVE  Gathers(u, S \cup T)
<1>1. s \in Seq(S \cup T) /\ t \in Seq(S \cup T) /\ ToSet(s) = S /\ ToSet(t) = T
  <2>1. s \in Seq(S) /\ t \in Seq(T) /\ ToSet(s) = S /\ ToSet(t) = T
    BY SetToSeqsFacts
  <2> QED BY <2>1
<1>2. ToSet(s \o t) = ToSet(s) \cup ToSet(t)
  BY <1>1, ToSetConcat
<1>3. s \o t \in Seq(S \cup T)
  BY <1>1
<1>4. s \o t \in Seq(ToSet(s \o t))
  BY <1>3, OwnElements
<1> QED BY <1>1, <1>2, <1>4 DEF Gathers

\* An event leaves on the stack the calls to the listeners of its service.
LEMMA StartType ==
  ASSUME NEW S, Started(S), \A c \in S : IsCall(c)
  PROVE  StackType'
<1>1. \A c \in ToSet(stack') : IsCall(c)
  BY DEF Started, Gathers
<1> QED BY <1>1 DEF StackType, Started, Gathers, IsCall

LEMMA StatusType ==
  ASSUME TypeInv, NEW s \in Service, NEW h \in Hard[s], Status(s, h)
  PROVE  /\ TypeInv'
         /\ Started({LeafCall(n, TRUE) : n \in Leaves(s)} \cup {StatusCall(k) : k \in Listeners(s)})
<1> DEFINE L == {LeafCall(n, TRUE) : n \in Leaves(s)}
           K == {StatusCall(k) : k \in Listeners(s)}
<1>1. /\ stack = <<>>
      /\ svc' = [svc EXCEPT ![s].hard = h]
      /\ \E ns \in SetToSeqs(L), ks \in SetToSeqs(K) : stack' = ns \o ks
      /\ UNCHANGED <<config, kpi, leaf, oper, exp, ba, own, feedback>>
  BY DEF Status, LeafCall, StatusCall
<1>2. IsFiniteSet(L) /\ IsFiniteSet(K)
  BY CallsFinite
<1>3. \A c \in L \cup K : IsCall(c)
  BY DEF IsCall, Leaves, Listeners
<1> HIDE DEF L, K
<1>4. Started(L \cup K)
  <2>1. PICK ns \in SetToSeqs(L), ks \in SetToSeqs(K) : stack' = ns \o ks
    BY <1>1
  <2>2. Gathers(stack', L \cup K)
    BY <1>2, <2>1, JoinedCalls
  <2> QED BY <1>1, <2>2 DEF Started
<1>5. StackType'
  BY <1>3, <1>4, StartType
<1>6. SvcType'
  <2>1. h \in State
    BY BamAssumption
  <2>2. svc \in [Service -> [hard : State, downtimes : SUBSET Ids]]
    BY DEF TypeInv, SvcType
  <2> HIDE DEF State
  <2>3. svc' \in [Service -> [hard : State, downtimes : SUBSET Ids]]
    BY <1>1, <2>1, <2>2
  <2> QED BY <1>1, <2>2, <2>3 DEF TypeInv, SvcType
<1> QED BY <1>1, <1>4, <1>5, <1>6, TypeFrame DEF TypeInv, L, K

LEMMA DowntimeType ==
  ASSUME TypeInv, NEW s \in Service, NEW e \in BOOLEAN, NEW i \in Id[s], Downtime(s, i, e)
  PROVE  /\ TypeInv'
         /\ Started({DowntimeCall(k, i, e) : k \in Listeners(s)} \cup {LeafCall(n, FALSE) : n \in Leaves(s)})
<1> DEFINE L == {LeafCall(n, FALSE) : n \in Leaves(s)}
           K == {DowntimeCall(k, i, e) : k \in Listeners(s)}
<1>1. /\ stack = <<>>
      /\ svc' = [svc EXCEPT ![s].downtimes = IF e THEN @ \ {i} ELSE @ \union {i}]
      /\ \E ks \in SetToSeqs(K), ns \in SetToSeqs(L) : stack' = ks \o ns
      /\ UNCHANGED <<config, kpi, leaf, oper, exp, ba, own, feedback>>
  BY DEF Downtime, LeafCall, DowntimeCall
<1>2. IsFiniteSet(L) /\ IsFiniteSet(K)
  <2>1. IsFiniteSet(L)
    BY CallsFinite
  <2>2. IsFiniteSet(K)
    BY CallsFinite
  <2> QED BY <2>1, <2>2
<1>3. \A c \in K \cup L : IsCall(c)
  <2>1. ASSUME NEW k \in Listeners(s) PROVE IsCall(DowntimeCall(k, i, e))
    BY DEF IsCall, Listeners
  <2>2. ASSUME NEW n \in Leaves(s) PROVE IsCall(LeafCall(n, FALSE))
    BY DEF IsCall, Leaves
  <2> QED BY <2>1, <2>2
<1> HIDE DEF L, K
<1>4. Started(K \cup L)
  <2>1. PICK ks \in SetToSeqs(K), ns \in SetToSeqs(L) : stack' = ks \o ns
    BY <1>1
  <2>2. Gathers(stack', K \cup L)
    BY <1>2, <2>1, JoinedCalls
  <2> QED BY <1>1, <2>2 DEF Started
<1>5. StackType'
  BY <1>3, <1>4, StartType
<1>6. SvcType'
  <2>1. svc \in [Service -> [hard : State, downtimes : SUBSET Ids]] /\ i \in Ids
    BY DEF TypeInv, SvcType, Ids
  <2> HIDE DEF State
  <2>2. svc' \in [Service -> [hard : State, downtimes : SUBSET Ids]]
    BY <1>1, <2>1
  <2> QED BY <1>1, <2>1, <2>2 DEF TypeInv, SvcType
<1> QED BY <1>1, <1>4, <1>5, <1>6, TypeFrame DEF TypeInv, L, K

LEMMA OwnDowntimeType ==
  ASSUME TypeInv, NEW b \in BA, OwnDowntime(b)
  PROVE  TypeInv'
<1> USE DEF OwnDowntime
<1>1. EventType'
  <2>1. own \in [BA -> BOOLEAN] /\ feedback \in [BA -> Seq(BOOLEAN)]
    BY DEF TypeInv, EventType
  <2>2. Append(feedback[b], ~own[b]) \in Seq(BOOLEAN)
    BY <2>1
  <2> QED BY <2>1, <2>2 DEF EventType
<1> QED BY <1>1, TypeFrame DEF TypeInv

LEMMA DeliverType ==
  ASSUME TypeInv, NEW b \in BA, Deliver(b)
  PROVE  /\ TypeInv'
         /\ Started(IF ba[b].down # Head(feedback[b]) THEN BaParents(b) ELSE {})
<1> DEFINE S == IF ba[b].down # Head(feedback[b]) THEN BaParents(b) ELSE {}
<1>1. /\ stack = <<>> /\ feedback[b] # <<>>
      /\ ba' = [ba EXCEPT ![b].down = Head(feedback[b])]
      /\ feedback' = [feedback EXCEPT ![b] = Tail(@)]
      /\ stack' \in SetToSeqs(S)
      /\ UNCHANGED <<config, svc, kpi, leaf, oper, exp, own>>
  BY DEF Deliver
<1>2. IsFiniteSet(S) /\ \A c \in S : IsCall(c)
  BY ParentsFinite, ParentsAreCalls, FS_EmptySet
<1> HIDE DEF S
<1>3. Started(S)
  BY <1>1, <1>2, SetToSeqsFacts DEF Started, Gathers
<1>4. StackType'
  BY <1>2, <1>3, StartType
<1>5. feedback \in [BA -> Seq(BOOLEAN)] /\ feedback[b] \in Seq(BOOLEAN)
  BY DEF TypeInv, EventType
<1>6. EventType'
  BY <1>1, <1>5 DEF TypeInv, EventType
<1>7. BaType'
  <2>1. ba = [c \in BA |-> [impacts |-> ba[c].impacts, agg |-> ba[c].agg,
                            down |-> ba[c].down, inherited |-> ba[c].inherited]]
    BY DEF TypeInv, BaType
  <2>2. Head(feedback[b]) \in BOOLEAN
    BY <1>1, <1>5
  <2>3. \A c \in BA : /\ ba'[c].impacts = ba[c].impacts /\ ba'[c].agg = ba[c].agg
                      /\ ba'[c].inherited = ba[c].inherited
                      /\ ba'[c].down = IF c = b THEN Head(feedback[b]) ELSE ba[c].down
    BY <1>1, <2>1
  <2>4. ba' = [c \in BA |-> [impacts |-> ba'[c].impacts, agg |-> ba'[c].agg,
                             down |-> ba'[c].down, inherited |-> ba'[c].inherited]]
    BY <1>1, <2>1
  <2>5. \A c \in BA : Applied(c, ba[c].impacts)' = Applied(c, ba'[c].impacts)
    BY <1>1, AppliedFrame
  <2>6. \A c \in BA : /\ ba'[c].impacts \in [KpisOf(c) -> Impact]
                      /\ ba'[c].agg = Applied(c, ba[c].impacts)'
                      /\ ba'[c].down \in BOOLEAN /\ ba'[c].inherited \in BOOLEAN
    BY <2>2, <2>3, <2>5 DEF TypeInv, BaType
  <2> QED BY <2>4, <2>6 DEF BaType
<1> QED BY <1>1, <1>3, <1>4, <1>6, <1>7, TypeFrame DEF TypeInv, S

LEMMA InitType ==
  ASSUME Init
  PROVE  TypeInv
<1>1. config \in Configs
  BY DEF Init
<1>2. OK \in State /\ UNKNOWN \in State /\ 0 \in State
  BY DEF State, OK, UNKNOWN
<1>3. SvcType
  BY <1>2, BamAssumption DEF Init, SvcType
<1>4. KpiType
  BY <1>2, BamAssumption, KpiFacts DEF Init, KpiType
<1>5. NodeType
  BY <1>2 DEF Init, NodeType
<1>6. ExpType
  BY <1>2 DEF Init, ExpType
<1>7. BaType
  <2> DEFINE first(b) == FirstImpacts(b, FirstState)
  <2>1. ba = [b \in BA |-> [impacts |-> first(b), agg |-> Applied(b, first(b)),
                            down |-> FALSE, inherited |-> FALSE]]
    BY DEF Init
  <2>2. \A b \in BA : first(b) \in [KpisOf(b) -> Impact]
    BY <1>1, FirstUnfold, FirstTypes DEF Firsts
  <2> HIDE DEF first
  <2>3. \A b \in BA : /\ ba[b].impacts = first(b) /\ ba[b].agg = Applied(b, first(b))
                      /\ ba[b].down = FALSE /\ ba[b].inherited = FALSE
    BY <2>1
  <2>4. ba = [b \in BA |-> [impacts |-> ba[b].impacts, agg |-> ba[b].agg,
                            down |-> ba[b].down, inherited |-> ba[b].inherited]]
    BY <2>1, <2>3
  <2> QED BY <2>2, <2>3, <2>4 DEF BaType
<1>8. EventType
  BY DEF Init, EventType
<1>9. StackType
  BY ToSetEmpty DEF Init, StackType
<1> QED BY <1>1, <1>3, <1>4, <1>5, <1>6, <1>7, <1>8, <1>9 DEF TypeInv

LEMMA CallType ==
  ASSUME TypeInv, Call
  PROVE  TypeInv'
<1>1. ASSUME NEW k \in SKpi, stack # <<>>, KpiStatus(k) PROVE TypeInv'
  BY <1>1, KpiStatusType
<1>2. ASSUME NEW k \in SKpi, NEW e \in BOOLEAN, NEW i \in Id[k.src], stack # <<>>, KpiDowntime(k, i, e)
      PROVE  TypeInv'
  BY <1>2, KpiDowntimeType
<1>3. ASSUME NEW n \in Leaf, NEW s \in BOOLEAN, stack # <<>>, LeafUpdate(n, s) PROVE TypeInv'
  BY <1>3, LeafUpdateType
<1>4. ASSUME NEW n \in Node \ Leaf, NEW m \in {Exp[n].l, Exp[n].r}, stack # <<>>, NodeUpdate(n, m)
      PROVE  TypeInv'
  BY <1>4, NodeUpdateType
<1>5. ASSUME stack # <<>>, ExpUpdate PROVE TypeInv'
  BY <1>5, ExpUpdateType
<1>6. ASSUME NEW k \in Kpi, stack # <<>>, BaUpdate(k) PROVE TypeInv'
  BY <1>6, BaUpdateDoes, BaUpdateType
<1> QED BY <1>1, <1>2, <1>3, <1>4, <1>5, <1>6, CallCases

LEMMA NextType ==
  ASSUME TypeInv, [Next]_vars
  PROVE  TypeInv'
<1>1. CASE Call
  BY <1>1, CallType
<1>2. ASSUME NEW s \in Service, NEW h \in Hard[s], Status(s, h) PROVE TypeInv'
  BY <1>2, StatusType
<1>3. ASSUME NEW s \in Service, NEW e \in BOOLEAN, NEW i \in Id[s], Downtime(s, i, e) PROVE TypeInv'
  BY <1>3, DowntimeType
<1>4. ASSUME NEW b \in Owned, OwnDowntime(b) PROVE TypeInv'
  BY <1>4, OwnDowntimeType, BamAssumption
<1>5. ASSUME NEW b \in BA, Deliver(b) PROVE TypeInv'
  BY <1>5, DeliverType
<1>6. CASE UNCHANGED vars
  BY <1>6, TypeFrame DEF vars, TypeInv
<1> QED BY <1>1, <1>2, <1>3, <1>4, <1>5, <1>6 DEF Next

\* The state of every variable, for any services, BAs and expression; in
\* particular the level of a BA of kind impact, which _apply_changes() adds
\* to and takes from, stays within what its KPIs can take.
THEOREM TypeCorrect == Spec => []TypeOK
<1>1. Init => TypeInv
  BY InitType
<1>2. TypeInv /\ [Next]_vars => TypeInv'
  BY NextType
<1>3. TypeInv => TypeOK
  BY TypesHold
<1> QED BY <1>1, <1>2, <1>3, PTL DEF Spec

----------------------------------------------------------------------------
(* The expression *)

\* Calls to different nodes are different calls.
LEMMA CallsDiffer ==
  /\ \A m, c, n, d : NodeCall(m, c) = NodeCall(n, d) => m = n /\ c = d
  /\ \A m, c, n, s : NodeCall(m, c) # LeafCall(n, s)
  /\ \A m, c, k : NodeCall(m, c) # StatusCall(k) /\ NodeCall(m, c) # BaCall(k)
  /\ \A m, c, k, i, e : NodeCall(m, c) # DowntimeCall(k, i, e)
  /\ \A m, c : NodeCall(m, c) # ExpCall
  /\ \A n, s, m, t : LeafCall(n, s) = LeafCall(m, t) => n = m /\ s = t
  /\ \A n, s, k : LeafCall(n, s) # StatusCall(k) /\ LeafCall(n, s) # BaCall(k)
  /\ \A n, s, k, i, e : LeafCall(n, s) # DowntimeCall(k, i, e)
  /\ \A n, s : LeafCall(n, s) # ExpCall
  /\ \A k : ExpCall # StatusCall(k) /\ ExpCall # BaCall(k)
  /\ \A k, i, e : ExpCall # DowntimeCall(k, i, e)
BY DEF NodeCall, LeafCall, StatusCall, BaCall, DowntimeCall, ExpCall

\* Every operator is among the parents of its children.
LEMMA ParentOfChild ==
  /\ \A m \in Node \ Leaf : \A c \in {Exp[m].l, Exp[m].r} :
       c \in Node /\ c # Root /\ c < m /\ NodeCall(m, c) \in NodeParents(c)
  /\ ExpCall \in NodeParents(Root)
<1>1. ASSUME NEW m \in Node \ Leaf, NEW c \in {Exp[m].l, Exp[m].r}
      PROVE  c \in Node /\ c # Root /\ c < m
  BY NodeFacts
<1>2. ASSUME NEW m \in Node \ Leaf, NEW c \in {Exp[m].l, Exp[m].r}, c # Root
      PROVE  NodeCall(m, c) \in NodeParents(c)
  BY <1>2 DEF NodeParents, NodeCall
<1> QED BY <1>1, <1>2 DEF NodeParents, ExpCall

\* All the parents of node c are about to be told of it.
Told(c) == \A p \in NodeParents(c) : Called(p)'
Same(c) == Value[c]' = Value[c] /\ Known[c]' = Known[c]

\* A step changes node x at most, and tells its parents when it does.
Moves(x) ==
  /\ \A m \in Node \ {x} : \A c : Called(NodeCall(m, c)) => Called(NodeCall(m, c))'
  /\ \A n \in Leaf \ {x} : leaf'[n] = leaf[n]
  /\ \A m \in Binary \ {x} : oper'[m] = oper[m]
  /\ x \in Node => Told(x) \/ (Exp[x].op # "not" /\ Same(x))

Carried(c) == Soon[c]' \/ Told(c) \/ (Same(c) /\ ~Soon[c])

\* A step that leaves a node and those below it alone leaves its value.
LEMMA LeafSame ==
  ASSUME NEW n \in Leaf, leaf'[n] = leaf[n]
  PROVE  Same(n) /\ ~Soon[n]
<1>1. n \in Node /\ Exp[n].op # "not"
  BY NodeFacts
<1>2. Valued' /\ Knows'
  BY ValueUnfold, KnownUnfold, PTL
<1>3. Value[n] = leaf[n].hard /\ Known[n] = leaf[n].known
  BY <1>1, ValueUnfold, KnownUnfold DEF Valued, Knows
<1>4. Value[n]' = leaf'[n].hard /\ Known[n]' = leaf'[n].known
  BY <1>1, <1>2 DEF Valued, Knows
<1>5. ~Soon[n]
  BY <1>1, SoonUnfold DEF Soons
<1> QED BY <1>3, <1>4, <1>5 DEF Same

LEMMA OperSame ==
  ASSUME NEW n \in Binary, oper'[n] = oper[n]
  PROVE  Same(n) /\ ~Soon[n]
<1>1. n \in Node /\ n \notin Leaf /\ Exp[n].op # "not"
  BY NodeFacts
<1>2. Valued' /\ Knows'
  BY ValueUnfold, KnownUnfold, PTL
<1>3. Value[n] = (IF oper[n].value THEN 1 ELSE 0) /\ Known[n] = oper[n].known
  BY <1>1, ValueUnfold, KnownUnfold DEF Valued, Knows
<1>4. Value[n]' = (IF oper'[n].value THEN 1 ELSE 0) /\ Known[n]' = oper'[n].known
  BY <1>1, <1>2 DEF Valued, Knows
<1>5. ~Soon[n]
  BY <1>1, SoonUnfold DEF Soons
<1> QED BY <1>3, <1>4, <1>5 DEF Same

LEMMA NotSame ==
  ASSUME NEW n \in Node, Exp[n].op = "not"
  PROVE  /\ Exp[n].l \in Node /\ Exp[n].l < n
         /\ Same(Exp[n].l) => Same(n)
         /\ Soon[n] <=> Called(NodeCall(n, Exp[n].l)) \/ Soon[Exp[n].l]
         /\ Soon[n]' <=> Called(NodeCall(n, Exp[n].l))' \/ Soon[Exp[n].l]'
<1>1. n \notin Leaf /\ Exp[n].l \in Node /\ Exp[n].l < n
  BY NodeFacts
<1>2. Valued' /\ Knows' /\ Soons'
  BY ValueUnfold, KnownUnfold, SoonUnfold, PTL
<1>3. Value[n] = (IF Value[Exp[n].l] = 0 THEN 1 ELSE 0) /\ Known[n] = Known[Exp[n].l]
  BY <1>1, ValueUnfold, KnownUnfold DEF Valued, Knows
<1>4. Value[n]' = (IF Value[Exp[n].l]' = 0 THEN 1 ELSE 0) /\ Known[n]' = Known[Exp[n].l]'
  BY <1>1, <1>2 DEF Valued, Knows
<1>5. Soon[n] <=> Called(NodeCall(n, Exp[n].l)) \/ Soon[Exp[n].l]
  BY SoonUnfold DEF Soons
<1>6. Soon[n]' <=> Called(NodeCall(n, Exp[n].l))' \/ Soon[Exp[n].l]'
  BY <1>2 DEF Soons
<1> QED BY <1>1, <1>3, <1>4, <1>5, <1>6 DEF Same

\* A change travels up through the negations, which keep nothing.
LEMMA AllCarried ==
  ASSUME NEW x, Moves(x)
  PROVE  \A c \in Node : Carried(c)
<1> DEFINE S == {c \in Node : Carried(c)}
<1>1. ASSUME NEW c \in Node, \A d \in Node : d < c => d \in S PROVE Carried(c)
  <2>1. CASE c \in Leaf /\ c # x
    BY <2>1, LeafSame DEF Moves, Carried
  <2>2. CASE c \in Binary /\ c # x
    BY <2>2, OperSame DEF Moves, Carried
  <2>3. CASE c = x
    <3>1. Told(x) \/ (Exp[x].op # "not" /\ Same(x))
      BY <2>3 DEF Moves
    <3>2. Exp[x].op # "not" => ~Soon[x]
      BY <2>3, SoonUnfold DEF Soons
    <3> QED BY <2>3, <3>1, <3>2 DEF Carried
  <2>4. CASE Exp[c].op = "not" /\ c # x
    <3> DEFINE d == Exp[c].l
    <3>1. d \in Node /\ d < c
      BY <2>4, NotSame
    <3>2. Carried(d)
      BY <1>1, <3>1
    <3>3. Called(NodeCall(c, d)) => Called(NodeCall(c, d))'
      BY <2>4 DEF Moves
    <3>4. Told(d) => Called(NodeCall(c, d))'
      <4>1. c \in Node \ Leaf
        BY <2>4, NodeFacts
      <4>2. NodeCall(c, d) \in NodeParents(d)
        BY <4>1, ParentOfChild
      <4> QED BY <4>2 DEF Told
    <3> HIDE DEF d
    <3>5. /\ Same(d) => Same(c)
          /\ Soon[c] <=> Called(NodeCall(c, d)) \/ Soon[d]
          /\ Soon[c]' <=> Called(NodeCall(c, d))' \/ Soon[d]'
      BY <2>4, NotSame DEF d
    <3> QED BY <3>2, <3>3, <3>4, <3>5 DEF Carried
  <2> QED BY <2>1, <2>2, <2>3, <2>4, NodeFacts
<1>2. \A c \in Node : (\A d \in Node : d < c => d \in S) => c \in S
  BY <1>1
<1>3. Node \subseteq Nat
  BY BamAssumption
<1> HIDE DEF S
<1>4. \A c \in Node : c \in S
  BY <1>2, <1>3, SetInduction
<1> QED BY <1>4 DEF S

\* What an operator that the step does not change has still to be told of
\* stays so, and what it knows of the others stays true.
LEMMA PendingCarried ==
  ASSUME NEW x, Moves(x), NEW m \in Binary, m # x, NEW c \in {Exp[m].l, Exp[m].r}
  PROVE  /\ Pending(m, c) => Pending(m, c)'
         /\ Pending(m, c)' \/ (Known[c]' = Known[c] /\ Value[c]' = Value[c])
<1>1. m \in Node \ Leaf
  BY NodeFacts
<1>2. c \in Node /\ NodeCall(m, c) \in NodeParents(c)
  BY <1>1, ParentOfChild
<1>3. Carried(c)
  BY <1>2, AllCarried
<1>4. Called(NodeCall(m, c)) => Called(NodeCall(m, c))'
  BY <1>1 DEF Moves
<1>5. Told(c) => Called(NodeCall(m, c))'
  BY <1>2 DEF Told
<1> QED BY <1>3, <1>4, <1>5 DEF Carried, Pending, Same

\* An operator that is not called keeps its invariant if what it copies of a
\* child is unchanged, or if it is about to be told.
LEMMA OperKept ==
  ASSUME NEW x, Moves(x), NEW m \in Binary, m # x, OperInv(m)
  PROVE  OperInv(m)'
<1> DEFINE l == Exp[m].l
           r == Exp[m].r
<1>1. oper'[m] = oper[m]
  BY DEF Moves
<1>2. /\ Pending(m, l) => Pending(m, l)'
      /\ Pending(m, l)' \/ (Known[l]' = Known[l] /\ Value[l]' = Value[l])
  BY PendingCarried
<1>3. /\ Pending(m, r) => Pending(m, r)'
      /\ Pending(m, r)' \/ (Known[r]' = Known[r] /\ Value[r]' = Value[r])
  BY PendingCarried
<1>4. /\ Pending(m, l)' \/ (Decides(m, l)' <=> Decides(m, l))
      /\ Pending(m, r)' \/ (Decides(m, r)' <=> Decides(m, r))
  BY <1>2, <1>3 DEF Decides, Or
<1>5. (Or(m))' <=> Or(m)
  BY DEF Or
<1> HIDE DEF l, r
<1>6. OperInv(m) /\ l = Exp[m].l /\ r = Exp[m].r
  BY DEF l, r
<1>7. /\ ~oper[m].known => /\ Pending(m, l)' \/ ~Decides(m, l)'
                           /\ Pending(m, r)' \/ ~Decides(m, r)'
                           /\ \/ Pending(m, l)' \/ ~Known[l]'
                              \/ Pending(m, r)' \/ ~Known[r]'
      /\ oper[m].known /\ (oper[m].value <=> Or(m)) =>
           \/ ((oper[m].l # 0) <=> Or(m)) /\ (Pending(m, l)' \/ Decides(m, l)')
           \/ ((oper[m].r # 0) <=> Or(m)) /\ (Pending(m, r)' \/ Decides(m, r)')
      /\ oper[m].known /\ ~(oper[m].value <=> Or(m)) =>
           /\ ~((oper[m].l # 0) <=> Or(m)) /\ ~((oper[m].r # 0) <=> Or(m))
           /\ Pending(m, l)' \/ (Known[l]' /\ ~Decides(m, l)')
           /\ Pending(m, r)' \/ (Known[r]' /\ ~Decides(m, r)')
  BY <1>2, <1>3, <1>4, <1>6 DEF OperInv
<1> QED BY <1>1, <1>5, <1>6, <1>7 DEF OperInv

\* The KPI of the expression, when the step does not make the call to it.
LEMMA ExpKept ==
  ASSUME NEW x, Moves(x), ExpInv, Called(ExpCall) => Called(ExpCall)', UNCHANGED exp
  PROVE  ExpInv'
<1>1. Carried(Root)
  BY AllCarried, NodeFacts
<1>2. Told(Root) => Called(ExpCall)'
  BY ParentOfChild DEF Told
<1>3. Same(Root) => (ExpState' = ExpState /\ Known[Root]' = Known[Root])
  BY DEF Same, ExpState, CRITICAL, OK
<1> QED BY <1>1, <1>2, <1>3 DEF Carried, ExpInv

\* A step that is not a call to a node of the expression.
LEMMA ExprFrame ==
  ASSUME ExprInv, UNCHANGED <<leaf, oper>>,
         \A m, c : Called(NodeCall(m, c)) => Called(NodeCall(m, c))',
         \A n \in Leaf : Called(LeafCall(n, TRUE)) => Called(LeafCall(n, TRUE))',
         \A n \in Leaf : \/ svc'[Exp[n].svc].hard = svc[Exp[n].svc].hard
                         \/ Called(LeafCall(n, TRUE))'
  PROVE  /\ ExprInv'
         /\ ExpInv /\ (Called(ExpCall) => Called(ExpCall)') /\ UNCHANGED exp => ExpInv'
<1> DEFINE x == Root + 1
<1>1. x \notin Node
  BY NodeFacts
<1> HIDE DEF x
<1>2. Moves(x)
  BY <1>1 DEF Moves
<1>3. \A m \in Binary : OperInv(m)'
  BY <1>1, <1>2, OperKept, NodeFacts DEF ExprInv
<1>4. \A n \in Leaf : LeafInv(n)'
  BY DEF ExprInv, LeafInv
<1> QED BY <1>2, <1>3, <1>4, ExpKept DEF ExprInv

\* Nothing below a node that changes has another value.
LEMMA BelowSame ==
  ASSUME NEW x \in Node, UNCHANGED leaf, \A m \in Binary \ {x} : oper'[m] = oper[m]
  PROVE  \A c \in Node : c < x => Same(c)
<1> DEFINE S == {c \in Node : c < x => Same(c)}
<1>1. ASSUME NEW c \in Node, \A d \in Node : d < c => d \in S PROVE c \in S
  <2>1. CASE c \in Leaf
    BY <2>1, LeafSame
  <2>2. CASE c \in Binary
    <3>1. c < x => c # x
      BY NodeFacts
    <3> QED BY <2>2, <3>1, OperSame
  <2>3. CASE Exp[c].op = "not"
    <3>1. Exp[c].l \in Node /\ Exp[c].l < c /\ (Same(Exp[c].l) => Same(c))
      BY <2>3, NotSame
    <3>2. c < x => Exp[c].l < x
      BY <3>1, NodeFacts
    <3>3. c < x => Same(Exp[c].l)
      BY <1>1, <3>1, <3>2
    <3> QED BY <3>1, <3>3
  <2> QED BY <2>1, <2>2, <2>3, NodeFacts
<1>2. Node \subseteq Nat
  BY BamAssumption
<1> HIDE DEF S
<1>3. \A c \in Node : c \in S
  BY <1>1, <1>2, SetInduction
<1> QED BY <1>3 DEF S

\* An operator that reacts settles what it knows.
LEMMA OperStateIs ==
  ASSUME NodeType, NEW n \in Binary, NEW o, o = OperState(n),
         NEW l, l = Exp[n].l, NEW r, r = Exp[n].r
  PROVE  /\ ~o.known => /\ ~Decides(n, l) /\ ~Decides(n, r)
                        /\ ~Known[l] \/ ~Known[r]
         /\ o.known /\ (o.value <=> Or(n)) =>
              \/ ((o.l # 0) <=> Or(n)) /\ Decides(n, l)
              \/ ((o.r # 0) <=> Or(n)) /\ Decides(n, r)
         /\ o.known /\ ~(o.value <=> Or(n)) =>
              /\ ~((o.l # 0) <=> Or(n)) /\ ~((o.r # 0) <=> Or(n))
              /\ Known[l] /\ ~Decides(n, l) /\ Known[r] /\ ~Decides(n, r)
<1>0. oper[n] \in OperRecord /\ l \in Node /\ r \in Node
  BY NodeFacts DEF NodeType, OperRecord
<1>1. Known[l] \in BOOLEAN /\ Known[r] \in BOOLEAN
  BY <1>0, ExprTypes
<1>2. CASE Decides(n, l)
  <2>1. o = [oper[n] EXCEPT !.l = IF Or(n) THEN 1 ELSE 0, !.value = Or(n), !.known = TRUE]
    BY <1>2 DEF OperState, Decides, Or
  <2>2. o.known = TRUE /\ o.value = Or(n) /\ o.l = IF Or(n) THEN 1 ELSE 0
    BY <1>0, <2>1 DEF OperRecord
  <2>3. (o.l # 0) <=> Or(n)
    BY <2>2
  <2> QED BY <1>2, <2>2, <2>3
<1>3. CASE ~Decides(n, l) /\ Decides(n, r)
  <2>1. o = [oper[n] EXCEPT !.r = IF Or(n) THEN 1 ELSE 0, !.value = Or(n), !.known = TRUE]
    BY <1>3 DEF OperState, Decides, Or
  <2>2. o.known = TRUE /\ o.value = Or(n) /\ o.r = IF Or(n) THEN 1 ELSE 0
    BY <1>0, <2>1 DEF OperRecord
  <2>3. (o.r # 0) <=> Or(n)
    BY <2>2
  <2> QED BY <1>3, <2>2, <2>3
<1>4. CASE ~Decides(n, l) /\ ~Decides(n, r)
  <2> DEFINE both == BinaryState(n)
  <2>1. o = [both EXCEPT !.value = both.known /\ ~Or(n)]
    BY <1>4 DEF OperState, Decides, Or
  <2>2. CASE Known[l] /\ Known[r]
    <3>1. both = [oper[n] EXCEPT !.known = TRUE, !.l = Value[l], !.r = Value[r],
                                 !.down = Down[l] \/ Down[r]]
      BY <2>2 DEF BinaryState
    <3> HIDE DEF both
    <3>2. o.known /\ (o.value <=> ~Or(n)) /\ o.l = Value[l] /\ o.r = Value[r]
      BY <1>0, <2>1, <3>1 DEF OperRecord, Or
    <3> QED BY <1>4, <2>2, <3>2 DEF Decides
  <2>3. CASE ~(Known[l] /\ Known[r])
    <3>1. both = [oper[n] EXCEPT !.known = FALSE]
      BY <2>3 DEF BinaryState
    <3> HIDE DEF both
    <3>2. ~o.known
      BY <1>0, <2>1, <3>1 DEF OperRecord
    <3> QED BY <1>4, <2>3, <3>2
  <2> QED BY <2>2, <2>3
<1> QED BY <1>2, <1>3, <1>4

\* A step of operator n: what it is told of c.
LEMMA OperStep ==
  ASSUME TypeInv, stack # <<>>, NEW n \in Binary, NEW c \in {Exp[n].l, Exp[n].r},
         NodeUpdate(n, c), Head(stack) = NodeCall(n, c), OperInv(n), Moves(n)
  PROVE  OperInv(n)'
<1> DEFINE l == Exp[n].l
           r == Exp[n].r
<1>0. n \in Node /\ n \notin Leaf /\ l \in Node /\ r \in Node /\ l < n /\ r < n /\ l # r
  <2>1. n \in Node /\ n \notin Leaf /\ Exp[n].op # "not"
    BY NodeFacts
  <2>2. l # r
    BY <2>1, ExpAssumption DEF Leaf
  <2> QED BY <2>1, <2>2, NodeFacts
<1>1. Same(l) /\ Same(r)
  BY <1>0, BelowSame DEF NodeUpdate, Moves
<1>2. /\ Decides(n, l)' <=> Decides(n, l)
      /\ Decides(n, r)' <=> Decides(n, r)
      /\ (Or(n))' <=> Or(n)
      /\ Known[l]' = Known[l] /\ Known[r]' = Known[r]
  BY <1>1 DEF Decides, Or, Same
<1>3. n \in DOMAIN oper
  BY DEF TypeInv, NodeType
<1>4. CASE Differs(n, c)
  <2>1. oper'[n] = OperState(n)
    BY <1>3, <1>4 DEF NodeUpdate
  <2>2. NodeType
    BY DEF TypeInv
  <2>3. /\ ~oper'[n].known => /\ ~Decides(n, l) /\ ~Decides(n, r)
                              /\ ~Known[l] \/ ~Known[r]
        /\ oper'[n].known /\ (oper'[n].value <=> Or(n)) =>
             \/ ((oper'[n].l # 0) <=> Or(n)) /\ Decides(n, l)
             \/ ((oper'[n].r # 0) <=> Or(n)) /\ Decides(n, r)
        /\ oper'[n].known /\ ~(oper'[n].value <=> Or(n)) =>
             /\ ~((oper'[n].l # 0) <=> Or(n)) /\ ~((oper'[n].r # 0) <=> Or(n))
             /\ Known[l] /\ ~Decides(n, l) /\ Known[r] /\ ~Decides(n, r)
    BY <2>1, <2>2, OperStateIs
  <2> QED BY <1>2, <2>3 DEF OperInv
<1>5. CASE ~Differs(n, c)
  <2>1. oper' = oper
    BY <1>5 DEF NodeUpdate
  <2>2. Known[c] = oper[n].known
    BY <1>5 DEF Differs
  <2>3. /\ c = l => oper[n].l = Value[l]
        /\ c = r => oper[n].r = Value[r]
    BY <1>0, <1>5 DEF Differs
  <2>4. ASSUME NEW d \in {l, r}, d # c PROVE Pending(n, d) => Pending(n, d)'
    <3>1. Carried(d) /\ (Told(d) => Called(NodeCall(n, d))')
      <4>1. Carried(d)
        BY <1>0, AllCarried
      <4>2. Told(d) => Called(NodeCall(n, d))'
        BY <1>0, ParentOfChild DEF Told
      <4> QED BY <4>1, <4>2
    <3>2. Called(NodeCall(n, d)) => Called(NodeCall(n, d))'
      <4>1. NodeCall(n, d) # Head(stack)
        BY <2>4, CallsDiffer
      <4>2. Pushed(IF n \in Binary => Differs(n, c) THEN NodeParents(n) ELSE {})
        BY <1>0, NodeUpdateType
      <4> QED BY <4>1, <4>2, HeadIsCall DEF TypeInv
    <3> QED BY <3>1, <3>2 DEF Carried, Pending
  <2> HIDE DEF l, r
  <2>5. l = Exp[n].l /\ r = Exp[n].r
    BY DEF l, r
  <2>6. CASE c = l
    <3>1. /\ ~oper[n].known => /\ ~Decides(n, l) /\ ~Known[l]
                               /\ Pending(n, r)' \/ ~Decides(n, r)
          /\ oper[n].known /\ (oper[n].value <=> Or(n)) =>
               \/ ((oper[n].l # 0) <=> Or(n)) /\ Decides(n, l)
               \/ ((oper[n].r # 0) <=> Or(n)) /\ (Pending(n, r)' \/ Decides(n, r))
          /\ oper[n].known /\ ~(oper[n].value <=> Or(n)) =>
               /\ ~((oper[n].l # 0) <=> Or(n)) /\ ~((oper[n].r # 0) <=> Or(n))
               /\ Known[l] /\ ~Decides(n, l)
               /\ Pending(n, r)' \/ (Known[r] /\ ~Decides(n, r))
      <4>1. Pending(n, r) => Pending(n, r)'
        BY <1>0, <2>4, <2>6
      <4>2. Decides(n, l) <=> Known[l] /\ ((oper[n].l # 0) <=> Or(n))
        BY <2>3, <2>6 DEF Decides
      <4>3. Known[l] = oper[n].known
        BY <2>2, <2>6
      <4> QED BY <2>5, <4>1, <4>2, <4>3 DEF OperInv
    <3> QED BY <1>2, <2>1, <2>5, <3>1 DEF OperInv
  <2>7. CASE c = r
    <3>1. /\ ~oper[n].known => /\ ~Decides(n, r) /\ ~Known[r]
                               /\ Pending(n, l)' \/ ~Decides(n, l)
          /\ oper[n].known /\ (oper[n].value <=> Or(n)) =>
               \/ ((oper[n].r # 0) <=> Or(n)) /\ Decides(n, r)
               \/ ((oper[n].l # 0) <=> Or(n)) /\ (Pending(n, l)' \/ Decides(n, l))
          /\ oper[n].known /\ ~(oper[n].value <=> Or(n)) =>
               /\ ~((oper[n].l # 0) <=> Or(n)) /\ ~((oper[n].r # 0) <=> Or(n))
               /\ Known[r] /\ ~Decides(n, r)
               /\ Pending(n, l)' \/ (Known[l] /\ ~Decides(n, l))
      <4>1. Pending(n, l) => Pending(n, l)'
        BY <1>0, <2>4, <2>7
      <4>2. Decides(n, r) <=> Known[r] /\ ((oper[n].r # 0) <=> Or(n))
        BY <2>3, <2>7 DEF Decides
      <4>3. Known[r] = oper[n].known
        BY <2>2, <2>7
      <4> QED BY <2>5, <4>1, <4>2, <4>3 DEF OperInv
    <3> QED BY <1>2, <2>1, <2>5, <3>1 DEF OperInv
  <2> QED BY <2>5, <2>6, <2>7
<1> QED BY <1>4, <1>5

ExpressionInv == ExprInv /\ ExpInv

\* The step of an operator: afterwards it agrees with both its children.
LEMMA NodeUpdateExpr ==
  ASSUME TypeInv, stack # <<>>, NEW n \in Node \ Leaf, NEW c \in {Exp[n].l, Exp[n].r},
         NodeUpdate(n, c), Head(stack) = NodeCall(n, c), ExpressionInv
  PROVE  ExpressionInv'
<1>1. Pushed(IF n \in Binary => Differs(n, c) THEN NodeParents(n) ELSE {}) /\ StackType
  BY NodeUpdateType DEF TypeInv
<1>2. /\ \A d : Called(d) => d = Head(stack) \/ Called(d)'
      /\ (n \in Binary => Differs(n, c)) => Told(n)
  BY <1>1, HeadIsCall DEF Told
<1>3. /\ UNCHANGED <<svc, leaf, exp>>
      /\ n \in Binary /\ ~Differs(n, c) => oper' = oper
      /\ n \notin Binary => oper' = oper
      /\ \A m \in Binary \ {n} : oper'[m] = oper[m]
  BY DEF NodeUpdate, TypeInv, NodeType
<1>4. Moves(n)
  <2>1. \A m \in Node \ {n} : \A d : Called(NodeCall(m, d)) => Called(NodeCall(m, d))'
    BY <1>2, CallsDiffer
  <2>2. n \in Binary /\ ~Differs(n, c) => Exp[n].op # "not" /\ Same(n)
    BY <1>3, OperSame, NodeFacts
  <2> QED BY <1>2, <1>3, <2>1, <2>2 DEF Moves
<1>5. ASSUME NEW m \in Binary PROVE OperInv(m)'
  <2>1. OperInv(m)
    BY DEF ExpressionInv, ExprInv
  <2>2. CASE m = n
    BY <1>4, <2>1, <2>2, OperStep
  <2>3. CASE m # n
    BY <1>4, <2>1, <2>3, OperKept
  <2> QED BY <2>2, <2>3
<1>6. ASSUME NEW m \in Leaf PROVE LeafInv(m)'
  <2>1. LeafInv(m)
    BY DEF ExpressionInv, ExprInv
  <2>2. NodeCall(n, c) # LeafCall(m, TRUE)
    BY CallsDiffer
  <2>3. Called(LeafCall(m, TRUE)) => Called(LeafCall(m, TRUE))'
    BY <1>2, <2>2
  <2> QED BY <1>3, <2>1, <2>3 DEF LeafInv
<1>7. ExpInv'
  <2>1. NodeCall(n, c) # ExpCall
    BY CallsDiffer
  <2>2. Called(ExpCall) => Called(ExpCall)'
    BY <1>2, <2>1
  <2> QED BY <1>3, <1>4, <2>2, ExpKept DEF ExpressionInv
<1> QED BY <1>5, <1>6, <1>7 DEF ExpressionInv, ExprInv

\* The step of a leaf: it takes the status and tells its operator.
LEMMA LeafUpdateExpr ==
  ASSUME TypeInv, stack # <<>>, NEW n \in Leaf, NEW s \in BOOLEAN,
         LeafUpdate(n, s), Head(stack) = LeafCall(n, s), ExpressionInv
  PROVE  ExpressionInv'
<1> DEFINE new == [known |-> leaf[n].known \/ s,
                   hard |-> IF s THEN svc[Exp[n].svc].hard ELSE leaf[n].hard,
                   down |-> svc[Exp[n].svc].downtimes # {}]
<1>1. /\ leaf' = [leaf EXCEPT ![n] = new]
      /\ Pushed(IF new # leaf[n] THEN NodeParents(n) ELSE {}) /\ StackType
  BY LeafUpdateType DEF TypeInv
<1>2. leaf' = [leaf EXCEPT ![n] = new] /\ n \in DOMAIN leaf
  BY <1>1 DEF TypeInv, NodeType
<1>3. (s => new.hard = svc[Exp[n].svc].hard) /\ (~s => new.hard = leaf[n].hard /\ (new.known => leaf[n].known))
  OBVIOUS
<1> HIDE DEF new
<1>4. /\ \A d : Called(d) => d = Head(stack) \/ Called(d)'
      /\ new # leaf[n] => Told(n)
  BY <1>1, HeadIsCall DEF Told
<1>5. /\ UNCHANGED <<svc, oper, exp>>
      /\ leaf'[n] = new
      /\ \A m \in Leaf \ {n} : leaf'[m] = leaf[m]
  BY <1>2 DEF LeafUpdate, TypeInv, NodeType
<1>6. Moves(n)
  <2>1. \A m, d : Called(NodeCall(m, d)) => Called(NodeCall(m, d))'
    BY <1>4, CallsDiffer
  <2>2. new = leaf[n] => Exp[n].op # "not" /\ Same(n)
    BY <1>5, LeafSame, NodeFacts
  <2> QED BY <1>4, <1>5, <2>1, <2>2 DEF Moves
<1>7. \A m \in Binary : OperInv(m)'
  BY <1>6, OperKept, NodeFacts DEF ExpressionInv, ExprInv
<1>8. ASSUME NEW m \in Leaf PROVE LeafInv(m)'
  <2>1. LeafInv(m)
    BY DEF ExpressionInv, ExprInv
  <2>2. CASE m # n \/ ~s
    <3>1. Called(LeafCall(m, TRUE)) => Called(LeafCall(m, TRUE))'
      BY <1>4, <2>2, CallsDiffer
    <3> QED BY <1>3, <1>5, <2>1, <2>2, <3>1 DEF LeafInv
  <2>3. CASE m = n /\ s
    BY <1>3, <1>5, <2>3 DEF LeafInv
  <2> QED BY <2>2, <2>3
<1>9. ExpInv'
  <2>1. Called(ExpCall) => Called(ExpCall)'
    BY <1>4, CallsDiffer
  <2> QED BY <1>5, <1>6, <2>1, ExpKept DEF ExpressionInv
<1> QED BY <1>7, <1>8, <1>9 DEF ExpressionInv, ExprInv

\* The other calls leave the expression alone.
LEMMA OtherCallExpr ==
  ASSUME TypeInv, stack # <<>>, NEW S, Pushed(S), UNCHANGED <<svc, leaf, oper, exp>>,
         \A m, c : NodeCall(m, c) # Head(stack), \A n, s : LeafCall(n, s) # Head(stack),
         ExpCall # Head(stack), ExpressionInv
  PROVE  ExpressionInv'
<1>1. \A d : Called(d) => d = Head(stack) \/ Called(d)'
  BY HeadIsCall DEF TypeInv
<1>2. /\ \A m, c : Called(NodeCall(m, c)) => Called(NodeCall(m, c))'
      /\ \A n \in Leaf : Called(LeafCall(n, TRUE)) => Called(LeafCall(n, TRUE))'
      /\ Called(ExpCall) => Called(ExpCall)'
  BY <1>1
<1>3. \A n \in Leaf : svc'[Exp[n].svc].hard = svc[Exp[n].svc].hard
  OBVIOUS
<1> QED BY <1>2, <1>3, ExprFrame DEF ExpressionInv

\* The step of the KPI of the expression.
LEMMA ExpUpdateExpr ==
  ASSUME TypeInv, stack # <<>>, ExpUpdate, Head(stack) = ExpCall, ExpressionInv
  PROVE  ExpressionInv'
<1> DEFINE state == IF Known[Root] \/ ~exp.event THEN ExpState ELSE exp.state
           S == IF state # exp.state THEN {BaCall(EKpi)} ELSE {}
<1>1. exp' = [state |-> state, event |-> TRUE] /\ Pushed(S) /\ StackType
  BY ExpUpdateType DEF TypeInv
<1>2. UNCHANGED <<svc, leaf, oper>>
  BY DEF ExpUpdate
<1>3. \A d : Called(d) => d = Head(stack) \/ Called(d)'
  <2> HIDE DEF S
  <2> QED BY <1>1, HeadIsCall
<1>4. /\ \A m, c : Called(NodeCall(m, c)) => Called(NodeCall(m, c))'
      /\ \A n \in Leaf : Called(LeafCall(n, TRUE)) => Called(LeafCall(n, TRUE))'
  BY <1>3, CallsDiffer
<1>5. ExprInv'
  <2>1. \A n \in Leaf : svc'[Exp[n].svc].hard = svc[Exp[n].svc].hard
    BY <1>2
  <2> QED BY <1>2, <1>4, <2>1, ExprFrame DEF ExpressionInv
<1>6. ExpInv'
  <2>1. Known' = Known /\ Value' = Value
    BY <1>2 DEF Known, Value
  <2>2. Known[Root]' => Known[Root]
    BY <2>1
  <2>3. Known[Root] => exp'.state = ExpState
    BY <1>1
  <2>4. ExpState' = ExpState
    BY <2>1 DEF ExpState, CRITICAL, OK
  <2> QED BY <2>2, <2>3, <2>4 DEF ExpInv
<1> QED BY <1>5, <1>6 DEF ExpressionInv

\* A propagation that starts: an event of a service reaches its leaves.
LEMMA StartExpr ==
  ASSUME TypeInv, stack = <<>>, UNCHANGED <<leaf, oper, exp>>,
         \A n \in Leaf : \/ svc'[Exp[n].svc].hard = svc[Exp[n].svc].hard
                         \/ Called(LeafCall(n, TRUE))',
         ExpressionInv
  PROVE  ExpressionInv'
<1>1. \A c : ~Called(c)
  BY DEF Called, ToSet
<1> QED BY <1>1, ExprFrame DEF ExpressionInv

\* Every step keeps the invariant of the expression.
LEMMA NextExpr ==
  ASSUME TypeInv, [Next]_vars, ExpressionInv
  PROVE  ExpressionInv'
<1>1. CASE Call
  <2>1. stack # <<>>
    BY <1>1, CallCases
  <2>2. ASSUME NEW k \in SKpi, Head(stack) = StatusCall(k), KpiStatus(k) PROVE ExpressionInv'
    <3>1. Pushed(IF kpi[k].hard # svc[k.src].hard THEN {BaCall(k)} ELSE {})
      BY <2>1, <2>2, KpiStatusType
    <3>2. UNCHANGED <<svc, leaf, oper, exp>>
      BY <2>2 DEF KpiStatus
    <3> QED BY <2>1, <2>2, <3>1, <3>2, CallsDiffer, OtherCallExpr
  <2>3. ASSUME NEW k \in SKpi, NEW e \in BOOLEAN, NEW i \in Id[k.src],
               Head(stack) = DowntimeCall(k, i, e), KpiDowntime(k, i, e)
        PROVE  ExpressionInv'
    <3> DEFINE ids == IF e THEN kpi[k].ids \ {i} ELSE kpi[k].ids \union {i}
               S == IF kpi[k].downtimed # (ids # {}) THEN {BaCall(k)} ELSE {}
    <3>1. Pushed(S)
      BY <2>1, <2>3, KpiDowntimeType
    <3>2. UNCHANGED <<svc, leaf, oper, exp>>
      BY <2>3 DEF KpiDowntime
    <3> HIDE DEF S
    <3> QED BY <2>1, <2>3, <3>1, <3>2, CallsDiffer, OtherCallExpr
  <2>4. ASSUME NEW n \in Leaf, NEW s \in BOOLEAN, Head(stack) = LeafCall(n, s), LeafUpdate(n, s)
        PROVE  ExpressionInv'
    BY <2>1, <2>4, LeafUpdateExpr
  <2>5. ASSUME NEW n \in Node \ Leaf, NEW m \in {Exp[n].l, Exp[n].r},
               Head(stack) = NodeCall(n, m), NodeUpdate(n, m)
        PROVE  ExpressionInv'
    BY <2>1, <2>5, NodeUpdateExpr
  <2>6. ASSUME Head(stack) = ExpCall, ExpUpdate PROVE ExpressionInv'
    BY <2>1, <2>6, ExpUpdateExpr
  <2>7. ASSUME NEW k \in Kpi, Head(stack) = BaCall(k), BaUpdate(k) PROVE ExpressionInv'
    <3>1. PICK S : Pushed(S)
      BY <2>1, <2>7, BaUpdateDoes DEF BaDid
    <3>2. UNCHANGED <<svc, leaf, oper, exp>>
      BY <2>7 DEF BaUpdate
    <3> QED BY <2>1, <2>7, <3>1, <3>2, CallsDiffer, OtherCallExpr
  <2> QED BY <1>1, <2>2, <2>3, <2>4, <2>5, <2>6, <2>7, CallCases
<1>2. ASSUME NEW s \in Service, NEW h \in Hard[s], Status(s, h) PROVE ExpressionInv'
  <2>1. Started({LeafCall(n, TRUE) : n \in Leaves(s)} \cup {StatusCall(k) : k \in Listeners(s)})
    BY <1>2, StatusType
  <2>2. \A n \in Leaves(s) : Called(LeafCall(n, TRUE))'
    BY <2>1 DEF Started, Gathers, Called
  <2>3. stack = <<>> /\ UNCHANGED <<leaf, oper, exp>> /\ svc' = [svc EXCEPT ![s].hard = h]
    BY <1>2 DEF Status
  <2>4. \A n \in Leaf : \/ svc'[Exp[n].svc].hard = svc[Exp[n].svc].hard
                        \/ Called(LeafCall(n, TRUE))'
    <3>1. \A n \in Leaf : Exp[n].svc \in Service
      BY ExpAssumption DEF Leaf
    <3>2. \A t \in Service : t # s => svc'[t].hard = svc[t].hard
      BY <2>3 DEF TypeInv, SvcType
    <3> QED BY <2>2, <3>1, <3>2 DEF Leaves
  <2> QED BY <2>3, <2>4, StartExpr
<1>3. ASSUME NEW s \in Service, NEW e \in BOOLEAN, NEW i \in Id[s], Downtime(s, i, e)
      PROVE  ExpressionInv'
  <2>1. /\ stack = <<>> /\ UNCHANGED <<leaf, oper, exp>>
        /\ svc' = [svc EXCEPT ![s].downtimes = IF e THEN @ \ {i} ELSE @ \union {i}]
    BY <1>3 DEF Downtime
  <2>2. \A t \in Service : svc'[t].hard = svc[t].hard
    BY <2>1 DEF TypeInv, SvcType
  <2>3. \A n \in Leaf : Exp[n].svc \in Service
    BY ExpAssumption DEF Leaf
  <2> QED BY <2>1, <2>2, <2>3, StartExpr
<1>4. ASSUME NEW b \in BA, OwnDowntime(b) PROVE ExpressionInv'
  <2>1. stack = <<>> /\ UNCHANGED <<leaf, oper, exp, svc>>
    BY <1>4 DEF OwnDowntime
  <2> QED BY <2>1, StartExpr
<1>5. ASSUME NEW b \in BA, Deliver(b) PROVE ExpressionInv'
  <2>1. stack = <<>> /\ UNCHANGED <<leaf, oper, exp, svc>>
    BY <1>5 DEF Deliver
  <2> QED BY <2>1, StartExpr
<1>6. CASE UNCHANGED vars
  <2>1. UNCHANGED <<leaf, oper, exp, svc, stack>>
    BY <1>6 DEF vars
  <2>2. \A c : Called(c)' <=> Called(c)
    BY <2>1 DEF Called
  <2> QED BY <2>1, <2>2, ExprFrame DEF ExpressionInv
<1> QED BY <1>1, <1>2, <1>3, <1>4, <1>5, <1>6, BamAssumption DEF Next

LEMMA InitExpr ==
  ASSUME Init
  PROVE  ExpressionInv
<1>1. \A n \in Node : ~Known[n]
  <2> DEFINE S == {n \in Node : ~Known[n]}
  <2>1. ASSUME NEW n \in Node, \A m \in Node : m < n => m \in S PROVE n \in S
    <3>1. CASE n \in Leaf
      <4>1. Known[n] = leaf[n].known
        BY <3>1, KnownUnfold, NodeFacts DEF Knows
      <4> QED BY <3>1, <4>1 DEF Init
    <3>2. CASE n \in Binary
      <4>1. Known[n] = oper[n].known
        BY <3>2, KnownUnfold, NodeFacts DEF Knows
      <4> QED BY <3>2, <4>1 DEF Init
    <3>3. CASE Exp[n].op = "not"
      <4>1. n \notin Leaf /\ Exp[n].l \in Node /\ Exp[n].l < n
        BY <3>3, NodeFacts
      <4>2. Known[n] = Known[Exp[n].l]
        BY <3>3, <4>1, KnownUnfold DEF Knows
      <4> QED BY <2>1, <4>1, <4>2
    <3> QED BY <3>1, <3>2, <3>3, NodeFacts
  <2>2. Node \subseteq Nat
    BY BamAssumption
  <2> HIDE DEF S
  <2>3. \A n \in Node : n \in S
    BY <2>1, <2>2, SetInduction
  <2> QED BY <2>3 DEF S
<1>2. ASSUME NEW m \in Binary PROVE OperInv(m)
  <2>1. m \in Node \ Leaf /\ Exp[m].l \in Node /\ Exp[m].r \in Node
    BY NodeFacts
  <2>2. ~Known[Exp[m].l] /\ ~Known[Exp[m].r]
    BY <1>1, <2>1
  <2>3. ~oper[m].known
    BY DEF Init
  <2> QED BY <2>2, <2>3 DEF OperInv, Decides
<1>3. \A n \in Leaf : LeafInv(n)
  BY DEF Init, LeafInv
<1>4. ExpInv
  BY <1>1, NodeFacts DEF ExpInv
<1> QED BY <1>2, <1>3, <1>4 DEF ExpressionInv, ExprInv

\* With an empty stack nothing is about to be told.
LEMMA NeverSoon ==
  ASSUME \A c : ~Called(c)
  PROVE  \A n \in Node : ~Soon[n]
<1> DEFINE S == {n \in Node : ~Soon[n]}
<1>1. ASSUME NEW n \in Node, \A m \in Node : m < n => m \in S PROVE n \in S
  <2>1. Soon[n] = (Exp[n].op = "not" /\ (Called(NodeCall(n, Exp[n].l)) \/ Soon[Exp[n].l]))
    BY SoonUnfold DEF Soons
  <2>2. Exp[n].op = "not" => Exp[n].l \in S
    BY <1>1, NotSame
  <2> QED BY <2>1, <2>2
<1>2. Node \subseteq Nat
  BY BamAssumption
<1> HIDE DEF S
<1>3. \A n \in Node : n \in S
  BY <1>1, <1>2, SetInduction
<1> QED BY <1>3 DEF S

\* Between two propagations every operator agrees with the evaluation.
LEMMA ExpressionQuiet ==
  ASSUME TypeInv, ExpressionInv
  PROVE  ExpressionExact
<1> SUFFICES ASSUME stack = <<>>
             PROVE  \A n \in Node : /\ Known[n] <=> Eval[n] # "?"
                                    /\ Known[n] => ((Value[n] # 0) <=> Eval[n] = "T")
  BY DEF ExpressionExact
<1>1. \A c : ~Called(c)
  BY DEF Called, ToSet
<1>2. \A n \in Node : ~Soon[n]
  BY <1>1, NeverSoon
<1> DEFINE Right(n) == /\ Eval[n] \in {"T", "F", "?"}
                       /\ Known[n] <=> Eval[n] # "?"
                       /\ Known[n] => ((Value[n] # 0) <=> Eval[n] = "T")
           S == {n \in Node : Right(n)}
<1>3. ASSUME NEW n \in Node, \A m \in Node : m < n => m \in S PROVE Right(n)
  <2>1. CASE n \in Leaf
    <3>1. Exp[n].op # "not" /\ Exp[n].svc \in Service
      BY <2>1, NodeFacts, ExpAssumption DEF Leaf
    <3>2. Known[n] = leaf[n].known /\ Value[n] = leaf[n].hard
      BY <2>1, <3>1, KnownUnfold, ValueUnfold DEF Knows, Valued
    <3>3. Eval[n] = IF leaf[n].known THEN (IF svc[Exp[n].svc].hard = OK THEN "F" ELSE "T") ELSE "?"
      BY <2>1, <3>1, EvalUnfold DEF Evals, Leaf
    <3>4. leaf[n].known => leaf[n].hard = svc[Exp[n].svc].hard
      BY <1>1, <2>1 DEF ExpressionInv, ExprInv, LeafInv
    <3> QED BY <3>2, <3>3, <3>4 DEF OK
  <2>2. CASE n \in Binary
    <3> DEFINE l == Exp[n].l
               r == Exp[n].r
    <3>1. n \notin Leaf /\ Exp[n].op # "not" /\ Exp[n].op \in {"and", "or"}
      BY <2>2, NodeFacts DEF Binary
    <3>2. l \in Node /\ r \in Node /\ l < n /\ r < n
      BY <3>1, NodeFacts
    <3>3. Right(l) /\ Right(r)
      BY <1>3, <3>2
    <3>4. Known[n] = oper[n].known /\ Value[n] = IF oper[n].value THEN 1 ELSE 0
      BY <3>1, KnownUnfold, ValueUnfold DEF Knows, Valued
    <3>5. Eval[n] = IF Exp[n].op = "and"
                      THEN IF "F" \in {Eval[l], Eval[r]} THEN "F"
                           ELSE IF "?" \in {Eval[l], Eval[r]} THEN "?" ELSE "T"
                      ELSE IF "T" \in {Eval[l], Eval[r]} THEN "T"
                           ELSE IF "?" \in {Eval[l], Eval[r]} THEN "?" ELSE "F"
      BY <3>1, EvalUnfold DEF Evals
    <3>6. ~Pending(n, l) /\ ~Pending(n, r)
      BY <1>1, <1>2, <3>2 DEF Pending
    <3>7. OperInv(n)
      BY <2>2 DEF ExpressionInv, ExprInv
    <3> HIDE DEF l, r
    <3>8. /\ ~oper[n].known => /\ ~Decides(n, l) /\ ~Decides(n, r)
                               /\ ~Known[l] \/ ~Known[r]
          /\ oper[n].known /\ (oper[n].value <=> Or(n)) => Decides(n, l) \/ Decides(n, r)
          /\ oper[n].known /\ ~(oper[n].value <=> Or(n)) =>
               Known[l] /\ ~Decides(n, l) /\ Known[r] /\ ~Decides(n, r)
      BY <3>6, <3>7 DEF OperInv, l, r
    <3>9. Or(n) <=> Exp[n].op = "or"
      BY DEF Or
    <3>10. CASE Exp[n].op = "or"
      BY <3>1, <3>3, <3>4, <3>5, <3>8, <3>9, <3>10 DEF Decides
    <3>11. CASE Exp[n].op = "and"
      BY <3>1, <3>3, <3>4, <3>5, <3>8, <3>9, <3>11 DEF Decides
    <3> QED BY <3>1, <3>10, <3>11
  <2>3. CASE Exp[n].op = "not"
    <3> DEFINE d == Exp[n].l
    <3>1. n \notin Leaf /\ d \in Node /\ d < n
      BY <2>3, NodeFacts
    <3>2. Right(d)
      BY <1>3, <3>1
    <3>3. Known[n] = Known[d] /\ Value[n] = IF Value[d] = 0 THEN 1 ELSE 0
      BY <2>3, <3>1, KnownUnfold, ValueUnfold DEF Knows, Valued
    <3>4. Eval[n] = CASE Eval[d] = "T" -> "F" [] Eval[d] = "F" -> "T" [] OTHER -> "?"
      BY <2>3, <3>1, EvalUnfold DEF Evals
    <3> HIDE DEF d
    <3> QED BY <3>2, <3>3, <3>4
  <2> QED BY <2>1, <2>2, <2>3, NodeFacts
<1>4. Node \subseteq Nat
  BY BamAssumption
<1>5. \A n \in Node : (\A m \in Node : m < n => m \in S) => n \in S
  BY <1>3
<1> HIDE DEF S
<1>6. \A n \in Node : n \in S
  BY <1>4, <1>5, SetInduction
<1> QED BY <1>6 DEF S

\* Between two propagations the operators of the expression know what a
\* three-valued evaluation of the services knows, and have its values: no
\* bool_and, bool_or or bool_not is left behind, in any expression.
THEOREM ExpressionCorrect == Spec => []ExpressionExact
<1>1. Init => TypeInv /\ ExpressionInv
  BY InitType, InitExpr
<1>2. TypeInv /\ ExpressionInv /\ [Next]_vars => (TypeInv /\ ExpressionInv)'
  BY NextType, NextExpr
<1>3. TypeInv /\ ExpressionInv => ExpressionExact
  BY ExpressionQuiet
<1> QED BY <1>1, <1>2, <1>3, PTL DEF Spec

----------------------------------------------------------------------------
(* The business activities *)

\* A BA whose service KPIs it has been told of shows the state that its
\* impacts give.
LEMMA HardIsBase ==
  ASSUME Regular, TypeInv, NEW b \in BA,
         \A k \in KpisOf(b) : k.type = "service" => ImpactInv(b, k) /\ ~Called(BaCall(k))
  PROVE  StateHard(b) = Base(b)
<1>1. config[b] \in [kind : Kinds, dt : Behaviours] /\ config \in Configs
  BY BamAssumption DEF TypeInv
<1>2. CASE /\ config[b].kind \in {"worst", "best"} /\ config[b].dt = "ignore_kpi"
           /\ KpisOf(b) # {} /\ \A k \in KpisOf(b) : KpiDown(k)
  <2>1. config[b].kind = "worst" /\ KpisOf(b) \subseteq SKpi
    BY <1>1, <1>2 DEF Regular
  <2>2. \A k \in KpisOf(b) : ba[b].impacts[k].down
    BY <1>2, <2>1, KpiFacts DEF ImpactInv
  <2>3. ba[b].impacts \in [KpisOf(b) -> Impact] /\ ba[b].agg = Applied(b, ba[b].impacts)
    BY DEF TypeInv, BaType
  <2> DEFINE impacts == ba[b].impacts
             counted == {k \in DOMAIN impacts : ~Ignored(b, impacts[k])}
             states == {impacts[k].state : k \in counted}
  <2>4. counted = {}
    BY <1>2, <2>2, <2>3 DEF Ignored
  <2>5. states \union {OK} = {OK}
    BY <2>4
  <2>6. Applied(b, impacts) = Worst(states \union {OK})
    BY <2>1 DEF Applied
  <2> HIDE DEF impacts, states
  <2>7. Worst({OK}) = OK
    <3>1. {OK} \subseteq State /\ {OK} # {}
      BY DEF State, OK, UNKNOWN
    <3> HIDE DEF State
    <3> QED BY <3>1, WorstBest
  <2>8. ba[b].agg = OK
    BY <2>3, <2>5, <2>6, <2>7 DEF impacts
  <2> QED BY <1>2, <2>1, <2>8 DEF StateHard, StateOf, Base, Rating
<1>3. CASE ~(/\ config[b].kind \in {"worst", "best"} /\ config[b].dt = "ignore_kpi"
             /\ KpisOf(b) # {} /\ \A k \in KpisOf(b) : KpiDown(k))
  BY <1>3 DEF StateHard, StateOf, Base
<1> QED BY <1>2, <1>3

\* Calls to a BA about one of its services.
AboutService(c) == c.to = "ba" /\ c.kpi.type = "service"
NotService(S) == \A c \in S : ~AboutService(c)

LEMMA TailNotService ==
  ASSUME StackType, stack # <<>>, AtOnce
  PROVE  NotService(Rest)
<1> SUFFICES ASSUME NEW c \in Rest PROVE ~AboutService(c)
  BY DEF NotService
<1>1. stack \in Seq(ToSet(stack)) /\ Tail(stack) \in Seq(ToSet(stack))
  BY DEF StackType
<1>2. PICK i \in 1 .. Len(Tail(stack)) : c = Tail(stack)[i]
  BY <1>1 DEF Rest, ToSet
<1>3. c = stack[i + 1] /\ i + 1 \in DOMAIN stack /\ i + 1 # 1
  BY <1>1, <1>2
<1> QED BY <1>3 DEF AtOnce, AboutService

\* A call to a BA about a service KPI is made before anything else is.
LEMMA AtOnceKept ==
  ASSUME StackType, stack # <<>>, AtOnce, NEW S, Pushed(S), Cardinality(S) = 1 \/ NotService(S)
  PROVE  AtOnce'
<1> SUFFICES ASSUME NEW i \in DOMAIN stack', AboutService(stack'[i]) PROVE i = 1
  BY DEF AtOnce, AboutService
<1>1. stack'[i] \in Rest \/ (stack'[i] \in S /\ i <= Cardinality(S))
  BY DEF Pushed, Replaces, Rest
<1>2. stack'[i] \in S /\ i <= Cardinality(S)
  BY <1>1, TailNotService DEF NotService
<1>3. Cardinality(S) = 1
  BY <1>2 DEF NotService
<1>4. i \in Nat /\ i >= 1
  BY DEF Pushed, Replaces
<1> QED BY <1>2, <1>3, <1>4

LEMMA AtOnceStart ==
  ASSUME NEW S, Started(S), NotService(S)
  PROVE  AtOnce'
<1> SUFFICES ASSUME NEW i \in DOMAIN stack', AboutService(stack'[i]) PROVE FALSE
  BY DEF AtOnce, AboutService
<1>1. stack'[i] \in S
  BY DEF Started, Gathers, ToSet
<1> QED BY <1>1 DEF NotService

\* The source of a KPI, as its BA sees it, has not changed.
SourceSame(k) ==
  /\ k.type = "service" => kpi'[k].hard = kpi[k].hard /\ kpi'[k].downtimed = kpi[k].downtimed
  /\ k.type = "ba" => ba'[k.src].agg = ba[k.src].agg /\ ba'[k.src].down = ba[k.src].down
  /\ k.type = "exp" => exp'.state = exp.state

\* A KPI whose source has not moved has the state and downtime it had.
LEMMA SourceKept ==
  ASSUME UNCHANGED config, NEW k \in Kpi, SourceSame(k)
  PROVE  BaseOf(k)' = BaseOf(k) /\ (k.type # "exp" => KpiDown(k)' = KpiDown(k))
<1>1. CASE k.type = "service"
  BY <1>1 DEF SourceSame, BaseOf, KpiState, KpiDown
<1>2. CASE k.type = "ba"
  <2>1. Base(k.src)' = Base(k.src)
    BY <1>2 DEF Base, Rating, SourceSame, OK, WARNING, CRITICAL
  <2> QED BY <1>2, <2>1 DEF SourceSame, BaseOf, KpiDown
<1>3. CASE k.type = "exp"
  BY <1>3 DEF SourceSame, BaseOf, KpiState
<1> QED BY <1>1, <1>2, <1>3, KpiFacts

\* The cached impact stays right if the KPI has not moved.
LEMMA ImpactKept ==
  ASSUME UNCHANGED config, NEW b, NEW k \in Kpi, ImpactInv(b, k),
         ba'[b].impacts[k] = ba[b].impacts[k], Called(BaCall(k)) => Called(BaCall(k))',
         Called(BaCall(k))' \/ SourceSame(k)
  PROVE  ImpactInv(b, k)'
  BY SourceKept DEF ImpactInv

\* A BA that a step does not update keeps its part of the invariant.
LEMMA BaKept ==
  ASSUME UNCHANGED config, NEW b, ba'[b] = ba[b], InheritInv(b),
         \A k \in KpisOf(b) : Called(BaCall(k)) => Called(BaCall(k))'
  PROVE  InheritInv(b)'
<1>1. Base(b)' = Base(b)
  BY DEF Base, Rating, OK, WARNING, CRITICAL
<1>2. Covered(b)' = Covered(b)
  BY <1>1 DEF Covered, OK
<1> QED BY <1>2 DEF InheritInv

LEMMA FeedbackKept ==
  ASSUME NEW b, UNCHANGED config, ba'[b].inherited = ba[b].inherited, ba'[b].down = ba[b].down,
         own'[b] = own[b], feedback'[b] = feedback[b], FeedbackInv(b)
  PROVE  FeedbackInv(b)'
<1>1. Final(b)' = Final(b)
  BY DEF Final
<1> QED BY <1>1 DEF FeedbackInv

LEMMA SvcKept ==
  ASSUME NEW k, SvcInv(k), svc'[k.src] = svc[k.src], kpi'[k] = kpi[k],
         Called(StatusCall(k)) => Called(StatusCall(k))',
         \A i, e : Called(DowntimeCall(k, i, e))' <=> Called(DowntimeCall(k, i, e))
  PROVE  SvcInv(k)'
  BY DEF SvcInv, Ids

\* A call that is not to a BA: the KPI that it changes calls its BA at once.
LEMMA KpiCallBa ==
  ASSUME TypeInv, BaInv, stack # <<>>, NEW S, Pushed(S),
         UNCHANGED <<config, svc, ba, own, feedback>>,
         \A k : Head(stack) # BaCall(k),
         \A k \in SKpi : SvcInv(k)',
         \A k \in Kpi : BaCall(k) \in S \/ SourceSame(k),
         Cardinality(S) = 1 \/ NotService(S)
  PROVE  BaInv'
<1>1. StackType
  BY DEF TypeInv
<1>2. /\ \A c : Called(c) => c = Head(stack) \/ Called(c)'
      /\ \A c \in S : Called(c)'
  BY <1>1, HeadIsCall
<1>3. \A k : Called(BaCall(k)) => Called(BaCall(k))'
  BY <1>2
<1>4. ASSUME NEW b \in BA, NEW k \in KpisOf(b) PROVE ImpactInv(b, k)'
  <2>1. k \in Kpi /\ ImpactInv(b, k)
    BY KpiFacts DEF BaInv
  <2> QED BY <1>2, <1>3, <2>1, ImpactKept
<1>5. ASSUME NEW b \in BA PROVE InheritInv(b)' /\ FeedbackInv(b)'
  <2>1. InheritInv(b) /\ FeedbackInv(b)
    BY DEF BaInv
  <2> QED BY <1>3, <2>1, BaKept, FeedbackKept
<1>6. AtOnce'
  BY <1>1, AtOnceKept DEF BaInv
<1> QED BY <1>4, <1>5, <1>6 DEF BaInv

LEMMA CallsDifferToo ==
  /\ \A k, j : StatusCall(k) = StatusCall(j) => k = j
  /\ \A k, j : BaCall(k) = BaCall(j) => k = j
  /\ \A k, i, e, j, h, f : DowntimeCall(k, i, e) = DowntimeCall(j, h, f) => k = j /\ i = h /\ e = f
  /\ \A k, j : StatusCall(k) # BaCall(j)
  /\ \A k, j, i, e : DowntimeCall(k, i, e) # StatusCall(j) /\ DowntimeCall(k, i, e) # BaCall(j)
BY DEF StatusCall, BaCall, DowntimeCall

\* Calls that are not to a service KPI leave the service KPIs alone.
LEMMA OtherSvc ==
  ASSUME TypeInv, BaInv, stack # <<>>, NEW S, Pushed(S), UNCHANGED <<svc, kpi>>,
         \A k : Head(stack) # StatusCall(k),
         \A k, i, e : Head(stack) # DowntimeCall(k, i, e) /\ DowntimeCall(k, i, e) \notin S
  PROVE  \A k \in SKpi : SvcInv(k)'
<1>1. StackType
  BY DEF TypeInv
<1>2. /\ \A c : Called(c) => c = Head(stack) \/ Called(c)'
      /\ \A c : Called(c)' => c \in S \/ Called(c)
  BY <1>1, HeadIsCall
<1> TAKE k \in SKpi
<1>3. SvcInv(k)
  BY DEF BaInv
<1>4. Called(StatusCall(k)) => Called(StatusCall(k))'
  BY <1>2
<1>5. \A i, e : Called(DowntimeCall(k, i, e))' <=> Called(DowntimeCall(k, i, e))
  BY <1>2
<1> QED BY <1>3, <1>4, <1>5, SvcKept

LEMMA ParentsNotService ==
  /\ \A n : \A c \in NodeParents(n) : ~AboutService(c) /\ \A k, i, e : c # DowntimeCall(k, i, e)
  /\ \A b : \A c \in BaParents(b) : ~AboutService(c) /\ \A k, i, e : c # DowntimeCall(k, i, e)
<1>1. ASSUME NEW n, NEW c \in NodeParents(n) PROVE c.to \in {"exp", "node"}
  BY DEF NodeParents
<1>2. ASSUME NEW b, NEW c \in BaParents(b) PROVE c.to = "ba" /\ c.kpi.type = "ba"
  <2>1. PICK k \in BKpi : c = [to |-> "ba", kpi |-> k]
    BY DEF BaParents
  <2> QED BY <2>1, KpiFacts
<1>3. \A k, i, e : DowntimeCall(k, i, e).to = "downtime"
  BY DEF DowntimeCall
<1> QED BY <1>1, <1>2, <1>3 DEF AboutService

\* The steps of the KPIs, of the expression and of the BAs, one by one.
LEMMA KpiStatusBa ==
  ASSUME TypeInv, BaInv, stack # <<>>, NEW k \in SKpi, KpiStatus(k), Head(stack) = StatusCall(k)
  PROVE  BaInv'
<1> DEFINE S == IF kpi[k].hard # svc[k.src].hard THEN {BaCall(k)} ELSE {}
<1>1. Pushed(S) /\ StackType
  BY KpiStatusType DEF TypeInv
<1>2. UNCHANGED <<config, svc, ba, own, feedback, exp>>
  BY DEF KpiStatus
<1>3. /\ kpi'[k] = [kpi[k] EXCEPT !.hard = svc[k.src].hard]
      /\ \A j \in SKpi : j # k => kpi'[j] = kpi[j]
      /\ kpi[k] \in [hard : State, ids : SUBSET Ids, downtimed : BOOLEAN]
  BY DEF KpiStatus, TypeInv, KpiType
<1>4. kpi'[k].hard = svc[k.src].hard /\ kpi'[k].ids = kpi[k].ids /\ kpi'[k].downtimed = kpi[k].downtimed
  <2> HIDE DEF State
  <2> QED BY <1>3
<1>5. Cardinality(S) = 1 \/ NotService(S)
  BY ParentsFinite DEF NotService
<1>6. ASSUME NEW j \in Kpi PROVE BaCall(j) \in S \/ SourceSame(j)
  <2>1. CASE j = k
    <3>1. k.type = "service"
      BY KpiFacts
    <3> QED BY <1>4, <2>1, <3>1 DEF SourceSame
  <2>2. CASE j # k
    <3>1. j.type = "service" => kpi'[j] = kpi[j]
      BY <1>3, <2>2, KpiFacts
    <3> QED BY <1>2, <3>1 DEF SourceSame
  <2> QED BY <2>1, <2>2
<1>7. \A j, i, e : DowntimeCall(j, i, e) \notin S
  BY CallsDifferToo
<1> HIDE DEF S
<1>8. /\ \A c : Called(c) => c = Head(stack) \/ Called(c)'
      /\ \A c : Called(c)' => c \in S \/ Called(c)
  BY <1>1, HeadIsCall
<1>9. ASSUME NEW j \in SKpi PROVE SvcInv(j)'
  <2>1. SvcInv(j)
    BY DEF BaInv
  <2>2. \A i, e : Called(DowntimeCall(j, i, e))' <=> Called(DowntimeCall(j, i, e))
    BY <1>7, <1>8, CallsDifferToo
  <2>3. CASE j = k
    BY <1>2, <1>4, <2>1, <2>2, <2>3 DEF SvcInv
  <2>4. CASE j # k
    <3>1. Called(StatusCall(j)) => Called(StatusCall(j))'
      BY <1>8, <2>4, CallsDifferToo
    <3>2. kpi'[j] = kpi[j]
      BY <1>3, <2>4
    <3> QED BY <1>2, <2>1, <2>2, <3>1, <3>2, SvcKept
  <2> QED BY <2>3, <2>4
<1>10. \A j : Head(stack) # BaCall(j)
  BY CallsDifferToo
<1> QED BY <1>1, <1>2, <1>5, <1>6, <1>9, <1>10, KpiCallBa

LEMMA KpiDowntimeBa ==
  ASSUME TypeInv, BaInv, stack # <<>>, NEW k \in SKpi, NEW e \in BOOLEAN, NEW i \in Id[k.src],
         KpiDowntime(k, i, e), Head(stack) = DowntimeCall(k, i, e)
  PROVE  BaInv'
<1> DEFINE ids == IF e THEN kpi[k].ids \ {i} ELSE kpi[k].ids \union {i}
           S == IF kpi[k].downtimed # (ids # {}) THEN {BaCall(k)} ELSE {}
<1>1. Pushed(S) /\ StackType
  BY KpiDowntimeType DEF TypeInv
<1>2. UNCHANGED <<config, svc, ba, own, feedback, exp>>
  BY DEF KpiDowntime
<1>3. kpi' = [kpi EXCEPT ![k] = [hard |-> kpi[k].hard, ids |-> ids, downtimed |-> ids # {}]]
  BY DEF KpiDowntime
<1>4. /\ kpi'[k].hard = kpi[k].hard /\ kpi'[k].ids = ids /\ kpi'[k].downtimed = (ids # {})
      /\ \A j \in SKpi : j # k => kpi'[j] = kpi[j]
  <2> HIDE DEF ids
  <2> QED BY <1>3 DEF TypeInv, KpiType
<1>5. Cardinality(S) = 1 \/ NotService(S)
  <2> HIDE DEF ids
  <2> QED BY ParentsFinite DEF NotService
<1>6. ASSUME NEW j \in Kpi PROVE BaCall(j) \in S \/ SourceSame(j)
  <2> HIDE DEF ids
  <2>1. CASE j = k
    <3>1. k.type = "service"
      BY KpiFacts
    <3> QED BY <1>4, <2>1, <3>1 DEF SourceSame
  <2>2. CASE j # k
    <3>1. j.type = "service" => kpi'[j] = kpi[j]
      BY <1>4, <2>2, KpiFacts
    <3> QED BY <1>2, <3>1 DEF SourceSame
  <2> QED BY <2>1, <2>2
<1>7. \A j, h, f : DowntimeCall(j, h, f) \notin S
  <2> HIDE DEF ids
  <2> QED BY CallsDifferToo
<1> HIDE DEF S
<1>8. /\ \A c : Called(c) => c = Head(stack) \/ Called(c)'
      /\ \A c : Called(c)' => c \in S \/ Called(c)
      /\ Called(Head(stack))
  BY <1>1, HeadIsCall
<1>9. ASSUME NEW j \in SKpi PROVE SvcInv(j)'
  <2>1. SvcInv(j)
    BY DEF BaInv
  <2>2. Called(StatusCall(j)) => Called(StatusCall(j))'
    BY <1>8, CallsDifferToo
  <2>3. CASE j = k
    <3>1. i \in Ids
      BY KpiFacts DEF Ids
    <3>2. svc[k.src].downtimes = ids
      <4>1. Called(DowntimeCall(k, i, e))
        BY <1>8
      <4>2. \A h \in Ids, f \in BOOLEAN : Called(DowntimeCall(k, h, f)) =>
               svc[k.src].downtimes = IF f THEN kpi[k].ids \ {h} ELSE kpi[k].ids \union {h}
        BY <2>1, <2>3 DEF SvcInv
      <4> QED BY <3>1, <4>1, <4>2
    <3>3. \A h \in Ids, f \in BOOLEAN : Called(DowntimeCall(k, h, f))' =>
             svc[k.src].downtimes = IF f THEN kpi[k].ids \ {h} ELSE kpi[k].ids \union {h}
      BY <1>7, <1>8, <2>1, <2>3 DEF SvcInv
    <3> HIDE DEF ids
    <3>4. \A h \in Ids, f \in BOOLEAN : Called(DowntimeCall(k, h, f))' =>
             ids = IF f THEN ids \ {h} ELSE ids \union {h}
      BY <3>2, <3>3
    <3> QED BY <1>2, <1>4, <2>1, <2>2, <2>3, <3>2, <3>4 DEF SvcInv, Ids
  <2>4. CASE j # k
    <3>1. \A h, f : Called(DowntimeCall(j, h, f))' <=> Called(DowntimeCall(j, h, f))
      BY <1>7, <1>8, <2>4, CallsDifferToo
    <3>2. kpi'[j] = kpi[j]
      BY <1>4, <2>4
    <3> QED BY <1>2, <2>1, <2>2, <3>1, <3>2, SvcKept
  <2> QED BY <2>3, <2>4
<1>10. \A j : Head(stack) # BaCall(j)
  BY CallsDifferToo
<1> HIDE DEF ids
<1> QED BY <1>1, <1>2, <1>5, <1>6, <1>9, <1>10, KpiCallBa

\* Calls to the nodes of the expression.
LEMMA NodeCallBa ==
  ASSUME TypeInv, BaInv, stack # <<>>, NEW n, NEW S, Pushed(S), S = {} \/ S = NodeParents(n),
         UNCHANGED <<config, svc, kpi, exp, ba, own, feedback>>,
         \A k : Head(stack) # StatusCall(k) /\ Head(stack) # BaCall(k),
         \A k, i, e : Head(stack) # DowntimeCall(k, i, e)
  PROVE  BaInv'
<1>1. \A k, i, e : DowntimeCall(k, i, e) \notin S
  BY ParentsNotService
<1>2. \A k \in SKpi : SvcInv(k)'
  BY <1>1, OtherSvc
<1>3. \A k \in Kpi : SourceSame(k)
  BY DEF SourceSame
<1>4. NotService(S)
  BY ParentsNotService DEF NotService
<1> QED BY <1>2, <1>3, <1>4, KpiCallBa

LEMMA ExpUpdateBa ==
  ASSUME TypeInv, BaInv, stack # <<>>, ExpUpdate, Head(stack) = ExpCall
  PROVE  BaInv'
<1> DEFINE state == IF Known[Root] \/ ~exp.event THEN ExpState ELSE exp.state
           S == IF state # exp.state THEN {BaCall(EKpi)} ELSE {}
<1>1. exp' = [state |-> state, event |-> TRUE] /\ Pushed(S)
  BY ExpUpdateType
<1>2. UNCHANGED <<config, svc, kpi, ba, own, feedback>>
  BY DEF ExpUpdate
<1> HIDE DEF state
<1>3. ASSUME NEW j \in Kpi PROVE BaCall(j) \in S \/ SourceSame(j)
  <2>1. j.type = "exp" => j = EKpi
    BY KpiFacts
  <2>2. exp'.state = state
    BY <1>1
  <2> QED BY <1>2, <2>1, <2>2 DEF SourceSame
<1>4. \A j, h, f : DowntimeCall(j, h, f) \notin S
  BY CallsDifferToo
<1>5. Cardinality(S) = 1 \/ NotService(S)
  BY ParentsFinite DEF NotService
<1> HIDE DEF S
<1>6. /\ \A k : Head(stack) # StatusCall(k) /\ Head(stack) # BaCall(k)
      /\ \A k, i, e : Head(stack) # DowntimeCall(k, i, e)
  BY CallsDiffer
<1>7. \A k \in SKpi : SvcInv(k)'
  BY <1>1, <1>2, <1>4, <1>6, OtherSvc
<1> QED BY <1>1, <1>2, <1>3, <1>5, <1>6, <1>7, KpiCallBa

\* When a BA is told of a KPI, the other BAs have been told of their services.
LEMMA OthersSettled ==
  ASSUME Regular, TypeInv, BaInv, stack # <<>>, NEW k \in Kpi, Head(stack) = BaCall(k),
         NEW c \in BA, c # k.ba
  PROVE  StateHard(c) = Base(c)
<1>1. StackType /\ AtOnce
  BY DEF TypeInv, BaInv
<1>2. ASSUME NEW j \in KpisOf(c), j.type = "service" PROVE ImpactInv(c, j) /\ ~Called(BaCall(j))
  <2>1. ImpactInv(c, j)
    BY DEF BaInv
  <2>2. BaCall(j) # Head(stack)
    <3>1. j # k
      BY DEF KpisOf
    <3> QED BY <3>1, CallsDifferToo
  <2>3. AboutService(BaCall(j))
    BY <1>2 DEF AboutService, BaCall
  <2>4. ASSUME Called(BaCall(j)) PROVE FALSE
    <3>1. PICK i \in DOMAIN stack : stack[i] = BaCall(j)
      BY <2>4 DEF Called, ToSet
    <3>2. i = 1
      BY <1>1, <2>3, <3>1 DEF AtOnce, AboutService
    <3>3. Head(stack) = stack[1]
      BY <1>1 DEF StackType
    <3> QED BY <2>2, <3>1, <3>2, <3>3
  <2> QED BY <2>1, <2>4
<1> QED BY <1>2, HardIsBase

LEMMA LastJoined ==
  ASSUME NEW s \in Seq(BOOLEAN), NEW t \in Seq(BOOLEAN), t # <<>>, NEW u, u = s \o t
  PROVE  u # <<>> /\ u[Len(u)] = t[Len(t)]
<1>1. Len(s) \in Nat /\ Len(t) \in Nat /\ Len(t) > 0 /\ Len(u) = Len(s) + Len(t)
  OBVIOUS
<1>2. u[Len(s) + Len(t)] = t[Len(t)]
  BY <1>1
<1> QED BY <1>1, <1>2

\* ba::update_from(): the BA takes the impact, its inherited downtime follows
\* from the impacts it has, and the BAs above are told if anything moved.
LEMMA BaUpdateBa ==
  ASSUME Regular, TypeInv, BaInv, stack # <<>>, NEW k \in Kpi, Head(stack) = BaCall(k),
         NEW b, NEW new, NEW upd, NEW agg, NEW inherited, NEW down,
         BaDid(b, k, new, upd, agg, inherited, down)
  PROVE  BaInv'
<1> DEFINE S == IF agg # ba[b].agg \/ down # ba[b].down THEN BaParents(b) ELSE {}
<1>1. /\ b = k.ba /\ b \in BA /\ k \in KpisOf(b)
      /\ new \in Impact /\ upd \in [KpisOf(b) -> Impact]
      /\ inherited \in BOOLEAN /\ down \in BOOLEAN
  <2>1. b = k.ba
    BY DEF BaDid
  <2> QED BY <2>1, BaUpdateType
<1>2. /\ Pushed(S) /\ StackType
      /\ UNCHANGED <<config, svc, kpi, exp, own>>
  BY DEF BaDid, TypeInv
<1>3. /\ ba'[b].impacts = upd /\ ba'[b].agg = agg /\ ba'[b].down = down /\ ba'[b].inherited = inherited
      /\ \A c \in BA : c # b => ba'[c] = ba[c]
  BY <1>1 DEF BaDid, TypeInv, BaType
<1>4. /\ upd[k] = new /\ new.state = KpiState(k) /\ new.down = KpiDown(k)
      /\ \A j \in KpisOf(b) : j # k => upd[j] = ba[b].impacts[j]
  BY <1>1 DEF BaDid, TypeInv, BaType
<1>5. /\ \A j \in BKpi : j.src = b /\ (agg # ba[b].agg \/ down # ba[b].down) => BaCall(j) \in S
      /\ NotService(S)
      /\ \A j, i, e : DowntimeCall(j, i, e) \notin S
  BY ParentsNotService DEF BaParents, BaCall, NotService
<1> HIDE DEF S
<1>6. /\ \A c : Called(c) => c = Head(stack) \/ Called(c)'
      /\ \A c \in S : Called(c)'
  BY <1>2, HeadIsCall
<1>7. \A j : j # k => (Called(BaCall(j)) => Called(BaCall(j))')
  BY <1>6, CallsDifferToo
<1>8. ASSUME NEW j \in Kpi PROVE Called(BaCall(j))' \/ SourceSame(j)
  <2>1. CASE j.type = "ba"
    <3>1. j \in BKpi /\ j.src \in BA
      BY <2>1, KpiFacts
    <3>2. CASE j.src = b
      BY <1>3, <1>5, <1>6, <2>1, <3>1, <3>2 DEF SourceSame
    <3>3. CASE j.src # b
      BY <1>3, <2>1, <3>1, <3>3 DEF SourceSame
    <3> QED BY <3>2, <3>3
  <2>2. CASE j.type # "ba"
    BY <1>2, <2>2 DEF SourceSame
  <2> QED BY <2>1, <2>2
<1>9. \A j \in KpisOf(b) : BaseOf(j) = KpiState(j)
  <2> SUFFICES ASSUME NEW j \in KpisOf(b), j.type = "ba" PROVE Base(j.src) = KpiState(j)
    BY DEF BaseOf
  <2>1. j \in Kpi
    BY KpiFacts
  <2>2. j \in BKpi /\ j.ba = b
    BY <2>1, KpiFacts DEF KpisOf
  <2>3. j.src \in BA /\ j.src # b
    BY <1>1, <2>2, KpiFacts, BamAssumption
  <2>4. StateHard(j.src) = Base(j.src)
    BY <1>1, <2>3, OthersSettled
  <2> QED BY <2>4 DEF KpiState
<1>10. ImpactInv(b, k)'
  <2>1. SourceSame(k)
    <3>1. k.type = "ba" => k.src \in BA /\ k.src # b
      BY <1>1, KpiFacts, BamAssumption
    <3> QED BY <1>2, <1>3, <3>1 DEF SourceSame
  <2>2. BaseOf(k)' = BaseOf(k) /\ (k.type # "exp" => KpiDown(k)' = KpiDown(k))
    BY <1>2, <2>1, SourceKept
  <2> QED BY <1>1, <1>3, <1>4, <1>9, <2>2 DEF ImpactInv
<1>11. ASSUME NEW c \in BA, NEW j \in KpisOf(c) PROVE ImpactInv(c, j)'
  <2>1. j \in Kpi /\ ImpactInv(c, j) /\ j.ba = c
    BY KpiFacts DEF BaInv, KpisOf
  <2>2. CASE j = k
    BY <1>1, <1>10, <2>1, <2>2
  <2>3. CASE j # k
    <3>1. ba'[c].impacts[j] = ba[c].impacts[j]
      BY <1>3, <1>4, <2>3
    <3> QED BY <1>2, <1>7, <1>8, <2>1, <2>3, <3>1, ImpactKept
  <2> QED BY <2>2, <2>3
<1>12. InheritInv(b)'
  <2> SUFFICES ASSUME config'[b].dt = "inherit", \A j \in KpisOf(b) : ~Called(BaCall(j))'
               PROVE  ba'[b].inherited = Covered(b)'
    BY DEF InheritInv
  <2>1. config[b].dt = "inherit" /\ config \in Configs
    BY <1>2 DEF TypeInv
  <2>2. b # ExpBA
    BY <2>1 DEF Regular
  <2>3. inherited = (StateOf(b, agg) # OK /\ EveryKpiInDowntime(b))
    BY <2>1 DEF BaDid, InheritedAfter
  <2>4. StateOf(b, agg) = Rating(b, agg)
    BY <2>1 DEF StateOf
  <2>5. Base(b)' = Rating(b, agg)
    BY <1>2, <1>3 DEF Base, Rating, OK, WARNING, CRITICAL
  <2>6. ASSUME NEW j \in KpisOf(b)
        PROVE  upd[j].state = KpiState(j) /\ upd[j].down = KpiDown(j) /\ (KpiOk(j) <=> KpiState(j) = OK)
    <3>1. j \in Kpi /\ j.ba = b
      BY KpiFacts DEF KpisOf
    <3>2. j.type # "exp"
      BY <2>2, <3>1, KpiFacts
    <3>3. KpiOk(j) <=> KpiState(j) = OK
      BY <3>2 DEF KpiOk
    <3>4. CASE j # k
      <4>1. ~Called(BaCall(j))
        BY <1>7, <3>4
      <4>2. ImpactInv(b, j)
        BY <1>1 DEF BaInv
      <4> QED BY <1>4, <1>9, <3>2, <3>3, <3>4, <4>1, <4>2 DEF ImpactInv
    <3> QED BY <1>4, <3>3, <3>4
  <2>7. EveryKpiInDowntime(b) <=> KpisOf(b) # {} /\ \A j \in KpisOf(b) : upd[j].state = OK \/ upd[j].down
    BY <2>6 DEF EveryKpiInDowntime
  <2>8. Covered(b)' = (/\ KpisOf(b) # {} /\ Rating(b, agg) # OK
                       /\ \A j \in KpisOf(b) : upd[j].state = OK \/ upd[j].down)
    BY <1>3, <2>5 DEF Covered, OK
  <2> HIDE DEF S
  <2> QED BY <1>3, <2>3, <2>4, <2>7, <2>8
<1>13. ASSUME NEW c \in BA PROVE InheritInv(c)'
  <2>1. CASE c = b
    BY <1>12, <2>1
  <2>2. CASE c # b
    <3>1. \A j \in KpisOf(c) : j # k
      BY <1>1, <2>2 DEF KpisOf
    <3>2. InheritInv(c) /\ ba'[c] = ba[c]
      BY <1>3, <2>2 DEF BaInv
    <3> QED BY <1>2, <1>7, <3>1, <3>2, BaKept
  <2> QED BY <2>1, <2>2
<1>14. ASSUME NEW c \in BA PROVE FeedbackInv(c)'
  <2>1. FeedbackInv(c) /\ feedback \in [BA -> Seq(BOOLEAN)]
    BY DEF BaInv, TypeInv, EventType
  <2>2. CASE c # b
    <3>1. feedback'[c] = feedback[c] /\ ba'[c] = ba[c]
      BY <1>3, <2>1, <2>2 DEF BaDid
    <3> QED BY <1>2, <2>1, <3>1, FeedbackKept
  <2>3. CASE c = b /\ inherited = ba[b].inherited
    <3>1. feedback'[c] = feedback[c] /\ down = ba[b].down
      BY <2>1, <2>3 DEF BaDid
    <3> QED BY <1>2, <1>3, <2>1, <2>3, <3>1, FeedbackKept
  <2>4. CASE c = b /\ inherited # ba[b].inherited
    <3>1. config[b].dt = "inherit"
      BY <2>4 DEF BaDid, InheritedAfter
    <3>2. Final(b)' = inherited
      BY <1>2, <1>3, <3>1 DEF Final
    <3>3. feedback[b] \in Seq(BOOLEAN)
      BY <1>1, <2>1
    <3>4. feedback'[b] = IF inherited THEN feedback[b] \o <<FALSE, TRUE>> ELSE feedback[b] \o <<FALSE>>
      BY <1>1, <2>1, <2>4 DEF BaDid
    <3>5. feedback'[b] # <<>> /\ feedback'[b][Len(feedback'[b])] = inherited
      <4>1. CASE inherited = TRUE
        <5>1. feedback'[b] = feedback[b] \o <<FALSE, TRUE>> /\ <<FALSE, TRUE>> \in Seq(BOOLEAN)
          BY <3>4, <4>1
        <5>2. <<FALSE, TRUE>> # <<>> /\ <<FALSE, TRUE>>[Len(<<FALSE, TRUE>>)] = TRUE
          OBVIOUS
        <5> QED BY <3>3, <4>1, <5>1, <5>2, LastJoined
      <4>2. CASE inherited = FALSE
        <5>1. feedback'[b] = feedback[b] \o <<FALSE>> /\ <<FALSE>> \in Seq(BOOLEAN)
          BY <3>4, <4>2
        <5>2. <<FALSE>> # <<>> /\ <<FALSE>>[Len(<<FALSE>>)] = FALSE
          OBVIOUS
        <5> QED BY <3>3, <4>2, <5>1, <5>2, LastJoined
      <4> QED BY <1>1, <4>1, <4>2
    <3> QED BY <2>4, <3>2, <3>5 DEF FeedbackInv
  <2> QED BY <2>2, <2>3, <2>4
<1>15. AtOnce'
  BY <1>2, <1>5, AtOnceKept DEF BaInv
<1>16. \A j \in SKpi : SvcInv(j)'
  <2>1. /\ \A j : Head(stack) # StatusCall(j)
        /\ \A j, i, e : Head(stack) # DowntimeCall(j, i, e)
    BY CallsDifferToo
  <2> QED BY <1>2, <1>5, <2>1, OtherSvc
<1> QED BY <1>11, <1>13, <1>14, <1>15, <1>16 DEF BaInv

\* A propagation that starts at a service.
LEMMA StartBa ==
  ASSUME TypeInv, BaInv, UNCHANGED <<config, kpi, exp, ba, own, feedback>>,
         NEW S, Started(S), NotService(S), \A c : ~Called(c), \A k \in SKpi : SvcInv(k)'
  PROVE  BaInv'
<1>1. ASSUME NEW b \in BA, NEW k \in KpisOf(b) PROVE ImpactInv(b, k)'
  <2>1. k \in Kpi /\ ImpactInv(b, k) /\ SourceSame(k)
    BY KpiFacts DEF BaInv, SourceSame
  <2> QED BY <2>1, ImpactKept
<1>2. ASSUME NEW b \in BA PROVE InheritInv(b)' /\ FeedbackInv(b)'
  <2>1. InheritInv(b) /\ FeedbackInv(b)
    BY DEF BaInv
  <2> QED BY <2>1, BaKept, FeedbackKept
<1>3. AtOnce'
  BY AtOnceStart
<1> QED BY <1>1, <1>2, <1>3 DEF BaInv

\* The events from outside, one by one.
LEMMA StatusBa ==
  ASSUME TypeInv, BaInv, NEW s \in Service, NEW h \in Hard[s], Status(s, h)
  PROVE  BaInv'
<1> DEFINE S == {LeafCall(n, TRUE) : n \in Leaves(s)} \cup {StatusCall(k) : k \in Listeners(s)}
<1>1. Started(S)
  BY StatusType
<1>2. /\ stack = <<>> /\ UNCHANGED <<config, kpi, exp, ba, own, feedback>>
      /\ svc' = [svc EXCEPT ![s].hard = h]
  BY DEF Status
<1>3. /\ NotService(S) /\ \A k, i, e : DowntimeCall(k, i, e) \notin S
      /\ \A k \in Listeners(s) : StatusCall(k) \in S
  <2>1. ASSUME NEW c \in S PROVE c.to \in {"leaf", "status"}
    BY DEF LeafCall, StatusCall
  <2>2. \A k, i, e : DowntimeCall(k, i, e).to = "downtime"
    BY DEF DowntimeCall
  <2>3. \A k \in Listeners(s) : StatusCall(k) \in S
    OBVIOUS
  <2> HIDE DEF S
  <2> QED BY <2>1, <2>2, <2>3 DEF NotService, AboutService
<1> HIDE DEF S
<1>4. \A c : ~Called(c) /\ (Called(c)' <=> c \in S)
  BY <1>1, <1>2 DEF Called, ToSet, Started, Gathers
<1>5. /\ \A t \in Service : svc'[t].downtimes = svc[t].downtimes
      /\ \A t \in Service : t # s => svc'[t].hard = svc[t].hard
  BY <1>2 DEF TypeInv, SvcType
<1>6. ASSUME NEW k \in SKpi PROVE SvcInv(k)'
  <2>1. SvcInv(k) /\ k.src \in Service
    BY KpiFacts DEF BaInv
  <2>2. kpi[k].ids = svc[k.src].downtimes /\ kpi[k].hard = svc[k.src].hard
    BY <1>4, <2>1 DEF SvcInv
  <2>3. Called(StatusCall(k))' \/ kpi'[k].hard = svc'[k.src].hard
    <3>1. k.src = s => Called(StatusCall(k))'
      BY <1>3, <1>4 DEF Listeners
    <3> QED BY <1>2, <1>5, <2>1, <2>2, <3>1
  <2>4. \A i, e : ~Called(DowntimeCall(k, i, e))'
    BY <1>3, <1>4
  <2> QED BY <1>2, <1>5, <2>1, <2>2, <2>3, <2>4 DEF SvcInv
<1> QED BY <1>1, <1>2, <1>3, <1>4, <1>6, StartBa

LEMMA DowntimeBa ==
  ASSUME TypeInv, BaInv, NEW s \in Service, NEW e \in BOOLEAN, NEW i \in Id[s], Downtime(s, i, e)
  PROVE  BaInv'
<1> DEFINE S == {DowntimeCall(k, i, e) : k \in Listeners(s)} \cup {LeafCall(n, FALSE) : n \in Leaves(s)}
<1>1. Started(S)
  BY DowntimeType
<1>2. /\ stack = <<>> /\ UNCHANGED <<config, kpi, exp, ba, own, feedback>>
      /\ svc' = [svc EXCEPT ![s].downtimes = IF e THEN @ \ {i} ELSE @ \union {i}]
  BY DEF Downtime
<1>3. NotService(S)
  BY DEF NotService, AboutService, LeafCall, DowntimeCall
<1>4. \A k, h, f : DowntimeCall(k, h, f) \in S <=> k \in Listeners(s) /\ h = i /\ f = e
  <2> SUFFICES ASSUME NEW k, NEW h, NEW f
               PROVE  DowntimeCall(k, h, f) \in S <=> k \in Listeners(s) /\ h = i /\ f = e
    OBVIOUS
  <2>1. \A n : DowntimeCall(k, h, f) # LeafCall(n, FALSE)
    BY DEF DowntimeCall, LeafCall
  <2>2. DowntimeCall(k, h, f) \in S <=> \E j \in Listeners(s) : DowntimeCall(k, h, f) = DowntimeCall(j, i, e)
    BY <2>1
  <2> HIDE DEF S
  <2> QED BY <2>2, CallsDifferToo
<1> HIDE DEF S
<1>5. \A c : ~Called(c) /\ (Called(c)' <=> c \in S)
  BY <1>1, <1>2 DEF Called, ToSet, Started, Gathers
<1>6. /\ \A t \in Service : svc'[t].hard = svc[t].hard
      /\ \A t \in Service : t # s => svc'[t].downtimes = svc[t].downtimes
      /\ svc'[s].downtimes = IF e THEN svc[s].downtimes \ {i} ELSE svc[s].downtimes \union {i}
  BY <1>2 DEF TypeInv, SvcType
<1>7. ASSUME NEW k \in SKpi PROVE SvcInv(k)'
  <2>1. SvcInv(k) /\ k.src \in Service
    BY KpiFacts DEF BaInv
  <2>2. kpi[k].ids = svc[k.src].downtimes /\ kpi[k].hard = svc[k.src].hard
    BY <1>5, <2>1 DEF SvcInv
  <2>3. CASE k.src = s
    <3>1. i \in Ids /\ Called(DowntimeCall(k, i, e))'
      BY <1>4, <1>5, <2>3 DEF Listeners, Ids
    <3>2. \A h, f : Called(DowntimeCall(k, h, f))' => h = i /\ f = e
      BY <1>4, <1>5
    <3>3. svc'[k.src].downtimes = IF e THEN kpi'[k].ids \ {i} ELSE kpi'[k].ids \union {i}
      BY <1>2, <1>6, <2>2, <2>3
    <3>4. kpi'[k].hard = svc'[k.src].hard
      BY <1>2, <1>6, <2>1, <2>2
    <3>5. \A h \in Ids, f \in BOOLEAN : Called(DowntimeCall(k, h, f))' =>
             svc'[k.src].downtimes = IF f THEN kpi'[k].ids \ {h} ELSE kpi'[k].ids \union {h}
      BY <3>2, <3>3
    <3>6. \E h \in Ids, f \in BOOLEAN : Called(DowntimeCall(k, h, f))'
      BY <3>1
    <3> QED BY <3>4, <3>5, <3>6 DEF SvcInv, Ids
  <2>4. CASE k.src # s
    <3>1. \A h, f : ~Called(DowntimeCall(k, h, f))'
      BY <1>4, <1>5, <2>4 DEF Listeners
    <3> QED BY <1>2, <1>6, <2>1, <2>2, <2>4, <3>1 DEF SvcInv
  <2> QED BY <2>3, <2>4
<1> QED BY <1>1, <1>2, <1>3, <1>5, <1>7, StartBa

LEMMA OwnDowntimeBa ==
  ASSUME TypeInv, BaInv, NEW b \in BA, OwnDowntime(b)
  PROVE  BaInv'
<1>1. /\ stack = <<>> /\ config[b].dt # "inherit"
      /\ UNCHANGED <<config, svc, kpi, exp, ba, stack>>
      /\ own' = [own EXCEPT ![b] = ~own[b]]
      /\ feedback' = [feedback EXCEPT ![b] = Append(feedback[b], ~own[b])]
      /\ own \in [BA -> BOOLEAN] /\ feedback \in [BA -> Seq(BOOLEAN)]
  BY DEF OwnDowntime, TypeInv, EventType
<1>2. \A c : ~Called(c) /\ ~Called(c)'
  BY <1>1 DEF Called, ToSet
<1>3. \A k \in SKpi : SvcInv(k)'
  BY <1>1, <1>2, SvcKept DEF BaInv
<1>4. ASSUME NEW c \in BA, NEW k \in KpisOf(c) PROVE ImpactInv(c, k)'
  <2>1. k \in Kpi /\ ImpactInv(c, k) /\ SourceSame(k)
    BY <1>1, KpiFacts DEF BaInv, SourceSame
  <2> QED BY <1>1, <1>2, <2>1, ImpactKept
<1>5. ASSUME NEW c \in BA PROVE InheritInv(c)'
  BY <1>1, <1>2, BaKept DEF BaInv
<1>6. ASSUME NEW c \in BA PROVE FeedbackInv(c)'
  <2>1. FeedbackInv(c)
    BY DEF BaInv
  <2>2. CASE c # b
    BY <1>1, <2>1, <2>2, FeedbackKept
  <2>3. CASE c = b
    <3>1. feedback'[b] = Append(feedback[b], own'[b]) /\ feedback[b] \in Seq(BOOLEAN)
      BY <1>1
    <3>2. feedback'[b] # <<>> /\ feedback'[b][Len(feedback'[b])] = own'[b]
      BY <3>1
    <3> QED BY <1>1, <2>3, <3>2 DEF FeedbackInv, Final
  <2> QED BY <2>2, <2>3
<1>7. AtOnce'
  BY <1>1 DEF AtOnce
<1> QED BY <1>3, <1>4, <1>5, <1>6, <1>7 DEF BaInv

\* An answer of the engine: the last one of the queue is the one that stays.
LEMMA DeliverBa ==
  ASSUME TypeInv, BaInv, NEW b \in BA, Deliver(b)
  PROVE  BaInv'
<1> DEFINE S == IF ba[b].down # Head(feedback[b]) THEN BaParents(b) ELSE {}
<1>1. Started(S)
  BY DeliverType
<1>2. /\ stack = <<>> /\ feedback[b] # <<>> /\ UNCHANGED <<config, svc, kpi, exp, own>>
      /\ ba' = [ba EXCEPT ![b].down = Head(feedback[b])]
      /\ feedback' = [feedback EXCEPT ![b] = Tail(feedback[b])]
      /\ feedback \in [BA -> Seq(BOOLEAN)]
  BY DEF Deliver, TypeInv, EventType
<1>3. /\ \A j \in BKpi : j.src = b /\ ba[b].down # Head(feedback[b]) => BaCall(j) \in S
      /\ NotService(S)
      /\ \A j, i, e : DowntimeCall(j, i, e) \notin S
  BY ParentsNotService DEF BaParents, BaCall, NotService
<1> HIDE DEF S
<1>4. \A c : ~Called(c) /\ (Called(c)' <=> c \in S)
  BY <1>1, <1>2 DEF Called, ToSet, Started, Gathers
<1>5. /\ \A c \in BA : /\ ba'[c].impacts = ba[c].impacts /\ ba'[c].agg = ba[c].agg
                       /\ ba'[c].inherited = ba[c].inherited
                       /\ c # b => ba'[c] = ba[c]
      /\ ba'[b].down = Head(feedback[b])
  BY <1>2 DEF TypeInv, BaType
<1>6. ASSUME NEW k \in SKpi PROVE SvcInv(k)'
  <2>1. SvcInv(k)
    BY DEF BaInv
  <2> QED BY <1>2, <1>3, <1>4, <2>1, SvcKept
<1>7. ASSUME NEW c \in BA, NEW k \in KpisOf(c) PROVE ImpactInv(c, k)'
  <2>1. k \in Kpi /\ ImpactInv(c, k)
    BY KpiFacts DEF BaInv
  <2>2. k.type = "ba" => k \in BKpi /\ k.src \in BA
    BY <2>1, KpiFacts
  <2>3. Called(BaCall(k))' \/ SourceSame(k)
    BY <1>2, <1>3, <1>4, <1>5, <2>2 DEF SourceSame
  <2> QED BY <1>2, <1>4, <1>5, <2>1, <2>3, ImpactKept
<1>8. ASSUME NEW c \in BA PROVE InheritInv(c)'
  <2>1. InheritInv(c) /\ \A k \in KpisOf(c) : ~Called(BaCall(k))
    BY <1>4 DEF BaInv
  <2>2. Base(c)' = Base(c)
    BY <1>2, <1>5 DEF Base, Rating, OK, WARNING, CRITICAL
  <2>3. Covered(c)' = Covered(c)
    BY <1>5, <2>2 DEF Covered, OK
  <2> QED BY <1>2, <1>5, <2>1, <2>3 DEF InheritInv
<1>9. ASSUME NEW c \in BA PROVE FeedbackInv(c)'
  <2>1. FeedbackInv(c)
    BY DEF BaInv
  <2>2. CASE c # b
    BY <1>2, <1>5, <2>1, <2>2, FeedbackKept
  <2>3. CASE c = b
    <3> DEFINE f == feedback[b]
    <3>1. f \in Seq(BOOLEAN) /\ f # <<>> /\ feedback'[b] = Tail(f)
      BY <1>2
    <3>2. f[Len(f)] = Final(b) /\ Final(b)' = Final(b)
      BY <1>2, <1>5, <2>1, <2>3 DEF FeedbackInv, Final
    <3>3. ba'[b].down = Head(f)
      BY <1>5
    <3> HIDE DEF f
    <3>4. CASE Tail(f) = <<>>
      <4>1. Len(Tail(f)) = Len(f) - 1 /\ Len(f) \in Nat /\ Len(f) > 0
        BY <3>1
      <4>2. Len(f) = 1
        <5>1. Len(Tail(f)) = 0
          <6>1. Tail(f) \in Seq(BOOLEAN)
            BY <3>1
          <6> QED BY <3>4, <6>1, EmptySeq
        <5> QED BY <4>1, <5>1
      <4>3. Head(f) = f[Len(f)]
        BY <3>1, <4>2
      <4> QED BY <2>3, <3>1, <3>2, <3>3, <3>4, <4>3 DEF FeedbackInv
    <3>5. CASE Tail(f) # <<>>
      <4>1. Tail(f)[Len(Tail(f))] = f[Len(f)]
        BY <3>1, <3>5
      <4> QED BY <2>3, <3>1, <3>2, <3>5, <4>1 DEF FeedbackInv
    <3> QED BY <3>4, <3>5
  <2> QED BY <2>2, <2>3
<1>10. AtOnce'
  BY <1>1, <1>3, AtOnceStart
<1> QED BY <1>6, <1>7, <1>8, <1>9, <1>10 DEF BaInv

\* A BA all of whose KPIs are ok, none in downtime, is ok.
LEMMA AllOk ==
  ASSUME Regular, config \in Configs, NEW b \in BA, KpisOf(b) # {}, NEW impacts \in [KpisOf(b) -> Impact],
         \A k \in KpisOf(b) : impacts[k].state = OK /\ ~impacts[k].down
  PROVE  Rating(b, Applied(b, impacts)) = OK
<1>1. config[b].kind \in Kinds
  BY BamAssumption
<1> DEFINE counted == {k \in DOMAIN impacts : ~Ignored(b, impacts[k])}
           states == {impacts[k].state : k \in counted}
<1>2. counted = KpisOf(b)
  BY DEF Ignored
<1>3. states = {OK}
  BY <1>2
<1>4. CASE config[b].kind = "impact"
  <2> DEFINE f == [k \in DOMAIN impacts |-> Weight(b, k, impacts[k])]
  <2>1. Applied(b, impacts) = 100 - SumFunction(f)
    BY <1>4 DEF Applied
  <2>2. \A k \in KpisOf(b) : f[k] = 0
    BY DEF Weight, Points, Regular
  <2>3. SumFunction(f) = SumFunctionOnSet(f, KpisOf(b)) /\ IsFiniteSet(KpisOf(b))
        /\ Cardinality(KpisOf(b)) \in Nat
    BY KpisFinite DEF SumFunction
  <2> HIDE DEF f
  <2>4. SumFunction(f) \in Nat /\ SumFunction(f) <= Cardinality(KpisOf(b)) * 0
    <3>1. \A k \in KpisOf(b) : f[k] \in Nat /\ f[k] <= 0
      BY <2>2
    <3>2. KpisOf(b) \in SUBSET KpisOf(b) /\ 0 \in Nat
      OBVIOUS
    <3> QED BY <2>3, <3>1, <3>2, SumAtMost
  <2>5. SumFunction(f) = 0
    BY <2>3, <2>4
  <2>6. Applied(b, impacts) = 100
    BY <2>1, <2>5
  <2> QED BY <1>4, <2>6, BamAssumption DEF Rating, Regular
<1>5. CASE config[b].kind = "ratio_number"
  <2> DEFINE c == {k \in counted : impacts[k].state = CRITICAL}
  <2>1. Applied(b, impacts) = Cardinality(c)
    BY <1>5 DEF Applied
  <2>2. c = {}
    BY <1>2 DEF OK, CRITICAL
  <2>3. Applied(b, impacts) = 0
    BY <2>1, <2>2, FS_EmptySet
  <2> QED BY <1>5, <2>3, BamAssumption DEF Rating, Regular
<1>6. CASE config[b].kind = "worst"
  <2>1. Applied(b, impacts) = Worst(states \union {OK})
    BY <1>6 DEF Applied
  <2>2. states \union {OK} = {OK} /\ {OK} \subseteq State
    BY <1>3 DEF State, OK, UNKNOWN
  <2> HIDE DEF states, State
  <2>3. Worst({OK}) = OK
    BY <2>2, WorstBest
  <2> QED BY <1>6, <2>1, <2>2, <2>3 DEF Rating
<1>7. CASE config[b].kind = "best"
  <2>1. Applied(b, impacts) = Best(states \union {CRITICAL})
    BY <1>7 DEF Applied
  <2>2. states \union {CRITICAL} = {OK, CRITICAL} /\ {OK, CRITICAL} \subseteq State
    BY <1>3 DEF State, OK, UNKNOWN, CRITICAL
  <2> HIDE DEF states, State
  <2>3. Best({OK, CRITICAL}) = OK
    <3>1. Severity(OK) = 0 /\ Severity(CRITICAL) = 3
      BY DEF Severity, OK, CRITICAL
    <3> HIDE DEF Severity
    <3>2. \A h \in {OK, CRITICAL} : (\A g \in {OK, CRITICAL} : Severity(g) >= Severity(h)) <=> h = OK
      BY <3>1
    <3> QED BY <3>2 DEF Best
  <2> QED BY <1>7, <2>1, <2>2, <2>3 DEF Rating
<1> QED BY <1>1, <1>4, <1>5, <1>6, <1>7 DEF Kinds

First(k, i, f) == /\ i.down = FALSE
                  /\ k.type = "service" => i.state = OK
                  /\ k.type = "ba" => i.state = f[k.src]
                  /\ k.type = "exp" => i.state = UNKNOWN

LEMMA FirstAt ==
  ASSUME NEW b, NEW f, NEW i, i = FirstImpacts(b, f), NEW k \in KpisOf(b)
  PROVE  First(k, i[k], f)
<1> DEFINE h == CASE k.type = "service" -> OK [] k.type = "ba" -> f[k.src] [] k.type = "exp" -> UNKNOWN
<1>1. i[k] = [state |-> h, down |-> FALSE]
  BY DEF FirstImpacts
<1>2. /\ k.type = "service" => h = OK
      /\ k.type = "ba" => h = f[k.src]
      /\ k.type = "exp" => h = UNKNOWN
  OBVIOUS
<1> HIDE DEF h
<1> QED BY <1>1, <1>2 DEF First

\* The configuration leaves every BA with the impacts of its KPIs.
LEMMA InitBa ==
  ASSUME Regular, Init
  PROVE  BaInv
<1>1. TypeInv /\ config \in Configs
  BY InitType DEF TypeInv
<1>2. stack = <<>> /\ \A c : ~Called(c)
  BY DEF Init, Called, ToSet
<1>3. \A k \in SKpi : SvcInv(k)
  BY <1>2, KpiFacts DEF Init, SvcInv
<1> DEFINE first(b) == FirstImpacts(b, FirstState)
<1>4. \A b \in BA : /\ ba[b].impacts = first(b) /\ ba[b].agg = Applied(b, first(b))
                    /\ ba[b].down = FALSE /\ ba[b].inherited = FALSE
  <2> HIDE DEF first
  <2>1. ba = [b \in BA |-> [impacts |-> first(b), agg |-> Applied(b, first(b)),
                            down |-> FALSE, inherited |-> FALSE]]
    BY DEF Init, first
  <2> QED BY <2>1
<1>5. Firsts
  BY <1>1, FirstUnfold
<1>6. \A b \in BA : FirstState[b] = Base(b)
  BY <1>4, <1>5 DEF Firsts, Base, first
<1> HIDE DEF first
<1>0. ASSUME NEW b \in BA, NEW k \in KpisOf(b)
      PROVE  /\ ba[b].impacts[k].down = FALSE
             /\ k.type = "service" => ba[b].impacts[k].state = OK
             /\ k.type = "ba" => ba[b].impacts[k].state = FirstState[k.src]
             /\ k.type = "exp" => ba[b].impacts[k].state = UNKNOWN
  <2>1. ba[b].impacts = FirstImpacts(b, FirstState)
    BY <1>4 DEF first
  <2>2. First(k, ba[b].impacts[k], FirstState)
    BY <2>1, FirstAt
  <2> QED BY <2>2 DEF First
<1>7. ASSUME NEW b \in BA, NEW k \in KpisOf(b) PROVE ImpactInv(b, k)
  <2>1. k \in Kpi /\ k.type \in {"service", "ba", "exp"}
    BY KpiFacts
  <2>2. ba[b].impacts[k].down = FALSE
    BY <1>0
  <2>3. CASE k.type = "service"
    <3>1. k \in SKpi
      BY <2>1, <2>3, KpiFacts
    <3>2. kpi[k].hard = OK /\ kpi[k].downtimed = FALSE
      BY <3>1 DEF Init
    <3>3. ba[b].impacts[k].state = OK
      BY <1>0, <2>3
    <3> QED BY <2>2, <2>3, <3>2, <3>3 DEF ImpactInv, BaseOf, KpiState, KpiDown
  <2>4. CASE k.type = "ba"
    <3>1. k.src \in BA
      BY <2>1, <2>4, KpiFacts
    <3>2. ba[b].impacts[k].state = FirstState[k.src]
      BY <1>0, <2>4
    <3> QED BY <1>4, <1>6, <2>2, <2>4, <3>1, <3>2 DEF ImpactInv, BaseOf, KpiDown
  <2>5. CASE k.type = "exp"
    <3>1. ba[b].impacts[k].state = UNKNOWN
      BY <1>0, <2>5
    <3> QED BY <2>5, <3>1 DEF ImpactInv, BaseOf, KpiState, Init
  <2> QED BY <2>1, <2>3, <2>4, <2>5
<1>8. ASSUME NEW b \in BA PROVE InheritInv(b)
  <2>1. ASSUME Covered(b) PROVE FALSE
    <3>1. KpisOf(b) # {} /\ Base(b) # OK
      BY <2>1 DEF Covered
    <3>2. \A k \in KpisOf(b) : ba[b].impacts[k].state = OK /\ ~ba[b].impacts[k].down
      BY <1>0, <2>1 DEF Covered
    <3>3. ba[b].impacts \in [KpisOf(b) -> Impact] /\ ba[b].agg = Applied(b, ba[b].impacts)
      BY <1>1 DEF TypeInv, BaType
    <3>4. Rating(b, Applied(b, ba[b].impacts)) = OK
      BY <1>1, <3>1, <3>2, <3>3, AllOk
    <3> QED BY <3>1, <3>3, <3>4 DEF Base
  <2>2. Covered(b) \in BOOLEAN
    BY DEF Covered
  <2> QED BY <1>4, <2>1, <2>2 DEF InheritInv
<1>9. ASSUME NEW b \in BA PROVE FeedbackInv(b)
  <2>1. feedback[b] = <<>> /\ own[b] = FALSE
    BY DEF Init
  <2> QED BY <1>4, <2>1 DEF FeedbackInv, Final
<1>10. AtOnce
  BY <1>2 DEF AtOnce
<1> QED BY <1>3, <1>7, <1>8, <1>9, <1>10 DEF BaInv

\* Every step keeps the invariant of the BAs.
LEMMA NextBa ==
  ASSUME Regular, TypeInv, [Next]_vars, BaInv
  PROVE  BaInv'
<1>1. CASE Call
  <2>1. stack # <<>>
    BY <1>1, CallCases
  <2>2. ASSUME NEW k \in SKpi, Head(stack) = StatusCall(k), KpiStatus(k) PROVE BaInv'
    BY <2>1, <2>2, KpiStatusBa
  <2>3. ASSUME NEW k \in SKpi, NEW e \in BOOLEAN, NEW i \in Id[k.src],
               Head(stack) = DowntimeCall(k, i, e), KpiDowntime(k, i, e)
        PROVE  BaInv'
    BY <2>1, <2>3, KpiDowntimeBa
  <2>4. ASSUME NEW n \in Leaf, NEW s \in BOOLEAN, Head(stack) = LeafCall(n, s), LeafUpdate(n, s)
        PROVE  BaInv'
    <3> DEFINE new == [known |-> leaf[n].known \/ s,
                       hard |-> IF s THEN svc[Exp[n].svc].hard ELSE leaf[n].hard,
                       down |-> svc[Exp[n].svc].downtimes # {}]
               S == IF new # leaf[n] THEN NodeParents(n) ELSE {}
    <3>1. Pushed(S)
      BY <2>1, <2>4, LeafUpdateType
    <3>2. UNCHANGED <<config, svc, kpi, exp, ba, own, feedback>>
      BY <2>4 DEF LeafUpdate
    <3>3. S = {} \/ S = NodeParents(n)
      OBVIOUS
    <3>4. /\ \A k : Head(stack) # StatusCall(k) /\ Head(stack) # BaCall(k)
          /\ \A k, i, e : Head(stack) # DowntimeCall(k, i, e)
      BY <2>4, CallsDiffer
    <3> HIDE DEF S
    <3> QED BY <2>1, <3>1, <3>2, <3>3, <3>4, NodeCallBa
  <2>5. ASSUME NEW n \in Node \ Leaf, NEW m \in {Exp[n].l, Exp[n].r},
               Head(stack) = NodeCall(n, m), NodeUpdate(n, m)
        PROVE  BaInv'
    <3> DEFINE S == IF n \in Binary => Differs(n, m) THEN NodeParents(n) ELSE {}
    <3>1. Pushed(S)
      BY <2>1, <2>5, NodeUpdateType
    <3>2. UNCHANGED <<config, svc, kpi, exp, ba, own, feedback>>
      BY <2>5 DEF NodeUpdate
    <3>3. S = {} \/ S = NodeParents(n)
      OBVIOUS
    <3>4. /\ \A k : Head(stack) # StatusCall(k) /\ Head(stack) # BaCall(k)
          /\ \A k, i, e : Head(stack) # DowntimeCall(k, i, e)
      BY <2>5, CallsDiffer
    <3> HIDE DEF S
    <3> QED BY <2>1, <3>1, <3>2, <3>3, <3>4, NodeCallBa
  <2>6. ASSUME Head(stack) = ExpCall, ExpUpdate PROVE BaInv'
    BY <2>1, <2>6, ExpUpdateBa
  <2>7. ASSUME NEW k \in Kpi, Head(stack) = BaCall(k), BaUpdate(k) PROVE BaInv'
    <3>1. PICK b, new, upd, agg, inherited, down : BaDid(b, k, new, upd, agg, inherited, down)
      BY <2>1, <2>7, BaUpdateDoes
    <3> QED BY <2>1, <2>7, <3>1, BaUpdateBa
  <2> QED BY <1>1, <2>2, <2>3, <2>4, <2>5, <2>6, <2>7, CallCases
<1>2. ASSUME NEW s \in Service, NEW h \in Hard[s], Status(s, h) PROVE BaInv'
  BY <1>2, StatusBa
<1>3. ASSUME NEW s \in Service, NEW e \in BOOLEAN, NEW i \in Id[s], Downtime(s, i, e) PROVE BaInv'
  BY <1>3, DowntimeBa
<1>4. ASSUME NEW b \in BA, OwnDowntime(b) PROVE BaInv'
  BY <1>4, OwnDowntimeBa
<1>5. ASSUME NEW b \in BA, Deliver(b) PROVE BaInv'
  BY <1>5, DeliverBa
<1>6. CASE UNCHANGED vars
  <2>1. UNCHANGED <<config, svc, kpi, exp, ba, own, feedback, stack>>
    BY <1>6 DEF vars
  <2>2. \A c : Called(c)' <=> Called(c)
    BY <2>1 DEF Called
  <2>3. \A k \in SKpi : SvcInv(k)'
    BY <2>1, <2>2, SvcKept DEF BaInv
  <2>4. ASSUME NEW b \in BA, NEW k \in KpisOf(b) PROVE ImpactInv(b, k)'
    <3>1. k \in Kpi /\ ImpactInv(b, k) /\ SourceSame(k)
      BY <2>1, KpiFacts DEF BaInv, SourceSame
    <3> QED BY <2>1, <2>2, <3>1, ImpactKept
  <2>5. ASSUME NEW b \in BA PROVE InheritInv(b)' /\ FeedbackInv(b)'
    BY <2>1, <2>2, BaKept, FeedbackKept DEF BaInv
  <2>6. AtOnce'
    BY <2>1 DEF AtOnce, BaInv
  <2> QED BY <2>3, <2>4, <2>5, <2>6 DEF BaInv
<1> QED BY <1>1, <1>2, <1>3, <1>4, <1>5, <1>6, BamAssumption DEF Next

----------------------------------------------------------------------------
(* The states and downtimes recomputed from the services *)

\* The states recomputed from the services are states.
LEMMA NowTypes ==
  ASSUME TypeInv, NEW f, NEW b \in BA, \A c \in BA : c < b => f[c] \in Impact
  PROVE  ImpactsNow(b, f) \in [KpisOf(b) -> Impact]
<1> SUFFICES ASSUME NEW k \in KpisOf(b) PROVE [state |-> StateNow(k, f), down |-> DownNow(k, f)] \in Impact
  BY DEF ImpactsNow
<1>1. k \in Kpi /\ k.ba = b
  BY KpiFacts DEF KpisOf
<1>2. StateNow(k, f) \in State /\ DownNow(k, f) \in BOOLEAN
  <2>1. CASE k.type = "service"
    <3>1. k.src \in Service
      BY <1>1, <2>1, KpiFacts
    <3>2. svc[k.src].hard \in State
      BY <3>1 DEF TypeInv, SvcType
    <3> QED BY <2>1, <3>2 DEF StateNow, DownNow
  <2>2. CASE k.type = "ba"
    <3>1. k.src \in BA /\ k.src < b
      BY <1>1, <2>2, KpiFacts
    <3>2. f[k.src] \in Impact
      BY <3>1
    <3>3. f[k.src].state \in State /\ f[k.src].down \in BOOLEAN
      <4> HIDE DEF State
      <4> QED BY <3>2 DEF Impact
    <3> QED BY <2>2, <3>3 DEF StateNow, DownNow
  <2>3. CASE k.type = "exp"
    <3>1. k.src \in Node
      BY <1>1, <2>3, KpiFacts, NodeFacts
    <3>2. Down[k.src] \in BOOLEAN
      BY <3>1, ExprTypes DEF TypeInv
    <3>3. OK \in State /\ CRITICAL \in State
      BY DEF State, OK, UNKNOWN, CRITICAL
    <3> HIDE DEF State
    <3> QED BY <2>3, <3>2, <3>3 DEF StateNow, DownNow
  <2> QED BY <1>1, <2>1, <2>2, <2>3, KpiFacts
<1> HIDE DEF State
<1> QED BY <1>2 DEF Impact

LEMMA RecomputedType ==
  ASSUME TypeInv, NEW f, NEW b \in BA, \A c \in BA : c < b => f[c] \in Impact
  PROVE  Recomputed(b, f) \in Impact
<1> DEFINE R == Rating(b, Applied(b, ImpactsNow(b, f)))
           cond == /\ config[b].kind \in {"worst", "best"} /\ config[b].dt = "ignore_kpi"
                   /\ KpisOf(b) # {} /\ \A k \in KpisOf(b) : DownNow(k, f)
           h == IF cond THEN OK ELSE R
           every == h # OK /\ KpisOf(b) # {} /\ \A k \in KpisOf(b) : StateNow(k, f) = OK \/ DownNow(k, f)
           d == IF config[b].dt # "inherit" THEN own[b] ELSE every
<1>1. Recomputed(b, f) = [state |-> h, down |-> d]
  BY DEF Recomputed
<1>2. R \in State
  BY NowTypes, RatingType DEF TypeInv
<1>3. OK \in State
  BY DEF State, OK, UNKNOWN
<1>4. own[b] \in BOOLEAN
  BY DEF TypeInv, EventType
<1>5. h \in State
  <2> HIDE DEF R, cond, State
  <2> QED BY <1>2, <1>3
<1>6. d \in BOOLEAN
  <2>1. every \in BOOLEAN
    OBVIOUS
  <2> HIDE DEF every
  <2> QED BY <1>4, <2>1
<1> HIDE DEF h, d, State
<1> QED BY <1>1, <1>5, <1>6 DEF Impact

References == \A b \in BA : Reference[b] = Recomputed(b, Reference)

\* Reference satisfies its definition.
LEMMA ReferenceUnfold ==
  ASSUME TypeInv
  PROVE  References
<1> DEFINE F == [f \in [BA -> Impact] |-> [b \in BA |-> Recomputed(b, f)]]
<1>1. ASSUME NEW f \in [BA -> Impact], NEW b \in BA PROVE Recomputed(b, f) \in Impact
  BY RecomputedType
<1>2. ASSUME NEW f \in [BA -> Impact], NEW g \in [BA -> Impact], NEW b \in BA,
             \A c \in BA : c < b => f[c] = g[c]
      PROVE  Recomputed(b, f) = Recomputed(b, g)
  <2>1. ASSUME NEW k \in KpisOf(b)
        PROVE  StateNow(k, f) = StateNow(k, g) /\ DownNow(k, f) = DownNow(k, g)
    <3>1. k \in Kpi /\ k.ba = b
      BY KpiFacts DEF KpisOf
    <3>2. k.type = "ba" => f[k.src] = g[k.src]
      BY <1>2, <3>1, KpiFacts
    <3> QED BY <3>1, <3>2, KpiFacts DEF StateNow, DownNow
  <2>2. ImpactsNow(b, f) = ImpactsNow(b, g)
    BY <2>1 DEF ImpactsNow
  <2> QED BY <2>1, <2>2 DEF Recomputed
<1>3. IsRecursion(F, BA, Impact)
  <2>1. BA \subseteq Nat /\ IsFiniteSet(BA)
    BY BamAssumption
  <2>2. F \in [[BA -> Impact] -> [BA -> Impact]]
    BY <1>1
  <2>3. \A f \in [BA -> Impact], b \in BA : F[f][b] = Recomputed(b, f)
    OBVIOUS
  <2>4. Impact # {}
    <3>1. [state |-> OK, down |-> FALSE] \in Impact
      BY DEF Impact, State, OK, UNKNOWN
    <3> QED BY <3>1
  <2> HIDE DEF F
  <2> QED BY <1>2, <2>1, <2>2, <2>3, <2>4 DEF IsRecursion
<1>4. PICK f \in [BA -> Impact] : f = F[f]
  <2> HIDE DEF F
  <2> QED BY <1>3, Recursion
<1>5. f = [b \in BA |-> Recomputed(b, f)]
  BY <1>4
<1>6. Reference = [b \in BA |-> Recomputed(b, Reference)]
  BY <1>5 DEF Reference
<1> QED BY <1>6 DEF References

\* Impacts with the same states, of which the same are left out, count alike.
LEMMA AppliedAgrees ==
  ASSUME NEW b \in BA, NEW i \in [KpisOf(b) -> Impact], NEW j \in [KpisOf(b) -> Impact],
         \A k \in KpisOf(b) : i[k].state = j[k].state /\ (Ignored(b, i[k]) <=> Ignored(b, j[k]))
  PROVE  Applied(b, i) = Applied(b, j)
<1>1. {k \in DOMAIN i : ~Ignored(b, i[k])} = {k \in DOMAIN j : ~Ignored(b, j[k])}
  OBVIOUS
<1> DEFINE C == {k \in DOMAIN i : ~Ignored(b, i[k])}
<1>2. {i[k].state : k \in C} = {j[k].state : k \in C}
  OBVIOUS
<1>3. [k \in DOMAIN i |-> Weight(b, k, i[k])] = [k \in DOMAIN j |-> Weight(b, k, j[k])]
  BY DEF Weight
<1>4. {k \in C : i[k].state = CRITICAL} = {k \in C : j[k].state = CRITICAL}
  OBVIOUS
<1> QED BY <1>1, <1>2, <1>3, <1>4 DEF Applied

Exact(b) == (Depends(b) => Known[Root]) =>
              StateHard(b) = Reference[b].state /\ ba[b].down = Reference[b].down

\* An impact, taken apart.
LEMMA ImpactRecord ==
  ASSUME NEW h, NEW d, NEW i, i = [state |-> h, down |-> d]
  PROVE  i.state = h /\ i.down = d /\ (h \in State /\ d \in BOOLEAN => i \in Impact)
<1> HIDE DEF State
<1> QED BY DEF Impact

\* Once the stack is empty and the engine has answered, a BA has the state and
\* the downtime that its KPIs give, if the BAs below have theirs.
LEMMA QuietStep ==
  ASSUME Regular, TypeInv, ExpressionInv, BaInv, Quiet, NEW b \in BA,
         \A c \in BA : c < b => Exact(c), Depends(b) => Known[Root]
  PROVE  StateHard(b) = Reference[b].state /\ ba[b].down = Reference[b].down
<1>1. stack = <<>> /\ feedback[b] = <<>> /\ \A c : ~Called(c)
  BY DEF Quiet, Called, ToSet
<1>2. config \in Configs /\ config[b] \in [kind : Kinds, dt : Behaviours]
  BY BamAssumption DEF TypeInv
<1>3. \A c \in BA : StateHard(c) = Base(c)
  BY <1>1, HardIsBase DEF BaInv
<1> DEFINE now == ImpactsNow(b, Reference)
           had == ba[b].impacts
<1>4. had \in [KpisOf(b) -> Impact] /\ ba[b].agg = Applied(b, had)
  BY DEF TypeInv, BaType
<1>5. ASSUME NEW k \in KpisOf(b)
      PROVE  /\ had[k].state = StateNow(k, Reference)
             /\ k.type # "exp" => had[k].down = DownNow(k, Reference)
  <2>1. k \in Kpi /\ k.ba = b
    BY KpiFacts DEF KpisOf
  <2>2. had[k].state = BaseOf(k) /\ (k.type # "exp" => had[k].down = KpiDown(k))
    BY <1>1 DEF BaInv, ImpactInv
  <2>3. CASE k.type = "service"
    <3>1. k \in SKpi
      BY <2>1, <2>3, KpiFacts
    <3>2. SvcInv(k) /\ kpi[k].downtimed = (kpi[k].ids # {})
      BY <3>1 DEF BaInv, TypeInv, KpiType
    <3>3. kpi[k].hard = svc[k.src].hard /\ kpi[k].ids = svc[k.src].downtimes
      BY <1>1, <3>2 DEF SvcInv
    <3> QED BY <2>2, <2>3, <3>2, <3>3 DEF BaseOf, KpiState, KpiDown, StateNow, DownNow
  <2>4. CASE k.type = "ba"
    <3>1. k.src \in BA /\ k.src < b
      BY <2>1, <2>4, KpiFacts
    <3>2. Depends(k.src) => Depends(b)
      BY <3>1, BamAssumption DEF Depends
    <3>3. StateHard(k.src) = Reference[k.src].state /\ ba[k.src].down = Reference[k.src].down
      BY <3>1, <3>2 DEF Exact
    <3> QED BY <1>3, <2>2, <2>4, <3>1, <3>3 DEF BaseOf, KpiDown, StateNow, DownNow
  <2>5. CASE k.type = "exp"
    <3>1. b = ExpBA
      BY <2>1, <2>5, KpiFacts
    <3>2. Known[Root]
      BY <3>1, BamAssumption DEF Depends
    <3>3. Root \in Node /\ ~Soon[Root]
      BY <1>1, NodeFacts, NeverSoon
    <3>4. exp.state = ExpState
      BY <1>1, <3>2, <3>3 DEF ExpressionInv, ExpInv
    <3>5. (Value[Root] # 0) <=> Eval[Root] = "T"
      BY <1>1, <3>2, <3>3, ExpressionQuiet DEF ExpressionExact
    <3>6. ExpState = StateNow(k, Reference)
      BY <2>5, <3>5 DEF ExpState, StateNow
    <3> QED BY <2>2, <2>5, <3>4, <3>6 DEF BaseOf, KpiState
  <2> QED BY <2>1, <2>3, <2>4, <2>5, KpiFacts
<1>6. b = ExpBA => config[b].dt = "ignore"
  BY <1>2 DEF Regular
<1>7. b # ExpBA => \A k \in KpisOf(b) : k.type # "exp"
  BY KpiFacts DEF KpisOf
<1>8. \A k \in KpisOf(b) : now[k] = [state |-> StateNow(k, Reference), down |-> DownNow(k, Reference)]
  BY DEF ImpactsNow
<1>9. Applied(b, had) = Applied(b, now)
  <2>1. now \in [KpisOf(b) -> Impact]
    <3>1. now = [k \in KpisOf(b) |-> [state |-> StateNow(k, Reference), down |-> DownNow(k, Reference)]]
      BY DEF ImpactsNow
    <3>2. ASSUME NEW k \in KpisOf(b) PROVE now[k] \in Impact
      <4>1. StateNow(k, Reference) \in State
        <5>1. had[k].state \in State
          <6> HIDE DEF State, had
          <6> QED BY <1>4 DEF Impact
        <5> QED BY <1>5, <5>1
      <4>2. DownNow(k, Reference) \in BOOLEAN
        <5>1. k.type = "exp" => DownNow(k, Reference) = Down[Root] /\ Down[Root] \in BOOLEAN
          BY ExprTypes, NodeFacts, KpiFacts DEF DownNow, TypeInv
        <5>2. had[k].down \in BOOLEAN
          <6> HIDE DEF State, had
          <6> QED BY <1>4 DEF Impact
        <5> QED BY <1>5, <5>1, <5>2
      <4>3. now[k] = [state |-> StateNow(k, Reference), down |-> DownNow(k, Reference)]
        BY <1>8
      <4> HIDE DEF now
      <4> QED BY <4>1, <4>2, <4>3, ImpactRecord
    <3> HIDE DEF now
    <3> QED BY <3>1, <3>2
  <2>2. \A k \in KpisOf(b) : /\ had[k].state = now[k].state
                             /\ Ignored(b, had[k]) <=> Ignored(b, now[k])
    <3> HIDE DEF now, had
    <3>1. \A k \in KpisOf(b) : /\ had[k].state = now[k].state
                               /\ k.type # "exp" => had[k].down = now[k].down
      <4> SUFFICES ASSUME NEW k \in KpisOf(b)
                   PROVE  /\ had[k].state = now[k].state
                          /\ k.type # "exp" => had[k].down = now[k].down
        OBVIOUS
      <4>1. now[k] = [state |-> StateNow(k, Reference), down |-> DownNow(k, Reference)]
        BY <1>8
      <4>2. now[k].state = StateNow(k, Reference) /\ now[k].down = DownNow(k, Reference)
        BY <4>1, ImpactRecord
      <4> QED BY <1>5, <4>2
    <3> QED BY <1>6, <1>7, <3>1 DEF Ignored
  <2> HIDE DEF now, had
  <2> QED BY <1>4, <2>1, <2>2, AppliedAgrees
<1>10. Reference[b] = Recomputed(b, Reference)
  BY ReferenceUnfold DEF References
<1> DEFINE cond == /\ config[b].kind \in {"worst", "best"} /\ config[b].dt = "ignore_kpi"
                   /\ KpisOf(b) # {} /\ \A k \in KpisOf(b) : DownNow(k, Reference)
           h == IF cond THEN OK ELSE Rating(b, Applied(b, now))
           d == IF config[b].dt # "inherit" THEN own[b]
                ELSE /\ h # OK /\ KpisOf(b) # {}
                     /\ \A k \in KpisOf(b) : StateNow(k, Reference) = OK \/ DownNow(k, Reference)
<1>11. Reference[b].state = h /\ Reference[b].down = d
  BY <1>10 DEF Recomputed
<1>12. cond => StateHard(b) = OK
  <2> SUFFICES ASSUME cond PROVE StateHard(b) = OK
    OBVIOUS
  <2>1. \A k \in KpisOf(b) : had[k].down = KpiDown(k) /\ had[k].down = DownNow(k, Reference)
    <3>1. \A k \in KpisOf(b) : k.type # "exp"
      BY <1>6, <1>7
    <3> QED BY <1>1, <1>5, <3>1 DEF BaInv, ImpactInv
  <2>2. \A k \in KpisOf(b) : KpiDown(k)
    BY <2>1
  <2> QED BY <2>2 DEF StateHard, StateOf
<1>13. StateHard(b) = h
  <2>1. ~cond => StateHard(b) = Rating(b, Applied(b, now))
    BY <1>3, <1>4, <1>9 DEF Base
  <2> QED BY <1>12, <2>1
<1>14. ba[b].down = Final(b)
  BY <1>1 DEF BaInv, FeedbackInv
<1>15. ba[b].down = d
  <2>1. CASE config[b].dt # "inherit"
    BY <1>14, <2>1 DEF Final
  <2>2. CASE config[b].dt = "inherit"
    <3>1. ba[b].down = Covered(b)
      BY <1>1, <1>14, <2>2 DEF BaInv, InheritInv, Final
    <3>2. Base(b) = h
      BY <1>3, <1>13
    <3>3. \A k \in KpisOf(b) : k.type # "exp"
      BY <1>6, <1>7, <2>2
    <3>4. \A k \in KpisOf(b) : had[k].state = StateNow(k, Reference) /\ had[k].down = DownNow(k, Reference)
      BY <1>5, <3>3
    <3> HIDE DEF h
    <3> QED BY <2>2, <3>1, <3>2, <3>4 DEF Covered
  <2> QED BY <2>1, <2>2
<1> QED BY <1>11, <1>13, <1>15

\* And so all of them are.
LEMMA QuietExact ==
  ASSUME Regular, TypeInv, ExpressionInv, BaInv
  PROVE  StateExact /\ DowntimeExact
<1> SUFFICES ASSUME Quiet PROVE \A b \in BA : Exact(b)
  BY DEF StateExact, DowntimeExact, Exact
<1> DEFINE S == {b \in BA : Exact(b)}
<1>1. ASSUME NEW b \in BA, \A c \in BA : c < b => c \in S PROVE b \in S
  <2>1. \A c \in BA : c < b => Exact(c)
    BY <1>1
  <2>2. (Depends(b) => Known[Root]) =>
           StateHard(b) = Reference[b].state /\ ba[b].down = Reference[b].down
    BY <2>1, QuietStep
  <2> QED BY <2>2 DEF Exact
<1>2. BA \subseteq Nat
  BY BamAssumption
<1> HIDE DEF S
<1>3. \A b \in BA : b \in S
  BY <1>1, <1>2, SetInduction
<1> QED BY <1>3 DEF S

\* The inductive invariant of a regular configuration.
BamInv == TypeInv /\ ExpressionInv /\ BaInv

\* The three parts of the invariant, together.
LEMMA BamInvHolds == ASSUME Regular PROVE Spec => []BamInv
<1>1. Init => BamInv
  BY InitType, InitExpr, InitBa DEF BamInv
<1>2. BamInv /\ [Next]_vars => BamInv'
  BY NextType, NextExpr, NextBa DEF BamInv
<1> QED BY <1>1, <1>2, PTL DEF Spec

\* Between two propagations, when the engine has answered, the hard state of
\* every BA is the one recomputed from the services, in any tree or graph of
\* BAs of a regular configuration: ba::update_from(), _apply_changes() and the
\* decision whom to notify leave no cached impact behind.
THEOREM StateCorrect == ASSUME Regular PROVE Spec => []StateExact
<1>1. BamInv => StateExact
  BY QuietExact DEF BamInv
<1> QED BY <1>1, BamInvHolds, PTL

\* And it is in downtime when its own service is, or, if it inherits, when it
\* is not ok and all the KPIs that are not ok are: no order of overlapping
\* downtimes and of the engine's answers leaves another result
\* (_compute_inherited_downtime(), ba::service_update()).
THEOREM DowntimeCorrect == ASSUME Regular PROVE Spec => []DowntimeExact
<1>1. BamInv => DowntimeExact
  BY QuietExact DEF BamInv
<1> QED BY <1>1, BamInvHolds, PTL
============================================================================
