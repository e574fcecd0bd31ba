------------------------------- MODULE MCBam -------------------------------
(* Three BAs on two services: 1 has both, 2 has BA 1 and one of them, 3 has  *)
(* BA 2 and a boolean expression.                                            *)
EXTENDS Bam

CONSTANTS cpu, disk

MCSvcKpi == {<<cpu, 1>>, <<disk, 1>>, <<disk, 2>>}
MCBaKpi == {<<1, 2>>, <<2, 3>>}
MCNominal == <<0, 20, 45, 10>>

\* (cpu or disk) and not cpu: every mention of a service is a leaf of its own
Op(o, l, r) == [op |-> o, l |-> l, r |-> r]
Svc(s) == [op |-> "service", svc |-> s]
MCExp == <<Svc(cpu), Svc(disk), Op("or", 1, 2), Svc(cpu), Op("not", 4, 4),
           Op("and", 3, 5)>>

Cfg(k, d) == [kind |-> k, dt |-> d]

\* BA 1 of every kind, leaving out downtimes or KPIs in downtime, below a BA
\* that inherits; then a BA 1 that inherits.  A best BA that leaves out KPIs in
\* downtime is in BestConfigs.
AllConfigs ==
  {<<x, Cfg("worst", "inherit"), Cfg("worst", "ignore")>> :
     x \in {Cfg("impact", "ignore_kpi"), Cfg("worst", "ignore_kpi"),
            Cfg("best", "ignore"), Cfg("ratio_number", "ignore")}}
  \union
  {<<Cfg("worst", "inherit"), y, Cfg("worst", "ignore")>> :
     y \in {Cfg("impact", "ignore_kpi"), Cfg("best", "inherit")}}

\* BA 1 is the best of its KPIs, those in downtime left out
BestConfigs == {<<Cfg("best", "ignore_kpi"), Cfg("worst", "ignore"),
                  Cfg("worst", "ignore")>>}

\* The theorems about states and downtimes hold for the configurations checked
ASSUME RegularAssumption == Configs = AllConfigs => Regular

MCHard == (cpu :> {0, 2, 3}) @@ (disk :> {0, 2})

\* Two overlapping downtimes for one service, one for the other
MCId == (cpu :> {1, 2}) @@ (disk :> {3})
=============================================================================
