------------------------- MODULE MCMissionAssurance -------------------------
(* A small instance of MissionAssurance for TLC. *)
EXTENDS MissionAssurance

CONSTANTS m1, m2, m3, a1, a2

P(kind, a, n) == [kind |-> kind, asset |-> a, status |-> "operational", magnitude |-> n]

\* Nothing; more alerts; an outage that drives a score to zero; a loss; and
\* a repair together with a loss.
MCScenarios ==
    { <<>>,
      <<P("add_alerts", a1, 2)>>,
      <<P("offline", a1, 1), P("add_alerts", a1, 20)>>,
      <<P("remove_asset", a1, 1)>>,
      <<P("set_status", a1, 1), P("remove_asset", a2, 1)>> }

Critical(n) == [critical |-> n, other |-> 0]

\* m1 needs a1, m2 needs both and m3 nothing; a1 is fine, or degraded with
\* alerts.  Writes lead to every other status and criticality.
MCInitialStates ==
    { [links  |-> (m1 :> (a1 :> "high" @@ a2 :> None) @@
                   m2 :> (a1 :> "medium" @@ a2 :> "low") @@
                   m3 :> (a1 :> None @@ a2 :> None)),
       fleet  |-> (a1 :> t.status @@ a2 :> "operational"),
       alerts |-> (a1 :> Critical(t.alerts) @@ a2 :> Critical(0) @@ None :> Critical(0))] :
      t \in {[status |-> "operational", alerts |-> 0],
             [status |-> "degraded", alerts |-> 3]} }
=============================================================================
