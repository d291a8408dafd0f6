-------------------------- MODULE MissionAssurance --------------------------
(***************************************************************************)
(* MissionIQ and the digital twin: the assurance score of every mission    *)
(* (services/scoring.py), read from the live tables (services/             *)
(* missioniq.py) or projected under a scenario (services/digitaltwin.py).  *)
(* Both read the tables in several statements, each of which sees what has *)
(* been committed by then, while operators attach, detach, change and      *)
(* delete what is read.                                                    *)
(*                                                                         *)
(* A write commits in one step: what its handler checks first is also      *)
(* enforced by a key of the table.  Scores are computed in quarters of a   *)
(* point, which is exact.                                                  *)
(***************************************************************************)
EXTENDS Integers, SequencesExt

CONSTANTS
    Missions, Assets,
    Scenarios,     \* lists of perturbations that users submit
    InitialStates, \* tables a run may find: records of links, fleet, alerts
    PageLimit,     \* missions a summary reads
    MaxWrites,     \* bound: writes of operators
    MaxAlerts,     \* bound: open alerts about one asset
    None           \* no row

Criticality == {"critical", "high", "medium", "low"}
AssetStatus == {"operational", "degraded", "offline", "unknown"}

\* What users may submit; a status is required to set one.
Perturbation ==
    {p \in [kind : {"set_status", "offline", "add_alerts", "remove_asset"},
            asset : Assets, status : AssetStatus \cup {None}, magnitude : 0 .. 50] :
       p.kind = "set_status" => p.status # None}

Links  == [Missions -> [Assets -> Criticality \cup {None}]]
Fleet  == [Assets -> AssetStatus \cup {None}]
Alerts == [Assets \cup {None} -> [critical : Nat, other : Nat]]

\* The keys of the tables: no link and no alert names a missing asset.
Referential(lk, fl, al) ==
    \A a \in Assets : fl[a] = None =>
        /\ \A m \in Missions : lk[m][a] = None
        /\ al[a].critical = 0 /\ al[a].other = 0

ASSUME AssuranceAssumption ==
    /\ IsFiniteSet(Missions) /\ IsFiniteSet(Assets)
    /\ PageLimit \in Nat \ {0} /\ MaxWrites \in Nat /\ MaxAlerts \in Nat
    /\ None \notin Assets /\ None \notin Scenarios
    /\ None \notin AssetStatus /\ None \notin Criticality
    /\ \A s \in Scenarios : s \in Seq(Perturbation)
    /\ \A t \in InitialStates :
         /\ t.links \in Links /\ t.fleet \in Fleet /\ t.alerts \in Alerts
         /\ Referential(t.links, t.fleet, t.alerts)

VARIABLES
    missions, \* present missions, newest first
    links,    \* dependency_criticality by mission and asset
    fleet,    \* status of every asset
    alerts,   \* alerts not resolved, by asset; None has those about no asset
    saved,    \* the stored scenario
    run,      \* the request in progress and what it has read
    writes    \* writes so far

tables == <<missions, links, fleet, alerts, saved>>
vars   == <<tables, run, writes>>

Weight  == [critical |-> 4, high |-> 3, medium |-> 2, low |-> 1]
Penalty == [offline |-> 45, degraded |-> 22, unknown |-> 10, operational |-> 0]
AlertPenalty == 6

\* round(): half to even.
RoundDiv(s, n) ==
    LET q == s \div n
        r == s % n
    IN  IF 2 * r > n \/ (2 * r = n /\ q % 2 = 1) THEN q + 1 ELSE q

\* What every asset a mission needs takes off its score in the given state.
Deductions(needs, state) ==
    [a \in DOMAIN needs |->
       IF needs[a] = None \/ state[a].removed THEN 0
       ELSE Weight[needs[a]] *
              (Penalty[state[a].status] + AlertPenalty * state[a].alerts)]

\* score_mission.
Score(needs, state) ==
    LET s == RoundDiv(400 - SumFunction(Deductions(needs, state)), 4)
    IN  IF s < 0 THEN 0 ELSE s

Health(s) == IF s >= 80 THEN "assured" ELSE IF s >= 50 THEN "degraded" ELSE "at_risk"

\* Seeded fault: added alerts replace the open ones.
PerturbSetsAlerts(state, p) ==
    CASE p.kind = "set_status" -> [state EXCEPT ![p.asset].status = p.status]
      [] p.kind = "offline"    -> [state EXCEPT ![p.asset].status = "offline"]
      [] p.kind = "add_alerts" -> [state EXCEPT ![p.asset].alerts = p.magnitude]
      [] p.kind = "remove_asset" -> [state EXCEPT ![p.asset].removed = TRUE]

\* Seeded fault: an asset that is lost counts as offline.
PerturbRemovesOffline(state, p) ==
    CASE p.kind = "set_status" -> [state EXCEPT ![p.asset].status = p.status]
      [] p.kind \in {"offline", "remove_asset"} ->
           [state EXCEPT ![p.asset].status = "offline"]
      [] p.kind = "add_alerts" -> [state EXCEPT ![p.asset].alerts = @ + p.magnitude]

\* One perturbation (_apply); one about an asset of no mission is ignored.
Perturb(state, p) ==
    CASE p.kind = "set_status" -> [state EXCEPT ![p.asset].status = p.status]
      [] p.kind = "offline"    -> [state EXCEPT ![p.asset].status = "offline"]
      [] p.kind = "add_alerts" -> [state EXCEPT ![p.asset].alerts = @ + p.magnitude]
      [] p.kind = "remove_asset" -> [state EXCEPT ![p.asset].removed = TRUE]

Apply(state, scenario) == FoldLeft(Perturb, state, scenario)
-----------------------------------------------------------------------------
NoRun == [op |-> "none", pc |-> "idle", scenario |-> <<>>, todo |-> <<>>,
          listed |-> <<>>, links |-> <<>>, status |-> <<>>, alerts |-> <<>>,
          open |-> 0, critical |-> 0,
          dirty |-> FALSE, lost |-> FALSE, gone |-> FALSE]

Init ==
    /\ \E t \in InitialStates :
         links = t.links /\ fleet = t.fleet /\ alerts = t.alerts
    /\ missions \in SetToSeqs(Missions)
    /\ saved = None /\ run = NoRun /\ writes = 0

Open(a) == alerts[a].critical + alerts[a].other

\* A request is only done for once it has answered.
Begin(op, scenario) ==
    /\ run = NoRun
    /\ run' = [NoRun EXCEPT
         !.op = op, !.scenario = scenario,
         !.pc = IF \E i \in DOMAIN scenario : fleet[scenario[i].asset] = None
                  THEN "failed" ELSE "missions"]
    /\ UNCHANGED <<tables, writes>>

BeginSummary  == Begin("summary", <<>>)
BeginSimulate == \E s \in Scenarios : Begin("simulate", s)
BeginSaved    == saved # None /\ Begin("saved", saved)

Reads == UNCHANGED <<tables, writes>>

\* repo.list: the newest missions.
Newest == SubSeq(missions, 1, IF Len(missions) < PageLimit
                                THEN Len(missions) ELSE PageLimit)

ListMissions ==
    /\ run.pc = "missions"
    /\ run' = [run EXCEPT !.pc = "links", !.listed = Newest, !.todo = Newest]
    /\ Reads

\* The links of these missions ...
ReadLinks ==
    /\ run.pc = "links"
    /\ run' = [run EXCEPT !.pc = "assets", !.links = links]
    /\ Reads

\* ... and the assets they name: two more statements of the same load.
ReadAssets ==
    /\ run.pc = "assets"
    /\ run' = [run EXCEPT !.pc = "alerts", !.status = fleet,
                          !.alerts = [m \in Missions |-> [a \in Assets |-> 0]]]
    /\ Reads

Names(m, a) == run.links[m][a] # None

\* Seeded fault: an asset deleted meanwhile is an error in the twin as well.
CountAlertsStrict ==
    /\ run.pc = "alerts" /\ run.op # "summary"
    /\ run' = IF \E m \in ToSet(run.listed), a \in Assets :
                   Names(m, a) /\ run.status[a] = None
                THEN [run EXCEPT !.pc = "failed"]
                ELSE [run EXCEPT
                        !.pc = IF run.op = "saved" THEN "stamp" ELSE "done",
                        !.alerts = [m \in Missions |-> [a \in Assets |-> Open(a)]]]
    /\ Reads

\* Seeded fault: only critical alerts count.
CountAlertsCritical ==
    /\ run.pc = "alerts" /\ run.op # "summary"
    /\ run' = [run EXCEPT
         !.pc = IF run.op = "saved" THEN "stamp" ELSE "done",
         !.alerts = [m \in Missions |-> [a \in Assets |-> alerts[a].critical]]]
    /\ Reads

\* open_by_asset of the twin: one statement for all its assets.  An asset
\* deleted since its link was read is passed over.
CountAlerts ==
    /\ run.pc = "alerts" /\ run.op # "summary"
    /\ run' = [run EXCEPT
         !.pc = IF run.op = "saved" THEN "stamp" ELSE "done",
         !.alerts = [m \in Missions |-> [a \in Assets |-> Open(a)]]]
    /\ Reads

\* The summary counts mission by mission, and has no answer if a link it
\* has read names an asset that was deleted before the assets were read.
AssureNext ==
    /\ run.pc = "alerts" /\ run.op = "summary" /\ run.todo # <<>>
    /\ LET m == Head(run.todo)
       IN  run' = IF \E a \in Assets : Names(m, a) /\ run.status[a] = None
                    THEN [run EXCEPT !.pc = "failed"]
                    ELSE [run EXCEPT !.alerts[m] = [a \in Assets |-> Open(a)],
                                     !.todo = Tail(run.todo)]
    /\ Reads

AllAlerts(kind) ==
    SumFunction([a \in Assets \cup {None} |-> alerts[a][kind]])

AllOpen == AllAlerts("critical") + AllAlerts("other")

\* count_open, over all alerts and then over the critical ones.
CountOpen ==
    /\ run.pc = "alerts" /\ run.op = "summary" /\ run.todo = <<>>
    /\ run' = [run EXCEPT !.pc = "critical",
                          !.open = AllOpen]
    /\ Reads

CountCritical ==
    /\ run.pc = "critical"
    /\ run' = [run EXCEPT !.pc = "done", !.critical = AllAlerts("critical")]
    /\ Reads

\* run_scenario updates last_run_at: the scenario must still be there.
Stamp ==
    /\ run.pc = "stamp"
    /\ run' = [run EXCEPT !.pc = IF run.gone THEN "failed" ELSE "done"]
    /\ Reads

\* The answer is delivered.
Deliver ==
    /\ run.pc \in {"done", "failed"}
    /\ run' = NoRun
    /\ Reads

Reader ==
    \/ BeginSummary \/ BeginSimulate \/ BeginSaved
    \/ ListMissions \/ ReadLinks \/ ReadAssets
    \/ CountAlerts \/ AssureNext \/ CountOpen \/ CountCritical
    \/ Stamp \/ Deliver
-----------------------------------------------------------------------------
(* Writes of operators. *)
Write(lost, gone) ==
    /\ writes < MaxWrites /\ writes' = writes + 1
    /\ run' = IF run = NoRun THEN run
              ELSE [run EXCEPT !.dirty = TRUE, !.lost = @ \/ lost,
                               !.gone = @ \/ gone]

NoLinks == [a \in Assets |-> None]

CreateMission(m) ==
    /\ m \notin ToSet(missions) \cup ToSet(run.listed)
    /\ missions' = <<m>> \o missions
    /\ Write(FALSE, FALSE)
    /\ UNCHANGED <<links, fleet, alerts, saved>>

\* Its links go with it.
DeleteMission(m) ==
    /\ \E i \in DOMAIN missions :
         missions[i] = m /\ missions' = RemoveAt(missions, i)
    /\ links' = [links EXCEPT ![m] = NoLinks]
    /\ Write(FALSE, FALSE)
    /\ UNCHANGED <<fleet, alerts, saved>>

AttachAsset(m, a) ==
    /\ m \in ToSet(missions) /\ fleet[a] # None /\ links[m][a] = None
    /\ \E c \in Criticality : links' = [links EXCEPT ![m][a] = c]
    /\ Write(FALSE, FALSE)
    /\ UNCHANGED <<missions, fleet, alerts, saved>>

DetachAsset(m, a) ==
    /\ links[m][a] # None
    /\ links' = [links EXCEPT ![m][a] = None]
    /\ Write(FALSE, FALSE)
    /\ UNCHANGED <<missions, fleet, alerts, saved>>

\* An id is not used again: what a request has seen deleted stays so.
CreateAsset(a) ==
    /\ fleet[a] = None /\ ~run.lost
    /\ \E s \in AssetStatus : fleet' = [fleet EXCEPT ![a] = s]
    /\ Write(FALSE, FALSE)
    /\ UNCHANGED <<missions, links, alerts, saved>>

UpdateAsset(a) ==
    /\ fleet[a] # None
    /\ \E s \in AssetStatus \ {fleet[a]} : fleet' = [fleet EXCEPT ![a] = s]
    /\ Write(FALSE, FALSE)
    /\ UNCHANGED <<missions, links, alerts, saved>>

\* Seeded fault: the links stay.
DeleteAssetOnly(a) ==
    /\ fleet[a] # None
    /\ fleet' = [fleet EXCEPT ![a] = None]
    /\ Write(TRUE, FALSE)
    /\ UNCHANGED <<missions, links, alerts, saved>>

\* AssetService.delete: its links go with it, its alerts are about no asset.
DeleteAsset(a) ==
    /\ fleet[a] # None
    /\ fleet' = [fleet EXCEPT ![a] = None]
    /\ links' = [m \in Missions |-> [links[m] EXCEPT ![a] = None]]
    /\ alerts' = [alerts EXCEPT
         ![None] = [critical |-> @.critical + alerts[a].critical,
                    other    |-> @.other + alerts[a].other],
         ![a] = [critical |-> 0, other |-> 0]]
    /\ Write(TRUE, FALSE)
    /\ UNCHANGED <<missions, saved>>

\* An alert, about an asset or none, is raised (or reopened), and resolved.
RaiseAlert(a, kind) ==
    /\ a \in Assets => fleet[a] # None
    /\ Open(a) < MaxAlerts
    /\ alerts' = [alerts EXCEPT ![a][kind] = @ + 1]
    /\ Write(FALSE, FALSE)
    /\ UNCHANGED <<missions, links, fleet, saved>>

ResolveAlert(a, kind) ==
    /\ alerts[a][kind] > 0
    /\ alerts' = [alerts EXCEPT ![a][kind] = @ - 1]
    /\ Write(FALSE, FALSE)
    /\ UNCHANGED <<missions, links, fleet, saved>>

CreateScenario ==
    /\ saved = None
    /\ saved' \in Scenarios
    /\ Write(FALSE, FALSE)
    /\ UNCHANGED <<missions, links, fleet, alerts>>

DeleteScenario ==
    /\ saved # None
    /\ saved' = None
    /\ Write(FALSE, run.op = "saved")
    /\ UNCHANGED <<missions, links, fleet, alerts>>

Operator ==
    \/ \E m \in Missions :
         \/ CreateMission(m) \/ DeleteMission(m)
         \/ \E a \in Assets : AttachAsset(m, a) \/ DetachAsset(m, a)
    \/ \E a \in Assets : CreateAsset(a) \/ UpdateAsset(a) \/ DeleteAsset(a)
    \/ \E a \in Assets \cup {None}, k \in {"critical", "other"} :
         RaiseAlert(a, k) \/ ResolveAlert(a, k)
    \/ CreateScenario \/ DeleteScenario

Next == Reader \/ Operator

Spec == Init /\ [][Next]_vars
-----------------------------------------------------------------------------
(* What a finished request answers. *)

\* The snapshot a mission is scored in: the twin leaves out an asset it did
\* not find.
Snapshot(m) ==
    [a \in Assets |-> [status |-> run.status[a], alerts |-> run.alerts[m][a],
                       removed |-> run.status[a] = None]]

Baseline  == [m \in ToSet(run.listed) |-> Score(run.links[m], Snapshot(m))]
Projected == [m \in ToSet(run.listed) |->
                Score(run.links[m], Apply(Snapshot(m), run.scenario))]

Average(score) ==
    IF run.listed = <<>> THEN 100
    ELSE RoundDiv(SumFunction(score), Len(run.listed))

AtRisk(score) == {m \in DOMAIN score : Health(score[m]) = "at_risk"}

Answered == run.pc = "done"
Simulated == Answered /\ run.op \in {"simulate", "saved"}

\* threat_level of the summary.
Threat(open, critical) ==
    IF critical >= 3 THEN "severe" ELSE IF critical >= 1 THEN "high"
    ELSE IF open >= 3 THEN "elevated" ELSE "low"
-----------------------------------------------------------------------------
(***************************************************************************)
(* Properties.                                                             *)
(***************************************************************************)
Phases == {"idle", "missions", "links", "assets", "alerts", "critical",
           "stamp", "done", "failed"}

RunRecord ==
    [op : {"none", "summary", "simulate", "saved"}, pc : Phases,
     scenario : Seq(Perturbation), todo : Seq(Missions), listed : Seq(Missions),
     links : {<<>>} \cup Links, status : {<<>>} \cup Fleet,
     alerts : {<<>>} \cup [Missions -> [Assets -> Nat]],
     open : Nat, critical : Nat,
     dirty : BOOLEAN, lost : BOOLEAN, gone : BOOLEAN]

\* Types; no link and no open alert is about an asset that is not there.
TypeOK ==
    /\ missions \in Seq(Missions)
    /\ links \in Links /\ fleet \in Fleet /\ alerts \in Alerts
    /\ Referential(links, fleet, alerts)
    /\ saved \in Scenarios \cup {None} /\ run \in RunRecord
    /\ writes \in 0 .. MaxWrites

\* What the tables say of a mission now.
LiveScore(m) ==
    Score(links[m], [a \in Assets |-> [status |-> fleet[a], alerts |-> Open(a),
                                       removed |-> FALSE]])

\* "The twin's baseline must equal the live MissionIQ score exactly"
\* (test_digitaltwin.py): if nothing was written since the request began,
\* the summary and the twin's baseline are both what the tables say, for
\* the PageLimit newest missions, an empty scenario changes no score, and
\* the threat level is what the open alerts make it.
QuietRunIsLive ==
    Answered /\ ~run.dirty =>
        /\ ToSet(run.listed) =
             {missions[i] : i \in {j \in DOMAIN missions : j <= PageLimit}}
        /\ \A m \in ToSet(run.listed) :
             /\ Baseline[m] = LiveScore(m)
             /\ run.scenario = <<>> => Projected[m] = LiveScore(m)
        /\ run.op = "summary" =>
             Threat(run.open, run.critical) = Threat(AllOpen, AllAlerts("critical"))

\* A scenario that only damages (outages, more alerts) raises no score and
\* no average, however writes fall between the statements of the snapshot,
\* and what is newly at risk accounts for the missions at risk.
DamageNeverHelps ==
    Simulated /\ (\A i \in DOMAIN run.scenario :
                     run.scenario[i].kind \in {"offline", "add_alerts"}) =>
        /\ \A m \in ToSet(run.listed) : Projected[m] <= Baseline[m]
        /\ Average(Projected) <= Average(Baseline)
        /\ AtRisk(Baseline) \subseteq AtRisk(Projected)

\* The loss of an asset never lowers a score: its penalties go with it.  A
\* mission is never newly at risk because it lost an asset.
RemovalNeverLowers ==
    Simulated /\ (\A i \in DOMAIN run.scenario :
                     run.scenario[i].kind = "remove_asset") =>
        /\ \A m \in ToSet(run.listed) : Projected[m] >= Baseline[m]
        /\ AtRisk(Projected) \subseteq AtRisk(Baseline)

\* A request fails only for a reason: its scenario names an asset that is
\* not there, or the scenario is deleted while it runs, or (a summary) an
\* asset is.  The twin does not fail when an asset is deleted meanwhile.
FailureHasCause ==
    run.pc = "failed" =>
        \/ run.listed = <<>> /\ run.scenario # <<>>
        \/ run.op = "saved" /\ run.gone
        \/ run.op = "summary" /\ run.lost
-----------------------------------------------------------------------------
(* The inductive invariant. *)

LinksRead  == {"assets", "alerts", "critical", "stamp", "done"}
AssetsRead == LinksRead \ {"assets"}

\* What the request has read is there to be used, and a link it has read
\* leads to an asset unless one was deleted since.
ReadSoFar ==
    /\ run.pc \in LinksRead => run.links \in Links
    /\ run.pc \in AssetsRead =>
         /\ run.status \in Fleet
         /\ run.alerts \in [Missions -> [Assets -> Nat]]
    /\ run.pc = "stamp" => run.op = "saved"
    /\ run.pc = "critical" => run.op = "summary"
    /\ ~run.lost => \A m \in Missions, a \in Assets :
         /\ run.pc = "assets" /\ Names(m, a) => fleet[a] # None
         /\ run.pc = "alerts" /\ Names(m, a) => run.status[a] # None

\* What the request has read is what the tables hold, up to the first write.
Undisturbed ==
    ~run.dirty =>
        /\ run.pc \in LinksRead \cup {"links"} => run.listed = Newest
        /\ run.pc \in {"links", "assets"} => run.todo = run.listed
        /\ run.pc \in LinksRead => run.links = links
        /\ run.pc \in AssetsRead => run.status = fleet
        /\ run.pc \in {"stamp", "done"} /\ run.op # "summary" =>
             \A m \in Missions, a \in Assets : run.alerts[m][a] = Open(a)
        /\ run.pc \in AssetsRead /\ run.op = "summary" =>
             \A m \in ToSet(run.listed) \ ToSet(run.todo), a \in Assets :
                run.alerts[m][a] = Open(a)
        /\ run.pc \in {"critical", "done"} /\ run.op = "summary" =>
             run.todo = <<>> /\ run.open = AllOpen
        /\ run.pc = "done" /\ run.op = "summary" =>
             run.critical = AllAlerts("critical")

AssuranceInv == TypeOK /\ ReadSoFar /\ Undisturbed /\ FailureHasCause
=============================================================================
