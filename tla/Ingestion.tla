----------------------------- MODULE Ingestion -----------------------------
(***************************************************************************)
(* The live-data polling loops (services/ingestion/scheduler.py), the      *)
(* shared conjunction pipeline (IngestionService._process_conjunctions)    *)
(* and the database sinks it drives (services/ingestion/sinks.py), run by  *)
(* every API process against one database, while operators edit alerts     *)
(* and open incidents through the HTTP API.                                *)
(*                                                                         *)
(* A database transaction is a read step and a commit step; everything     *)
(* else may happen between the two.                                        *)
(***************************************************************************)
EXTENDS Naturals, Sequences, FiniteSets

CONSTANTS
    Hosts,         \* API processes
    Loops,         \* the polling tasks of all of them
    Host,          \* Host[l]: the API process that runs loop l
    Kind,          \* Kind[l] \in {"conjunctions", "weather", "catalog"}
    Keys,          \* dedupe keys
    Objects,       \* catalogued objects (norad_cat_id)
    Pair,          \* Pair[k]: the objects the conjunction keyed k involves
    Feed,          \* Feed[l]: the record sequences the source of l may return
    CatalogBatches,\* sets of objects a catalog download may return
    Operators,     \* request handlers working on alerts and incidents
    None,          \* SQL NULL
    MaxManual,     \* bound: incidents operators open
    MaxStops       \* bound: stops (or crashes) of an API process

Severities == {"INFO", "LOW", "MEDIUM", "HIGH", "CRITICAL"}
Record == [key: Keys, severity: Severities \cup {None}]

ASSUME ConstantsAssumption ==
    /\ Host \in [Loops -> Hosts]
    /\ Kind \in [Loops -> {"conjunctions", "weather", "catalog"}]
    /\ Pair \in [Keys -> SUBSET Objects]
    /\ \A l \in Loops : Feed[l] \subseteq Seq(Record)
    /\ CatalogBatches \subseteq SUBSET Objects
    /\ None \notin Nat /\ None \notin Severities
    /\ MaxManual \in Nat /\ MaxStops \in Nat

VARIABLES
    alerts,     \* rows of table alerts, in insertion order
    incidents,  \* rows of table incidents, in insertion order
    tracked,    \* primary keys of table asset_ephemeris
    pc,         \* where each loop's task is suspended
    batch,      \* records the poll has still to process
    wanted,     \* objects the poll asks the catalog mirror about
    known,      \* ... and those its SELECT found there
    target,     \* the alert row a loop's session has loaded
    edit,       \* the PATCH an operator's request has in progress
    stops       \* process stops so far

tables == <<alerts, incidents, tracked>>
tasks  == <<pc, batch, wanted, known, target>>
vars   == <<tables, tasks, edit, stops>>

AlertRow    == [key: Keys, severity: Severities, incident: Nat \cup {None}]
IncidentRow == [auto: BOOLEAN, alert: Nat]
Edit        == [alert: Nat, seen: Nat \cup {None}, link: Nat \cup {None}]
NoEdit      == [alert |-> 0, seen |-> None, link |-> None]
PCs == {"asleep", "lookup", "submit", "insert", "escalate", "link",
        "upsert", "stopped"}

Init ==
    /\ alerts = <<>> /\ incidents = <<>>
    /\ tracked \in SUBSET Objects
    /\ pc     = [l \in Loops |-> "asleep"]
    /\ batch  = [l \in Loops |-> <<>>]
    /\ wanted = [l \in Loops |-> {}]
    /\ known  = [l \in Loops |-> {}]
    /\ target = [l \in Loops |-> 0]
    /\ edit   = [o \in Operators |-> NoEdit]
    /\ stops  = 0

(***************************************************************************)
(* Helpers.                                                                *)
(***************************************************************************)
HasAlert(k) == \E a \in DOMAIN alerts : alerts[a].key = k

Involved(b) == UNION {Pair[b[i].key] : i \in DOMAIN b}

\* The loop's task goes back to sleep: the poll returned, or _loop logged
\* its exception.  Nothing of the poll survives it.
Park(l, where) ==
    /\ pc'     = [pc EXCEPT ![l] = where]
    /\ batch'  = [batch EXCEPT ![l] = <<>>]
    /\ wanted' = [wanted EXCEPT ![l] = {}]
    /\ known'  = [known EXCEPT ![l] = {}]
    /\ target' = [target EXCEPT ![l] = 0]

\* Seeded fault: "return" where the loop over the records continues.
NextRecordReturns(l) == Park(l, "asleep")

\* The record at the head of the batch is done with.
NextRecord(l) ==
    IF Len(batch[l]) = 1
      THEN Park(l, "asleep")
      ELSE /\ pc'     = [pc EXCEPT ![l] = "submit"]
           /\ batch'  = [batch EXCEPT ![l] = Tail(@)]
           /\ target' = [target EXCEPT ![l] = 0]
           /\ UNCHANGED <<wanted, known>>

\* A loop moves on without touching the database.
Goto(l, where) ==
    /\ pc' = [pc EXCEPT ![l] = where]
    /\ UNCHANGED <<batch, wanted, known, target>>

InvolvesTracked(l) == Pair[Head(batch[l]).key] \cap known[l] # {}

\* Seeded fault: the severity test of the escalation rule without the tracked test.
EscalatesAnyCritical(l) ==
    /\ Kind[l] = "conjunctions"
    /\ Head(batch[l]).severity = "CRITICAL"

\* The escalation rule, evaluated with the tracked set read at the start
\* of the poll.
Escalates(l) ==
    /\ Kind[l] = "conjunctions"
    /\ InvolvesTracked(l)
    /\ Head(batch[l]).severity = "CRITICAL"
-----------------------------------------------------------------------------
(***************************************************************************)
(* Seeded faults: variants of the actions below, each a plausible slip.    *)
(* The checks substitute them one at a time to show a property can fail.   *)
(***************************************************************************)

\* Escalating whether or not submit reported a new alert.
EscalateDeduped(l) ==
    /\ pc[l] = "submit" /\ Head(batch[l]).severity # None
    /\ IF HasAlert(Head(batch[l]).key)
         THEN IF Escalates(l) THEN Goto(l, "escalate") ELSE NextRecord(l)
         ELSE Goto(l, "insert")
    /\ UNCHANGED <<tables, edit, stops>>

\* The idempotency test of escalate turned around.
EscalateSelectInverted(l) ==
    /\ pc[l] = "escalate"
    /\ \E a \in DOMAIN alerts :
         /\ alerts[a].key = Head(batch[l]).key
         /\ IF alerts[a].incident = None
              THEN NextRecord(l)
              ELSE /\ target' = [target EXCEPT ![l] = a]
                   /\ pc' = [pc EXCEPT ![l] = "link"]
                   /\ UNCHANGED <<batch, wanted, known>>
    /\ UNCHANGED <<tables, edit, stops>>

\* A refresh that replaces the mirror instead of merging into it.
UpsertReplaces(l) ==
    /\ pc[l] = "upsert"
    /\ tracked' = wanted[l]
    /\ Park(l, "asleep")
    /\ UNCHANGED <<alerts, incidents, edit, stops>>
-----------------------------------------------------------------------------
(***************************************************************************)
(* One poll of a source.                                                   *)
(***************************************************************************)

\* The cadence elapses and the source answers.  An unavailable or empty
\* source is a poll that changes nothing.
FetchRecords(l) ==
    /\ pc[l] = "asleep" /\ Kind[l] # "catalog"
    /\ \E b \in Feed[l] :
         /\ b # <<>>
         /\ batch' = [batch EXCEPT ![l] = b]
         /\ IF Kind[l] = "conjunctions"
              THEN /\ pc' = [pc EXCEPT ![l] = "lookup"]
                   /\ wanted' = [wanted EXCEPT ![l] = Involved(b)]
              ELSE /\ pc' = [pc EXCEPT ![l] = "submit"]
                   /\ UNCHANGED wanted
    /\ UNCHANGED <<tables, known, target, edit, stops>>

FetchCatalog(l) ==
    /\ pc[l] = "asleep" /\ Kind[l] = "catalog"
    /\ \E c \in CatalogBatches \ {{}} :
         wanted' = [wanted EXCEPT ![l] = c]
    /\ pc' = [pc EXCEPT ![l] = "lookup"]
    /\ UNCHANGED <<tables, batch, known, target, edit, stops>>

\* DbTrackedAssetLookup.tracked, or the session.get()s of upsert_many.
ReadCatalog(l) ==
    /\ pc[l] = "lookup"
    /\ known' = [known EXCEPT ![l] = tracked \cap wanted[l]]
    /\ pc' = [pc EXCEPT ![l] =
                IF Kind[l] = "catalog" THEN "upsert" ELSE "submit"]
    /\ UNCHANGED <<tables, batch, wanted, target, edit, stops>>

\* The commit of upsert_many: rows found missing are inserted, and one that
\* appeared meanwhile is a primary-key violation that rolls the batch back.
UpsertCommit(l) ==
    /\ pc[l] = "upsert"
    /\ tracked' = IF (wanted[l] \ known[l]) \cap tracked = {}
                    THEN tracked \cup wanted[l] ELSE tracked
    /\ Park(l, "asleep")
    /\ UNCHANGED <<alerts, incidents, edit, stops>>

\* A record below every severity threshold raises nothing.
SkipRecord(l) ==
    /\ pc[l] = "submit" /\ Head(batch[l]).severity = None
    /\ NextRecord(l)
    /\ UNCHANGED <<tables, edit, stops>>

\* DbAlertSink.submit, its pre-check.
SubmitSelect(l) ==
    /\ pc[l] = "submit" /\ Head(batch[l]).severity # None
    /\ IF HasAlert(Head(batch[l]).key)
         THEN NextRecord(l)
         ELSE Goto(l, "insert")
    /\ UNCHANGED <<tables, edit, stops>>

\* DbAlertSink.submit, its INSERT and commit.  The unique index on
\* dedupe_key turns a concurrent insert into an IntegrityError, which ends
\* the poll.  Only the loop that did insert may go on to escalate.
SubmitCommit(l) ==
    LET r == Head(batch[l]) IN
    /\ pc[l] = "insert"
    /\ IF HasAlert(r.key)
         THEN Park(l, "asleep") /\ UNCHANGED alerts
         ELSE /\ alerts' = Append(alerts, [key |-> r.key,
                              severity |-> r.severity, incident |-> None])
              /\ IF Escalates(l) THEN Goto(l, "escalate") ELSE NextRecord(l)
    /\ UNCHANGED <<incidents, tracked, edit, stops>>

\* DbIncidentSink.escalate, its SELECT: an alert that already has an
\* incident is left alone.
EscalateSelect(l) ==
    /\ pc[l] = "escalate"
    /\ \E a \in DOMAIN alerts :
         /\ alerts[a].key = Head(batch[l]).key
         /\ IF alerts[a].incident # None
              THEN NextRecord(l)
              ELSE /\ target' = [target EXCEPT ![l] = a]
                   /\ pc' = [pc EXCEPT ![l] = "link"]
                   /\ UNCHANGED <<batch, wanted, known>>
    /\ UNCHANGED <<tables, edit, stops>>

\* ... and its commit: the incident, its first two timeline events and the
\* link from the alert, in one transaction.
EscalateCommit(l) ==
    /\ pc[l] = "link"
    /\ incidents' = Append(incidents, [auto |-> TRUE, alert |-> target[l]])
    /\ alerts' = [alerts EXCEPT ![target[l]].incident = Len(incidents) + 1]
    /\ NextRecord(l)
    /\ UNCHANGED <<tracked, edit, stops>>

\* An exception inside the poll (database, network, parsing): the open
\* transaction rolls back, _loop logs it and sleeps.
Fail(l) ==
    /\ pc[l] \notin {"asleep", "stopped"}
    /\ Park(l, "asleep")
    /\ UNCHANGED <<tables, edit, stops>>
-----------------------------------------------------------------------------
(***************************************************************************)
(* The process around the loops, and the operators beside them.            *)
(***************************************************************************)

\* IngestionScheduler.stop cancels every task wherever it is suspended; a
\* crash of the process does the same.
Stop(h) ==
    LET mine == {l \in Loops : Host[l] = h} IN
    /\ stops < MaxStops
    /\ \E l \in mine : pc[l] # "stopped"
    /\ pc'     = [l \in Loops |-> IF l \in mine THEN "stopped" ELSE pc[l]]
    /\ batch'  = [l \in Loops |-> IF l \in mine THEN <<>> ELSE batch[l]]
    /\ wanted' = [l \in Loops |-> IF l \in mine THEN {} ELSE wanted[l]]
    /\ known'  = [l \in Loops |-> IF l \in mine THEN {} ELSE known[l]]
    /\ target' = [l \in Loops |-> IF l \in mine THEN 0 ELSE target[l]]
    /\ stops' = stops + 1
    /\ UNCHANGED <<tables, edit>>

\* IngestionScheduler.start creates every loop anew.
Start(h) ==
    /\ \E l \in Loops : Host[l] = h /\ pc[l] = "stopped"
    /\ pc' = [l \in Loops |-> IF Host[l] = h THEN "asleep" ELSE pc[l]]
    /\ UNCHANGED <<tables, batch, wanted, known, target, edit, stops>>

\* AlertService.update: the handler loads the alert ...
PatchRead(o) ==
    /\ edit[o] = NoEdit
    /\ \E a \in DOMAIN alerts, i \in DOMAIN incidents \cup {None} :
         edit' = [edit EXCEPT ![o] = [alert |-> a,
                                      seen  |-> alerts[a].incident,
                                      link  |-> i]]
    /\ UNCHANGED <<tables, tasks, stops>>

\* ... and commits.  The ORM writes incident_id only if it differs from the
\* value the handler loaded.
PatchCommit(o) ==
    LET e == edit[o] IN
    /\ e # NoEdit
    /\ alerts' = IF e.link = e.seen THEN alerts
                 ELSE [alerts EXCEPT ![e.alert].incident = e.link]
    /\ edit' = [edit EXCEPT ![o] = NoEdit]
    /\ UNCHANGED <<incidents, tracked, tasks, stops>>

\* IncidentService.create: a new incident takes over every alert it lists.
OpenIncident ==
    /\ Cardinality({i \in DOMAIN incidents : ~incidents[i].auto}) < MaxManual
    /\ incidents' = Append(incidents, [auto |-> FALSE, alert |-> 0])
    /\ \E A \in SUBSET DOMAIN alerts :
         alerts' = [a \in DOMAIN alerts |->
                      IF a \in A
                        THEN [alerts[a] EXCEPT !.incident = Len(incidents) + 1]
                        ELSE alerts[a]]
    /\ UNCHANGED <<tracked, tasks, edit, stops>>

Poll(l) ==
    \/ FetchRecords(l) \/ FetchCatalog(l) \/ ReadCatalog(l) \/ UpsertCommit(l)
    \/ SkipRecord(l) \/ SubmitSelect(l) \/ SubmitCommit(l)
    \/ EscalateSelect(l) \/ EscalateCommit(l)

Next ==
    \/ \E l \in Loops : Poll(l) \/ Fail(l)
    \/ \E h \in Hosts : Stop(h) \/ Start(h)
    \/ \E o \in Operators : PatchRead(o) \/ PatchCommit(o) \/ OpenIncident

Spec == Init /\ [][Next]_vars

\* Without exceptions inside polls (stops stay, up to MaxStops); every loop
\* is a timer that fires again and again, and a supervisor restarts a
\* stopped process.  Operators are under no obligation.
SteadyNext ==
    \/ \E l \in Loops : Poll(l)
    \/ \E h \in Hosts : Stop(h) \/ Start(h)
    \/ \E o \in Operators : PatchRead(o) \/ PatchCommit(o) \/ OpenIncident

SteadySpec ==
    /\ Init /\ [][SteadyNext]_vars
    /\ \A l \in Loops : WF_vars(Poll(l))
    /\ \A h \in Hosts : WF_vars(Start(h))
-----------------------------------------------------------------------------
(***************************************************************************)
(* Properties.                                                             *)
(***************************************************************************)

\* Every variable stays in its type.
TypeOK ==
    /\ alerts \in Seq(AlertRow) /\ incidents \in Seq(IncidentRow)
    /\ tracked \subseteq Objects
    /\ pc \in [Loops -> PCs]
    /\ batch \in [Loops -> Seq(Record)]
    /\ wanted \in [Loops -> SUBSET Objects]
    /\ known \in [Loops -> SUBSET Objects]
    /\ target \in [Loops -> Nat]
    /\ edit \in [Operators -> Edit]
    /\ stops \in 0..MaxStops

\* Two processes polling the same source never leave two alerts for one
\* dedupe key ("dedupe makes that harmless", docs/phase-11).
UniqueDedupeKey ==
    \A a, b \in DOMAIN alerts : alerts[a].key = alerts[b].key => a = b

\* An incident the system opened names an alert that was stored as CRITICAL
\* and involves an object of the catalog mirror: a later sighting with
\* another severity never escalates an alert stored with a lower one.
AutoIncidentJustified ==
    \A i \in DOMAIN incidents : incidents[i].auto =>
        /\ incidents[i].alert \in DOMAIN alerts
        /\ alerts[incidents[i].alert].severity = "CRITICAL"
        /\ Pair[alerts[incidents[i].alert].key] \cap tracked # {}

\* However many loops race on one conjunction, and whatever operators do to
\* the link meanwhile, the system opens at most one incident for it.
OneAutoIncidentPerAlert ==
    \A i, j \in DOMAIN incidents :
        /\ incidents[i].auto /\ incidents[j].auto
        /\ incidents[i].alert = incidents[j].alert
        => i = j

\* A poll has met conjunction k and the escalation rule asks for an incident.
Met(k) == \E l \in Loops :
    pc[l] = "submit" /\ Head(batch[l]).key = k /\ Escalates(l)

\* The alert for k has been linked to an incident.
Answered(k) == \E a \in DOMAIN alerts :
    alerts[a].key = k /\ alerts[a].incident # None

\* "A CRITICAL conjunction where either object is a tracked asset auto-opens
\* an incident linked to the alert" (poll_conjunctions).
EscalationRule == \A k \in Keys : Met(k) ~> Answered(k)

\* Every record that deserves an alert gets one, even when the poll that
\* carries it is ended by another process's concurrent insert.
EveryRecordRaised ==
    \A k \in Keys :
        (\E l \in Loops : \E i \in DOMAIN batch[l] :
            batch[l][i].key = k /\ batch[l][i].severity # None)
        ~> \E a \in DOMAIN alerts : alerts[a].key = k

\* Refinement mapping to EscalationPromise.
Raised ==
    {[alert |-> a, key |-> alerts[a].key, severity |-> alerts[a].severity] :
        a \in DOMAIN alerts}

Automatic == {i \in DOMAIN incidents : incidents[i].auto}

Opened ==
    {[incident |-> i, key |-> alerts[incidents[i].alert].key] : i \in Automatic}

Promise == INSTANCE EscalationPromise
    WITH raised <- Raised, opened <- Opened, catalog <- tracked

\* The loops, their transactions and their failures implement the promise.
KeepsPromise == Promise!Spec
-----------------------------------------------------------------------------
(***************************************************************************)
(* The inductive invariant behind the safety properties.                   *)
(***************************************************************************)

\* A poll past its fetch holds records, and what it knows of the catalog
\* is still true there.
PollHoldsRecords ==
    \A l \in Loops :
        /\ pc[l] \in {"submit", "insert", "escalate", "link"} => batch[l] # <<>>
        /\ pc[l] = "lookup" /\ Kind[l] # "catalog" => batch[l] # <<>>
        /\ known[l] \subseteq tracked

\* A session that will insert holds a record with a severity.
InsertsRaise ==
    \A l \in Loops : pc[l] = "insert" => Head(batch[l]).severity # None

\* Every link and every automatic incident points at a row.
Escalating(l) == pc[l] \in {"escalate", "link"}

LinksResolve ==
    /\ \A a \in DOMAIN alerts : alerts[a].incident \in DOMAIN incidents \cup {None}
    /\ \A l \in Loops : pc[l] = "link" =>
          /\ target[l] \in DOMAIN alerts
          /\ alerts[target[l]].key = Head(batch[l]).key
    /\ \A o \in Operators : edit[o] # NoEdit =>
          /\ edit[o].alert \in DOMAIN alerts
          /\ edit[o].link \in DOMAIN incidents \cup {None}

\* A loop that escalates owns its alert: it inserted it, as CRITICAL, no
\* other loop escalates the same key, and no incident was opened for it yet.
EscalationOwned ==
    \A l \in Loops : Escalating(l) =>
        /\ Escalates(l)
        /\ HasAlert(Head(batch[l]).key)
        /\ \A a \in DOMAIN alerts : alerts[a].key = Head(batch[l]).key =>
              /\ alerts[a].severity = "CRITICAL"
              /\ \A i \in DOMAIN incidents :
                    incidents[i].auto => incidents[i].alert # a
        /\ \A m \in Loops : Escalating(m) /\ m # l =>
              Head(batch[m]).key # Head(batch[l]).key

IInv ==
    /\ TypeOK /\ PollHoldsRecords /\ InsertsRaise /\ LinksResolve
    /\ UniqueDedupeKey /\ EscalationOwned
    /\ AutoIncidentJustified /\ OneAutoIncidentPerAlert
=============================================================================
