-------------------------------- MODULE Desk --------------------------------
(***************************************************************************)
(* The operators' desk: triage of alerts (services/alerts.py), the status  *)
(* and timeline of one incident (services/incidents.py), notifications of  *)
(* critical alerts (services/notifications.py), and the analyses and       *)
(* reports about them (services/sentinel/engine.py, services/reports.py).  *)
(* A request is a transaction, but for a report, which commits what the    *)
(* assistant adds before itself; its statements are steps, and another     *)
(* request may run between any two.                                        *)
(*                                                                         *)
(* A field of an alert is 0 or 1: for "incident", whether it is linked to  *)
(* the incident; for "status", whether it is resolved.  The alerts that    *)
(* ingestion and correlation write are Ingestion's and ThreatIntel's.      *)
(***************************************************************************)
EXTENDS Naturals, FiniteSets, Sequences

CONSTANTS
    Users,
    Requests,   \* requests the server may be working on at once
    Statuses,   \* of an incident, "open" among them
    Fields,     \* the fields of an alert that triage edits
    PageLimit,  \* alerts of an incident that an analysis or a report reads
    MaxAlerts,  \* bound: alerts ever inserted
    MaxReports, \* bound: reports ever written
    MaxStarted  \* bound: requests ever started

ASSUME DeskAssumption ==
    /\ "open" \in Statuses /\ {"status", "incident"} \subseteq Fields
    /\ {PageLimit, MaxAlerts, MaxReports, MaxStarted} \subseteq Nat

VARIABLES
    status,   \* the incident's
    timeline, \* its events; each is dated by the start of its transaction
    alerts,   \* alerts in order of insertion, each a function of Fields
    dates,    \* created_at of each: the start of its transaction
    admins,   \* administrators of the workspace
    prefs,    \* each user's preferences: no row, or whether alerts are muted
    inbox,    \* alerts each user has been notified of: unread and read
    reports,  \* reports, as written
    work,     \* what each request has read and is about to write
    started,  \* number of requests started: the clock of the database
    muddled,  \* history: dates of the status changes that overlapped another
    due,      \* history: of each alert, who had to hear of it, and who might
    heard,    \* history: the same, for an alert not yet committed
    quiet     \* history: no other request has committed since this one began

tables == <<status, timeline, alerts, dates, admins, prefs, inbox, reports>>
history == <<muddled, due, quiet>>
vars == <<tables, work, started, history, heard>>

Event(at, kind, from, to) == [at |-> at, kind |-> kind, from |-> from, to |-> to]
NewAlert == [f \in Fields |-> 0]
Nobody == [always |-> {}, admin |-> {}, unmuted |-> {}]
Idle == [op |-> "none", phase |-> "none", began |-> 0]

Linked == {a \in DOMAIN alerts : alerts[a]["incident"] = 1}
\* alerts.list of an incident: the newest, up to its limit.
LinkedPage ==
    {a \in Linked : Cardinality({b \in Linked : dates[b] > dates[a]}) < PageLimit}
OpenAlerts == {a \in DOMAIN alerts : alerts[a]["status"] = 0}
Unmuted == {u \in Users : prefs[u] # "muted"}

Init ==
    /\ status = "open" /\ timeline = {}
    /\ \E i \in 0..1 : alerts = <<[NewAlert EXCEPT !["incident"] = i]>>
    /\ dates = <<0>>
    /\ \E u \in Users : admins = {u}
    /\ prefs \in [Users -> {"none", "muted"}]
    /\ inbox = [u \in Users |-> [unread |-> {}, read |-> {}]]
    /\ reports = {}
    /\ work = [r \in Requests |-> Idle]
    /\ started = 0
    /\ muddled = {} /\ due = <<Nobody>>
    /\ heard = [r \in Requests |-> Nobody]
    /\ quiet = [r \in Requests |-> FALSE]

\* Request r starts: it is dated, and loads what rest says.
Start(r, op, phase, rest) ==
    /\ work[r].op = "none" /\ started < MaxStarted
    /\ started' = started + 1
    /\ work' = [work EXCEPT ![r] =
         [op |-> op, phase |-> phase, began |-> started + 1, doing |-> rest]]
    /\ LET others == {work[q].began : q \in {p \in Requests : work[p].op = "status"}}
       IN  muddled' = IF op = "status" /\ others # {}
                        THEN muddled \cup others \cup {started + 1} ELSE muddled
    /\ quiet' = [quiet EXCEPT ![r] = TRUE]
    /\ UNCHANGED <<tables, due>>

At(r, op, phase) == work[r].op = op /\ work[r].phase = phase
Goto(r, phase, rest) ==
    work' = [work EXCEPT ![r] =
         [op |-> @.op, phase |-> phase, began |-> @.began, doing |-> rest]]
Done(r) == work' = [work EXCEPT ![r] = Idle]
Commit(r) ==
    /\ quiet' = [q \in Requests |-> quiet[q] /\ q = r]
    /\ UNCHANGED <<started, muddled>>
-----------------------------------------------------------------------------
(* The incident. *)

\* update, up to the incident it loads; and add_note.
ChangeStatus(r) ==
    \E s \in Statuses : Start(r, "status", "commit", [from |-> status, to |-> s])
AddNote(r) == Start(r, "note", "commit", <<>>)

\* Seeded fault: the new status is compared after it has been set.
CommitStatusUntold(r) ==
    LET c == work[r].doing IN
    /\ At(r, "status", "commit")
    /\ status' = IF c.from = c.to THEN status ELSE c.to
    /\ Done(r) /\ Commit(r)
    /\ UNCHANGED <<timeline, alerts, dates, admins, prefs, inbox, reports, due>>

\* The event and the status, if it differs from the one loaded.
CommitStatus(r) ==
    LET c == work[r].doing IN
    /\ At(r, "status", "commit")
    /\ status' = IF c.from = c.to THEN status ELSE c.to
    /\ timeline' = IF c.from = c.to THEN timeline
                   ELSE timeline \cup {Event(work[r].began, "status", c.from, c.to)}
    /\ Done(r) /\ Commit(r)
    /\ UNCHANGED <<alerts, dates, admins, prefs, inbox, reports, due>>

CommitNote(r) ==
    /\ At(r, "note", "commit")
    /\ timeline' = timeline \cup {Event(work[r].began, "note", "", "")}
    /\ Done(r) /\ Commit(r)
    /\ UNCHANGED <<status, alerts, dates, admins, prefs, inbox, reports, due>>
-----------------------------------------------------------------------------
(* Triage. *)

\* update, up to the alert it loads: the fields the body sets.
Triage(r) ==
    \E a \in DOMAIN alerts, set \in SUBSET Fields \ {{}} :
        \E to \in [set -> 0..1] :
            Start(r, "triage", "commit", [alert |-> a, seen |-> alerts[a], to |-> to])

\* Seeded fault: the row is written as it was loaded.
CommitTriageRow(r) ==
    LET c == work[r].doing IN
    /\ At(r, "triage", "commit")
    /\ alerts' = [alerts EXCEPT ![c.alert] =
         [f \in Fields |-> IF f \in DOMAIN c.to THEN c.to[f] ELSE c.seen[f]]]
    /\ Done(r) /\ Commit(r)
    /\ UNCHANGED <<status, timeline, dates, admins, prefs, inbox, reports, due>>

\* The fields that differ from what was loaded are written.
CommitTriage(r) ==
    LET c == work[r].doing IN
    /\ At(r, "triage", "commit")
    /\ alerts' = [alerts EXCEPT ![c.alert] =
         [f \in Fields |-> IF f \in DOMAIN c.to /\ c.to[f] # c.seen[f] THEN c.to[f] ELSE @[f]]]
    /\ Done(r) /\ Commit(r)
    /\ UNCHANGED <<status, timeline, dates, admins, prefs, inbox, reports, due>>
-----------------------------------------------------------------------------
(* A new alert and its notifications. *)

\* create; a critical alert of the workspace is about to be told of.
CreateAlert(r) ==
    \E critical \in BOOLEAN :
        Start(r, "alert", IF critical THEN "admins" ELSE "commit",
              [critical |-> critical, left |-> {}, tell |-> {}])

\* notify_workspace_admins: who they are.
SelectAdmins(r) ==
    /\ At(r, "alert", "admins")
    /\ Goto(r, IF admins = {} THEN "commit" ELSE "notify",
            [work[r].doing EXCEPT !.left = admins])
    /\ UNCHANGED <<tables, started, history>>

\* notify, one of them at a time, unless the kind is muted.
Notify(r) ==
    LET c == work[r].doing IN
    /\ At(r, "alert", "notify")
    /\ \E u \in c.left :
         Goto(r, IF c.left = {u} THEN "commit" ELSE "notify",
              [c EXCEPT !.left = @ \ {u},
                        !.tell = IF prefs[u] = "muted" THEN @ ELSE @ \cup {u}])
    /\ UNCHANGED <<tables, started, history>>

Told(tell) ==
    inbox' = [u \in Users |-> IF u \in tell
                THEN [inbox[u] EXCEPT !.unread = @ \cup {Len(alerts) + 1}] ELSE inbox[u]]

\* Seeded fault: the alert is committed before its notifications are written.
CommitAlertFirst(r) ==
    /\ work[r].op = "alert" /\ work[r].phase \in {"notify", "commit"}
    /\ Len(alerts) < MaxAlerts
    /\ alerts' = Append(alerts, NewAlert) /\ dates' = Append(dates, work[r].began)
    /\ due' = Append(due, heard[r])
    /\ Told(work[r].doing.tell)
    /\ Done(r) /\ Commit(r)
    /\ UNCHANGED <<status, timeline, admins, prefs, reports>>

\* The alert and its notifications are committed together.
CommitAlert(r) ==
    /\ At(r, "alert", "commit") /\ Len(alerts) < MaxAlerts
    /\ alerts' = Append(alerts, NewAlert) /\ dates' = Append(dates, work[r].began)
    /\ due' = Append(due, heard[r])
    /\ Told(work[r].doing.tell)
    /\ Done(r) /\ Commit(r)
    /\ UNCHANGED <<status, timeline, admins, prefs, reports>>

\* mark_read, and mark_all_read, which is one statement.
MarkRead(r) ==
    \E u \in Users : \E a \in inbox[u].unread :
        Start(r, "read", "commit", [user |-> u, alert |-> a])

CommitRead(r) ==
    LET c == work[r].doing IN
    /\ At(r, "read", "commit")
    /\ inbox' = [inbox EXCEPT ![c.user] =
         [unread |-> @.unread \ {c.alert}, read |-> @.read \cup {c.alert}]]
    /\ Done(r) /\ Commit(r)
    /\ UNCHANGED <<status, timeline, alerts, dates, admins, prefs, reports, due>>

MarkAllRead(u) ==
    /\ inbox[u].unread # {}
    /\ inbox' = [inbox EXCEPT ![u] = [unread |-> {}, read |-> @.unread \cup @.read]]
    /\ UNCHANGED <<status, timeline, alerts, dates, admins, prefs, reports, work, started, history>>

\* PreferenceService.put: the row it did not find it inserts, and fails if
\* there is one by then.
PutPreferences(r) ==
    \E u \in Users, to \in {"muted", "loud"} :
        Start(r, "prefs", "commit", [user |-> u, seen |-> prefs[u], to |-> to])

CommitPreferences(r) ==
    LET c == work[r].doing IN
    /\ At(r, "prefs", "commit")
    /\ prefs' = IF c.seen = "none" /\ prefs[c.user] # "none" THEN prefs
                ELSE [prefs EXCEPT ![c.user] = c.to]
    /\ Done(r) /\ Commit(r)
    /\ UNCHANGED <<status, timeline, alerts, dates, admins, inbox, reports, due>>

\* A user is made an administrator, or ceases to be one, in one step.
Membership(u) ==
    /\ started < MaxStarted /\ started' = started + 1
    /\ admins' = IF u \in admins THEN admins \ {u} ELSE admins \cup {u}
    /\ UNCHANGED <<status, timeline, alerts, dates, prefs, inbox, reports, work, history>>
-----------------------------------------------------------------------------
(* Analyses and reports. *)

\* analyze_incident on its own, or in a report: the incident is loaded with
\* its timeline.  An executive report begins with the fleet's open alerts.
Analyze(r) == Start(r, "analysis", "linked", [from |-> status, rows |-> timeline])
ReportIncident(r) == Start(r, "report", "linked", [from |-> status, rows |-> timeline])
ReportFleet(r) == Start(r, "fleet", "chat", [first |-> OpenAlerts])

\* The newest alerts linked to the incident; the provider, asked to refine the
\* draft, answers or does not, and the draft is good enough.
ReadLinked(r) ==
    /\ work[r].op \in {"analysis", "report"} /\ work[r].phase = "linked"
    /\ Goto(r, "analysed", [from |-> work[r].doing.from, rows |-> work[r].doing.rows,
                            first |-> LinkedPage])
    /\ UNCHANGED <<tables, started, history>>

\* The event that says so is committed, and a report goes on from there.
CommitAnalysis(r) ==
    /\ work[r].op \in {"analysis", "report"} /\ work[r].phase = "analysed"
    /\ timeline' = timeline \cup {Event(work[r].began, "ai_analysis", "", "")}
    /\ IF work[r].op = "report"
         THEN Goto(r, "evidence", work[r].doing) ELSE Done(r)
    /\ Commit(r)
    /\ UNCHANGED <<status, alerts, dates, admins, prefs, inbox, reports, due>>

\* The evidence is selected anew; the narrative is told from a second count.
ReadAgain(r) ==
    LET c == work[r].doing IN
    /\ \/ At(r, "report", "evidence")
          /\ Goto(r, "write", [about |-> "incident", from |-> c.from, rows |-> c.rows,
                               first |-> c.first, second |-> LinkedPage])
       \/ At(r, "fleet", "chat")
          /\ Goto(r, "write", [about |-> "fleet", first |-> c.first, second |-> OpenAlerts])
    /\ UNCHANGED <<tables, started, history>>

\* Seeded fault: the timeline is read back after the analysis.
WriteReportAfter(r) ==
    /\ work[r].op \in {"report", "fleet"} /\ work[r].phase = "write"
    /\ Cardinality(reports) < MaxReports
    /\ reports' = reports \cup
         {[said |-> IF work[r].op = "fleet" THEN work[r].doing
                    ELSE [work[r].doing EXCEPT !.rows = timeline],
           began |-> work[r].began, quiet |-> quiet[r],
           now |-> [status |-> status, timeline |-> timeline,
                    page |-> LinkedPage, open |-> OpenAlerts]]}
    /\ Done(r) /\ Commit(r)
    /\ UNCHANGED <<status, timeline, alerts, dates, admins, prefs, inbox, due>>

\* The report is written, beside what the tables hold at that moment.
WriteReport(r) ==
    /\ work[r].op \in {"report", "fleet"} /\ work[r].phase = "write"
    /\ Cardinality(reports) < MaxReports
    /\ reports' = reports \cup
         {[said |-> work[r].doing, began |-> work[r].began, quiet |-> quiet[r],
           now |-> [status |-> status, timeline |-> timeline,
                    page |-> LinkedPage, open |-> OpenAlerts]]}
    /\ Done(r) /\ Commit(r)
    /\ UNCHANGED <<status, timeline, alerts, dates, admins, prefs, inbox, due>>

\* A request is refused or fails; what it has already committed stays.
Fail(r) ==
    /\ work[r].op # "none"
    /\ Done(r)
    /\ UNCHANGED <<tables, started, history>>
-----------------------------------------------------------------------------
\* Who has administered and listened ever since the request for a critical
\* alert began, who has administered at some time, and who has listened.
Heard ==
    heard' = [r \in Requests |->
        IF work'[r].op # "alert" THEN Nobody
        ELSE IF ~work'[r].doing.critical THEN Nobody
        ELSE IF work[r].op # "alert"
          THEN [always |-> (admins \cap Unmuted)', admin |-> admins', unmuted |-> Unmuted']
        ELSE [always |-> heard[r].always \cap (admins \cap Unmuted)',
              admin |-> heard[r].admin \cup admins',
              unmuted |-> heard[r].unmuted \cup Unmuted']]

Handle(r) ==
    \/ ChangeStatus(r) \/ CommitStatus(r) \/ AddNote(r) \/ CommitNote(r)
    \/ Triage(r) \/ CommitTriage(r)
    \/ CreateAlert(r) \/ SelectAdmins(r) \/ Notify(r) \/ CommitAlert(r)
    \/ MarkRead(r) \/ CommitRead(r) \/ PutPreferences(r) \/ CommitPreferences(r)
    \/ Analyze(r) \/ ReportIncident(r) \/ ReportFleet(r)
    \/ ReadLinked(r) \/ CommitAnalysis(r) \/ ReadAgain(r) \/ WriteReport(r) \/ Fail(r)

Next ==
    /\ \/ \E r \in Requests : Handle(r)
       \/ \E u \in Users : MarkAllRead(u) \/ Membership(u)
    /\ Heard

Spec == Init /\ [][Next]_vars
-----------------------------------------------------------------------------
(***************************************************************************)
(* Properties.                                                             *)
(***************************************************************************)

StatusEvents == {e \in timeline : e.kind = "status"}
Before(e) == {d \in StatusEvents : d.at < e.at}
LastOf(es) == CHOOSE e \in es : \A d \in es : d.at <= e.at
StatusAfter(es) == IF es = {} THEN "open" ELSE LastOf(es).to

\* The latest of these changes overlapped no other.
Clear(es) == es = {} \/ LastOf(es).at \notin muddled

\* The "append-only timeline" (models/incident.py), read in the order of its
\* dates, tells how the status came to be what it is: the status is what the
\* latest change left, and each change starts where the one before it ended.
\* A change that overlapped another is believed about neither; the next one
\* that meets nobody sets the story right (update, incidents.py).
TimelineTellsStatus ==
    /\ Clear(StatusEvents) => status = StatusAfter(StatusEvents)
    /\ \A e \in StatusEvents :
         e.at \notin muddled /\ Clear(Before(e)) => e.from = StatusAfter(Before(e))

\* update sets what the body sets (exclude_unset, alerts.py) on a row that
\* another request may have changed since it was loaded: a field that an edit
\* does not set is as the last edit to set it left it.
UnsetFieldsKept ==
    [][\A a \in DOMAIN alerts, f \in Fields :
         alerts'[a][f] # alerts[a][f] =>
           \E r \in Requests : /\ At(r, "triage", "commit")
                               /\ f \in DOMAIN work[r].doing.to
                               /\ work[r].doing.to[f] = alerts'[a][f]]_vars

\* notify_workspace_admins runs in the transaction of the alert (alerts.py),
\* one statement for the administrators and one for each of their mutes:
\* whoever administered the workspace, alerts not muted, all the while a
\* critical alert was being created is notified of it, and nobody is who
\* never administered it then, or had alerts muted all the while.
ListenersAreTold ==
    \A a \in DOMAIN alerts :
        LET told == {u \in Users : a \in inbox[u].unread \cup inbox[u].read} IN
        /\ due[a].always \subseteq told
        /\ told \subseteq due[a].admin \cap due[a].unmuted

\* "A report never diverges from what operators see" (reports.py): one that no
\* other commit overlapped agrees with the tables and with itself, but for the
\* event of its own analysis, which is there and which it does not show, and
\* for the linked alerts past the newest PageLimit (limit=100), which neither
\* the analysis nor the evidence shows.
QuietReportAgrees ==
    \A p \in reports : p.quiet =>
        LET own == Event(p.began, "ai_analysis", "", "") IN
        /\ p.said.first = p.said.second
        /\ p.said.about = "fleet" => p.said.second = p.now.open
        /\ p.said.about = "incident" =>
             /\ p.said.from = p.now.status /\ p.said.second = p.now.page
             /\ own \in p.now.timeline /\ p.said.rows = p.now.timeline \ {own}
=============================================================================
