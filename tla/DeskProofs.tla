----------------------------- MODULE DeskProofs -----------------------------
(***************************************************************************)
(* Theorems about Desk, for every set of users, requests, statuses and     *)
(* fields, and however the requests overlap.                               *)
(*                                                                         *)
(* TypeInv says what each kind of request carries; TimelineInv, ReportInv  *)
(* and HeardInv say what of it is still true while others commit.          *)
(***************************************************************************)
EXTENDS Desk, TLAPS

Prefs == {"none", "muted", "loud"}
Events == [at : Nat, kind : {"status", "note", "ai_analysis"},
           from : Statuses \cup {""}, to : Statuses \cup {""}]
Rows == SUBSET Events
Job(ops, phases, doings) ==
    [op : ops, phase : phases, began : Nat, doing : doings]

StatusJob == Job({"status"}, {"commit"}, [from : Statuses, to : Statuses])
NoteJob == Job({"note"}, {"commit"}, {<<>>})
Edits == UNION {[set -> 0..1] : set \in SUBSET Fields}
TriageJob == Job({"triage"}, {"commit"},
                 [alert : Nat, seen : [Fields -> 0..1], to : Edits])
AlertJob == Job({"alert"}, {"admins", "notify", "commit"},
                [critical : BOOLEAN, left : SUBSET Users, tell : SUBSET Users])
ReadJob == Job({"read"}, {"commit"}, [user : Users, alert : Nat])
PrefsJob == Job({"prefs"}, {"commit"},
                [user : Users, seen : Prefs, to : {"muted", "loud"}])
LinkedJob == Job({"analysis", "report"}, {"linked"}, [from : Statuses, rows : Rows])
AnalysedJob == Job({"analysis", "report"}, {"analysed", "evidence"},
                   [from : Statuses, rows : Rows, first : SUBSET Nat])
ReportJob == Job({"report"}, {"write"},
                 [about : {"incident"}, from : Statuses, rows : Rows,
                  first : SUBSET Nat, second : SUBSET Nat])
ChatJob == Job({"fleet"}, {"chat"}, [first : SUBSET Nat])
FleetJob == Job({"fleet"}, {"write"},
                [about : {"fleet"}, first : SUBSET Nat, second : SUBSET Nat])
Jobs == UNION {StatusJob, NoteJob, TriageJob, AlertJob, ReadJob, PrefsJob,
               LinkedJob, AnalysedJob, ReportJob, ChatJob, FleetJob}

TypeInv ==
    /\ status \in Statuses /\ timeline \in Rows
    /\ alerts \in Seq([Fields -> 0..1]) /\ dates \in Seq(Nat)
    /\ admins \subseteq Users /\ prefs \in [Users -> Prefs]
    /\ inbox \in [Users -> [unread : SUBSET Nat, read : SUBSET Nat]]
    /\ work \in [Requests -> Jobs \cup {Idle}]
    /\ started \in Nat /\ muddled \subseteq Nat
    /\ quiet \in [Requests -> BOOLEAN]

-----------------------------------------------------------------------------
(* The shape of what a request carries. *)

LEMMA JobShape ==
    ASSUME NEW j \in Jobs
    PROVE  /\ j = [op |-> j.op, phase |-> j.phase, began |-> j.began, doing |-> j.doing]
           /\ j.began \in Nat /\ j.op # "none"
  <1> USE DEF Job
  <1>1. CASE j \in StatusJob  BY <1>1 DEF StatusJob
  <1>2. CASE j \in NoteJob  BY <1>2 DEF NoteJob
  <1>3. CASE j \in TriageJob  BY <1>3 DEF TriageJob
  <1>4. CASE j \in AlertJob  BY <1>4 DEF AlertJob
  <1>5. CASE j \in ReadJob  BY <1>5 DEF ReadJob
  <1>6. CASE j \in PrefsJob  BY <1>6 DEF PrefsJob
  <1>7. CASE j \in LinkedJob  BY <1>7 DEF LinkedJob
  <1>8. CASE j \in AnalysedJob  BY <1>8 DEF AnalysedJob
  <1>9. CASE j \in ReportJob  BY <1>9 DEF ReportJob
  <1>10. CASE j \in ChatJob  BY <1>10 DEF ChatJob
  <1>11. CASE j \in FleetJob  BY <1>11 DEF FleetJob
  <1> QED  BY <1>1, <1>2, <1>3, <1>4, <1>5, <1>6, <1>7, <1>8, <1>9, <1>10, <1>11
           DEF Jobs

LEMMA IdleIsNoJob == Idle.op = "none" /\ Idle.began = 0 /\ Idle \notin Jobs
  BY JobShape DEF Idle

\* The request of an operation carries what that operation carries.
LEMMA JobOfOp ==
    ASSUME NEW j \in Jobs \cup {Idle}
    PROVE  /\ j.op = "status" => j \in StatusJob
           /\ j.op = "note" => j \in NoteJob
           /\ j.op = "triage" => j \in TriageJob
           /\ j.op = "alert" => j \in AlertJob
           /\ j.op = "read" => j \in ReadJob
           /\ j.op = "prefs" => j \in PrefsJob
           /\ j.op \in {"analysis", "report"} /\ j.phase = "linked" => j \in LinkedJob
           /\ j.op \in {"analysis", "report"} /\ j.phase \in {"analysed", "evidence"} =>
                j \in AnalysedJob
           /\ j.op = "report" /\ j.phase = "write" => j \in ReportJob
           /\ j.op = "fleet" /\ j.phase = "chat" => j \in ChatJob
           /\ j.op = "fleet" /\ j.phase = "write" => j \in FleetJob
           /\ j.op # "none" => j \in Jobs
  <1>1. CASE j = Idle  BY <1>1, IdleIsNoJob
  <1>2. CASE j \in Jobs
    <2> USE DEF Job
    <2>1. CASE j \in StatusJob \cup NoteJob \cup TriageJob \cup AlertJob
          BY <1>2, <2>1 DEF StatusJob, NoteJob, TriageJob, AlertJob
    <2>2. CASE j \in ReadJob \cup PrefsJob \cup ChatJob \cup FleetJob
          BY <1>2, <2>2 DEF ReadJob, PrefsJob, ChatJob, FleetJob
    <2>3. CASE j \in LinkedJob \cup AnalysedJob \cup ReportJob
          BY <1>2, <2>3 DEF LinkedJob, AnalysedJob, ReportJob
    <2> QED  BY <1>2, <2>1, <2>2, <2>3 DEF Jobs
  <1> QED  BY <1>1, <1>2

-----------------------------------------------------------------------------
(* Type correctness. *)

LEMMA StartTyped ==
    ASSUME TypeInv, NEW r \in Requests, NEW o, NEW p, NEW d, Start(r, o, p, d),
           [op |-> o, phase |-> p, began |-> started + 1, doing |-> d] \in Jobs
    PROVE  TypeInv'
  <1>1. \A q \in Requests : work[q].began \in Nat
    <2>1. \A j \in Jobs \cup {Idle} : j.began \in Nat  BY JobShape, IdleIsNoJob
    <2> QED  BY <2>1 DEF TypeInv
  <1>2. {work[q].began : q \in {x \in Requests : work[x].op = "status"}} \subseteq Nat
        BY <1>1
  <1>3. started + 1 \in Nat  BY DEF TypeInv
  <1>4. muddled' \subseteq Nat  BY <1>2, <1>3 DEF TypeInv, Start
  <1>5. /\ work' = [work EXCEPT ![r] =
                [op |-> o, phase |-> p, began |-> started + 1, doing |-> d]]
        /\ quiet' = [quiet EXCEPT ![r] = TRUE] /\ started' = started + 1
        /\ UNCHANGED tables
        BY DEF Start
  <1> QED  BY <1>3, <1>4, <1>5 DEF TypeInv, tables

LEMMA GotoTyped ==
    ASSUME TypeInv, NEW r \in Requests, work[r] \in Jobs, NEW p, NEW d, Goto(r, p, d),
           [op |-> work[r].op, phase |-> p, began |-> work[r].began, doing |-> d] \in Jobs,
           UNCHANGED <<tables, started, history>>
    PROVE  TypeInv'
  BY DEF Goto, TypeInv, tables, history

\* A request that ends leaves only the tables it writes to be checked.
LEMMA DoneTyped ==
    ASSUME TypeInv, NEW r \in Requests, Done(r), Commit(r)
    PROVE  /\ work' \in [Requests -> Jobs \cup {Idle}]
           /\ started' \in Nat /\ muddled' \subseteq Nat
           /\ quiet' \in [Requests -> BOOLEAN]
  BY DEF TypeInv, Done, Commit

LEMMA InitTyped == Init => TypeInv
  <1> SUFFICES ASSUME Init PROVE TypeInv
      OBVIOUS
  <1>1. status \in Statuses /\ timeline \in Rows
        BY DeskAssumption DEF Init, Rows
  <1>2. alerts \in Seq([Fields -> 0..1])
    <2>1. \A i \in 0..1 : [NewAlert EXCEPT !["incident"] = i] \in [Fields -> 0..1]
          BY DeskAssumption DEF NewAlert
    <2> QED  BY <2>1 DEF Init
  <1>3. admins \subseteq Users /\ prefs \in [Users -> Prefs]
        BY DEF Init, Prefs
  <1>4. /\ inbox \in [Users -> [unread : SUBSET Nat, read : SUBSET Nat]]
        /\ work \in [Requests -> Jobs \cup {Idle}]
        /\ started \in Nat /\ muddled \subseteq Nat /\ dates \in Seq(Nat)
        /\ quiet \in [Requests -> BOOLEAN]
        BY DEF Init
  <1> QED  BY <1>1, <1>2, <1>3, <1>4 DEF TypeInv

LEMMA EventTyped ==
    ASSUME NEW at \in Nat, NEW from \in Statuses \cup {""}, NEW to \in Statuses \cup {""},
           NEW kind \in {"status", "note", "ai_analysis"}
    PROVE  Event(at, kind, from, to) \in Events
  BY DEF Event, Events

LEMMA KindsOfJob ==
    \A j : j \in StatusJob \/ j \in NoteJob \/ j \in TriageJob \/ j \in AlertJob
          \/ j \in ReadJob \/ j \in PrefsJob \/ j \in LinkedJob \/ j \in AnalysedJob
          \/ j \in ReportJob \/ j \in ChatJob \/ j \in FleetJob => j \in Jobs
  BY DEF Jobs

\* What a request that starts carries is as its operation has it.
LEMMA FirstJobs ==
    ASSUME NEW b \in Nat
    PROVE  /\ \A from \in Statuses, to \in Statuses :
                [op |-> "status", phase |-> "commit", began |-> b,
                 doing |-> [from |-> from, to |-> to]] \in Jobs
           /\ [op |-> "note", phase |-> "commit", began |-> b, doing |-> <<>>] \in Jobs
           /\ \A a \in Nat, seen \in [Fields -> 0..1], to \in Edits :
                [op |-> "triage", phase |-> "commit", began |-> b,
                 doing |-> [alert |-> a, seen |-> seen, to |-> to]] \in Jobs
           /\ \A critical \in BOOLEAN, p \in {"admins", "commit"} :
                [op |-> "alert", phase |-> p, began |-> b,
                 doing |-> [critical |-> critical, left |-> {}, tell |-> {}]] \in Jobs
           /\ \A u \in Users, a \in Nat :
                [op |-> "read", phase |-> "commit", began |-> b,
                 doing |-> [user |-> u, alert |-> a]] \in Jobs
           /\ \A u \in Users, seen \in Prefs, to \in {"muted", "loud"} :
                [op |-> "prefs", phase |-> "commit", began |-> b,
                 doing |-> [user |-> u, seen |-> seen, to |-> to]] \in Jobs
           /\ \A op \in {"analysis", "report"}, from \in Statuses, rows \in Rows :
                [op |-> op, phase |-> "linked", began |-> b,
                 doing |-> [from |-> from, rows |-> rows]] \in Jobs
           /\ \A first \in SUBSET Nat :
                [op |-> "fleet", phase |-> "chat", began |-> b,
                 doing |-> [first |-> first]] \in Jobs
  <1> USE KindsOfJob DEF Job
  <1>1. /\ \A from \in Statuses, to \in Statuses :
              [op |-> "status", phase |-> "commit", began |-> b,
               doing |-> [from |-> from, to |-> to]] \in Jobs
        /\ [op |-> "note", phase |-> "commit", began |-> b, doing |-> <<>>] \in Jobs
        BY DEF StatusJob, NoteJob
  <1>2. \A a \in Nat, seen \in [Fields -> 0..1], to \in Edits :
          [op |-> "triage", phase |-> "commit", began |-> b,
           doing |-> [alert |-> a, seen |-> seen, to |-> to]] \in Jobs
        BY DEF TriageJob
  <1>3. \A critical \in BOOLEAN, p \in {"admins", "commit"} :
          [op |-> "alert", phase |-> p, began |-> b,
           doing |-> [critical |-> critical, left |-> {}, tell |-> {}]] \in Jobs
        BY DEF AlertJob
  <1>4. \A u \in Users, a \in Nat :
          [op |-> "read", phase |-> "commit", began |-> b,
           doing |-> [user |-> u, alert |-> a]] \in Jobs
        BY DEF ReadJob
  <1>5. \A u \in Users, seen \in Prefs, to \in {"muted", "loud"} :
          [op |-> "prefs", phase |-> "commit", began |-> b,
           doing |-> [user |-> u, seen |-> seen, to |-> to]] \in Jobs
        BY DEF PrefsJob
  <1>6. \A op \in {"analysis", "report"}, from \in Statuses, rows \in Rows :
          [op |-> op, phase |-> "linked", began |-> b,
           doing |-> [from |-> from, rows |-> rows]] \in Jobs
        BY DEF LinkedJob
  <1>7. \A first \in SUBSET Nat :
          [op |-> "fleet", phase |-> "chat", began |-> b,
           doing |-> [first |-> first]] \in Jobs
        BY DEF ChatJob
  <1> QED  BY <1>1, <1>2, <1>3, <1>4, <1>5, <1>6, <1>7

LEMMA StepTyped == TypeInv /\ [Next]_vars => TypeInv'
  <1> SUFFICES ASSUME TypeInv, [Next]_vars PROVE TypeInv'
      OBVIOUS
  <1> USE DEF Job
  <1>0. /\ started + 1 \in Nat /\ status \in Statuses /\ timeline \in Rows
        /\ \A u \in Users : prefs[u] \in Prefs
        BY DEF TypeInv
  <1>1. ASSUME NEW r \in Requests, ChangeStatus(r) PROVE TypeInv'
    <2>1. PICK s \in Statuses : Start(r, "status", "commit", [from |-> status, to |-> s])
          BY <1>1 DEF ChangeStatus
    <2>2. [op |-> "status", phase |-> "commit", began |-> started + 1,
           doing |-> [from |-> status, to |-> s]] \in Jobs
          BY <1>0, FirstJobs
    <2> QED  BY <2>1, <2>2, StartTyped
  <1>2. ASSUME NEW r \in Requests, AddNote(r) PROVE TypeInv'
    <2>1. [op |-> "note", phase |-> "commit", began |-> started + 1, doing |-> <<>>] \in Jobs
          BY <1>0, FirstJobs
    <2> QED  BY <1>2, <2>1, StartTyped DEF AddNote
  <1>3. ASSUME NEW r \in Requests, CommitStatus(r) PROVE TypeInv'
    <2>1. work[r] \in StatusJob  BY <1>3, JobOfOp DEF CommitStatus, At, TypeInv
    <2>2. status' \in Statuses /\ timeline' \in Rows
      <3> DEFINE c == work[r].doing
      <3>1. c.from \in Statuses /\ c.to \in Statuses /\ work[r].began \in Nat
            BY <2>1 DEF StatusJob
      <3>2. Event(work[r].began, "status", c.from, c.to) \in Events
            BY <3>1, EventTyped
      <3> QED  BY <1>3, <3>1, <3>2 DEF CommitStatus, TypeInv, Rows
    <2> QED  BY <1>3, <2>2, DoneTyped DEF CommitStatus, TypeInv
  <1>4. ASSUME NEW r \in Requests, CommitNote(r) PROVE TypeInv'
    <2>1. work[r] \in NoteJob  BY <1>4, JobOfOp DEF CommitNote, At, TypeInv
    <2>2. timeline' \in Rows
      <3>1. work[r].began \in Nat  BY <2>1 DEF NoteJob
      <3>2. Event(work[r].began, "note", "", "") \in Events  BY <3>1, EventTyped
      <3> QED  BY <1>4, <3>2 DEF CommitNote, TypeInv, Rows
    <2> QED  BY <1>4, <2>2, DoneTyped DEF CommitNote, TypeInv
  <1>5. ASSUME NEW r \in Requests, Triage(r) PROVE TypeInv'
    <2>0. PICK a \in DOMAIN alerts, set \in SUBSET Fields : \E to \in [set -> 0..1] :
            Start(r, "triage", "commit", [alert |-> a, seen |-> alerts[a], to |-> to])
          BY <1>5 DEF Triage
    <2>1. PICK to \in [set -> 0..1] :
            Start(r, "triage", "commit", [alert |-> a, seen |-> alerts[a], to |-> to])
          BY <2>0
    <2>2. a \in Nat /\ alerts[a] \in [Fields -> 0..1] /\ to \in Edits
          BY DEF TypeInv, Edits
    <2>3. [op |-> "triage", phase |-> "commit", began |-> started + 1,
           doing |-> [alert |-> a, seen |-> alerts[a], to |-> to]] \in Jobs
          BY <2>2, <1>0, FirstJobs
    <2> QED  BY <2>1, <2>3, StartTyped
  <1>6. ASSUME NEW r \in Requests, CommitTriage(r) PROVE TypeInv'
    <2> DEFINE c == work[r].doing
               edited == [f \in Fields |->
                  IF f \in DOMAIN c.to /\ c.to[f] # c.seen[f]
                    THEN c.to[f] ELSE alerts[c.alert][f]]
    <2>1. work[r] \in TriageJob  BY <1>6, JobOfOp DEF CommitTriage, At, TypeInv
    <2>2. c.to \in Edits  BY <2>1 DEF TriageJob
    <2>3. \A f \in DOMAIN c.to : c.to[f] \in 0..1  BY <2>2 DEF Edits
    <2>4. alerts' = [alerts EXCEPT ![c.alert] = edited]
          BY <1>6 DEF CommitTriage
    <2>5. CASE c.alert \in DOMAIN alerts
      <3>1. alerts[c.alert] \in [Fields -> 0..1]  BY <2>5 DEF TypeInv
      <3>2. edited \in [Fields -> 0..1]  BY <2>3, <3>1
      <3>3. alerts' \in Seq([Fields -> 0..1])  BY <2>4, <2>5, <3>2 DEF TypeInv
      <3> QED  BY <1>6, <3>3, DoneTyped DEF CommitTriage, TypeInv
    <2>6. CASE c.alert \notin DOMAIN alerts
      <3>1. alerts' = alerts  BY <2>4, <2>6 DEF TypeInv
      <3> QED  BY <1>6, <3>1, DoneTyped DEF CommitTriage, TypeInv
    <2> QED  BY <2>5, <2>6
  <1>7. ASSUME NEW r \in Requests, CreateAlert(r) PROVE TypeInv'
    <2> DEFINE first(c) == [critical |-> c, left |-> {}, tell |-> {}]
               at(c) == IF c THEN "admins" ELSE "commit"
    <2>1. PICK c \in BOOLEAN : Start(r, "alert", at(c), first(c))
          BY <1>7 DEF CreateAlert
    <2>2. [op |-> "alert", phase |-> at(c), began |-> started + 1,
           doing |-> first(c)] \in Jobs
          BY <1>0, FirstJobs
    <2> HIDE DEF first, at
    <2> QED  BY <2>1, <2>2, StartTyped
  <1>8. ASSUME NEW r \in Requests, SelectAdmins(r) PROVE TypeInv'
    <2>1. work[r] \in AlertJob /\ work[r] \in Jobs
          BY <1>8, JobOfOp DEF SelectAdmins, At, TypeInv, Jobs
    <2> QED  BY <1>8, <2>1, GotoTyped DEF SelectAdmins, TypeInv, Jobs, AlertJob
  <1>9. ASSUME NEW r \in Requests, Notify(r) PROVE TypeInv'
    <2> DEFINE c == work[r].doing
               next(u) == [c EXCEPT !.left = @ \ {u},
                             !.tell = IF prefs[u] = "muted" THEN @ ELSE @ \cup {u}]
    <2>1. work[r] \in AlertJob /\ work[r] \in Jobs
          BY <1>9, JobOfOp DEF Notify, At, TypeInv, Jobs
    <2>2. PICK u \in c.left :
            Goto(r, IF c.left = {u} THEN "commit" ELSE "notify", next(u))
          BY <1>9 DEF Notify
    <2>3. next(u) \in [critical : BOOLEAN, left : SUBSET Users, tell : SUBSET Users]
          BY <2>1 DEF AlertJob
    <2> HIDE DEF next
    <2>4. UNCHANGED <<tables, started, history>>  BY <1>9 DEF Notify
    <2> QED  BY <2>1, <2>2, <2>3, <2>4, GotoTyped DEF Jobs, AlertJob
  <1>10. ASSUME NEW r \in Requests, CommitAlert(r) PROVE TypeInv'
    <2>1. NewAlert \in [Fields -> 0..1]  BY DEF NewAlert
    <2>2. alerts' \in Seq([Fields -> 0..1])
          BY <1>10, <2>1 DEF CommitAlert, TypeInv
    <2>3. Len(alerts) + 1 \in Nat  BY DEF TypeInv
    <2>5. dates' \in Seq(Nat)
      <3>1. work[r].began \in Nat  BY JobShape, IdleIsNoJob DEF TypeInv
      <3> QED  BY <1>10, <3>1 DEF CommitAlert, TypeInv
    <2>4. inbox' \in [Users -> [unread : SUBSET Nat, read : SUBSET Nat]]
          BY <1>10, <2>3 DEF CommitAlert, Told, TypeInv
    <2> QED  BY <1>10, <2>2, <2>4, <2>5, DoneTyped DEF CommitAlert, TypeInv
  <1>11. ASSUME NEW r \in Requests, MarkRead(r) PROVE TypeInv'
    <2>0. PICK u \in Users : \E a \in inbox[u].unread :
            Start(r, "read", "commit", [user |-> u, alert |-> a])
          BY <1>11 DEF MarkRead
    <2>1. PICK a \in inbox[u].unread :
            Start(r, "read", "commit", [user |-> u, alert |-> a])
          BY <2>0
    <2>2. a \in Nat  BY DEF TypeInv
    <2>3. [op |-> "read", phase |-> "commit", began |-> started + 1,
           doing |-> [user |-> u, alert |-> a]] \in Jobs
          BY <2>2, <1>0, FirstJobs
    <2> QED  BY <2>1, <2>3, StartTyped
  <1>12. ASSUME NEW r \in Requests, CommitRead(r) PROVE TypeInv'
    <2>1. work[r] \in ReadJob  BY <1>12, JobOfOp DEF CommitRead, At, TypeInv
    <2>2. inbox' \in [Users -> [unread : SUBSET Nat, read : SUBSET Nat]]
          BY <1>12, <2>1 DEF CommitRead, TypeInv, ReadJob
    <2> QED  BY <1>12, <2>2, DoneTyped DEF CommitRead, TypeInv
  <1>13. ASSUME NEW r \in Requests, PutPreferences(r) PROVE TypeInv'
    <2>1. PICK u \in Users, to \in {"muted", "loud"} :
            Start(r, "prefs", "commit", [user |-> u, seen |-> prefs[u], to |-> to])
          BY <1>13 DEF PutPreferences
    <2>2. [op |-> "prefs", phase |-> "commit", began |-> started + 1,
           doing |-> [user |-> u, seen |-> prefs[u], to |-> to]] \in Jobs
          BY <1>0, FirstJobs
    <2> QED  BY <2>1, <2>2, StartTyped
  <1>14. ASSUME NEW r \in Requests, CommitPreferences(r) PROVE TypeInv'
    <2>1. work[r] \in PrefsJob
          BY <1>14, JobOfOp DEF CommitPreferences, At, TypeInv
    <2>2. prefs' \in [Users -> Prefs]
          BY <1>14, <2>1 DEF CommitPreferences, TypeInv, PrefsJob, Prefs
    <2> QED  BY <1>14, <2>2, DoneTyped DEF CommitPreferences, TypeInv
  <1>15. ASSUME NEW r \in Requests, Analyze(r) \/ ReportIncident(r) PROVE TypeInv'
    <2>1. PICK op \in {"analysis", "report"} :
            Start(r, op, "linked", [from |-> status, rows |-> timeline])
          BY <1>15 DEF Analyze, ReportIncident
    <2>2. [op |-> op, phase |-> "linked", began |-> started + 1,
           doing |-> [from |-> status, rows |-> timeline]] \in Jobs
          BY <1>0, FirstJobs
    <2> QED  BY <2>1, <2>2, StartTyped
  <1>16. ASSUME NEW r \in Requests, ReportFleet(r) PROVE TypeInv'
    <2>1. OpenAlerts \in SUBSET Nat  BY DEF OpenAlerts, TypeInv
    <2>2. [op |-> "fleet", phase |-> "chat", began |-> started + 1,
           doing |-> [first |-> OpenAlerts]] \in Jobs
          BY <2>1, <1>0, FirstJobs
    <2> QED  BY <1>16, <2>2, StartTyped DEF ReportFleet
  <1>17. ASSUME NEW r \in Requests, ReadLinked(r) PROVE TypeInv'
    <2>1. LinkedPage \in SUBSET Nat  BY DEF LinkedPage, Linked, TypeInv
    <2>2. work[r] \in LinkedJob /\ work[r] \in Jobs
          BY <1>17, JobOfOp DEF ReadLinked, TypeInv, Jobs
    <2> QED  BY <1>17, <2>1, <2>2, GotoTyped
             DEF ReadLinked, Jobs, LinkedJob, AnalysedJob
  <1>18. ASSUME NEW r \in Requests, CommitAnalysis(r) PROVE TypeInv'
    <2> DEFINE j == work[r]
    <2>1. j \in AnalysedJob /\ j \in Jobs
          BY <1>18, JobOfOp DEF CommitAnalysis, TypeInv, Jobs
    <2>2. timeline' \in Rows
      <3>1. j.began \in Nat  BY <2>1 DEF AnalysedJob
      <3>2. Event(j.began, "ai_analysis", "", "") \in Events  BY <3>1, EventTyped
      <3> QED  BY <1>18, <3>2 DEF CommitAnalysis, TypeInv, Rows
    <2>3. work' \in [Requests -> Jobs \cup {Idle}]
      <3>1. [op |-> j.op, phase |-> "evidence", began |-> j.began, doing |-> j.doing]
              \in AnalysedJob
            BY <2>1 DEF AnalysedJob
      <3> QED  BY <1>18, <3>1, KindsOfJob DEF CommitAnalysis, Goto, Done, TypeInv
    <2> QED  BY <1>18, <2>2, <2>3 DEF CommitAnalysis, Commit, TypeInv
  <1>19. ASSUME NEW r \in Requests, ReadAgain(r) PROVE TypeInv'
    <2>1. LinkedPage \in SUBSET Nat /\ OpenAlerts \in SUBSET Nat
          BY DEF LinkedPage, Linked, OpenAlerts, TypeInv
    <2>2. CASE At(r, "report", "evidence")
      <3>1. work[r] \in AnalysedJob /\ work[r] \in Jobs
            BY <2>2, JobOfOp DEF At, TypeInv, Jobs
      <3> QED  BY <1>19, <2>1, <2>2, <3>1, GotoTyped
               DEF ReadAgain, At, Jobs, AnalysedJob, ReportJob
    <2>3. CASE At(r, "fleet", "chat")
      <3>1. work[r] \in ChatJob /\ work[r] \in Jobs
            BY <2>3, JobOfOp DEF At, TypeInv, Jobs
      <3> QED  BY <1>19, <2>1, <2>3, <3>1, GotoTyped
               DEF ReadAgain, At, Jobs, ChatJob, FleetJob
    <2> QED  BY <1>19, <2>2, <2>3 DEF ReadAgain
  <1>20. ASSUME NEW r \in Requests, WriteReport(r) PROVE TypeInv'
        BY <1>20, DoneTyped DEF WriteReport, TypeInv
  <1>21. ASSUME NEW r \in Requests, Fail(r) PROVE TypeInv'
        BY <1>21 DEF Fail, Done, TypeInv, tables, history
  <1>22. ASSUME NEW u \in Users, MarkAllRead(u) PROVE TypeInv'
        BY <1>22 DEF MarkAllRead, TypeInv, history
  <1>23. ASSUME NEW u \in Users, Membership(u) PROVE TypeInv'
        BY <1>23 DEF Membership, TypeInv, history
  <1>24. CASE UNCHANGED vars
        BY <1>24 DEF vars, tables, history, TypeInv
  <1> QED  BY <1>1, <1>2, <1>3, <1>4, <1>5, <1>6, <1>7, <1>8, <1>9, <1>10, <1>11,
              <1>12, <1>13, <1>14, <1>15, <1>16, <1>17, <1>18, <1>19, <1>20, <1>21,
              <1>22, <1>23, <1>24 DEF Next, Handle

\* The rows and what each request carries are always well formed.
THEOREM DeskTyped == Spec => []TypeInv
  BY InitTyped, StepTyped, PTL DEF Spec
-----------------------------------------------------------------------------
(* The clock: dates are of requests that have started, and each has its own. *)

ClockInv ==
    /\ \A e \in timeline : e.at <= started
    /\ \A r \in Requests : work[r].began <= started
    /\ \A r, q \in Requests :
         work[r].op # "none" /\ work[q].op # "none" /\ work[r].began = work[q].began
           => r = q

\* A request stays, ends, goes on with its date, or is the one that starts.
Moves(r) ==
    \/ work'[r] = work[r] \/ work'[r] = Idle
    \/ work[r].op # "none" /\ work'[r].op = work[r].op /\ work'[r].began = work[r].began
    \/ /\ work[r].op = "none" /\ work'[r].op # "none"
       /\ started' = started + 1 /\ work'[r].began = started'
       /\ \A q \in Requests \ {r} : work'[q] = work[q]

EventsGrow ==
    /\ timeline \subseteq timeline'
    /\ \A e \in timeline' \ timeline :
         \E r \in Requests : work[r].op # "none" /\ e.at = work[r].began

LEMMA StartMoves ==
    ASSUME TypeInv, NEW r \in Requests, NEW o, NEW p, NEW d, Start(r, o, p, d), o # "none"
    PROVE  /\ \A q \in Requests : Moves(q)
           /\ EventsGrow /\ started <= started'
  BY DEF TypeInv, Start, Moves, EventsGrow, tables

LEMMA GotoMoves ==
    ASSUME TypeInv, NEW r \in Requests, NEW p, NEW d, Goto(r, p, d), work[r].op # "none",
           UNCHANGED <<tables, started, history>>
    PROVE  /\ \A q \in Requests : Moves(q)
           /\ EventsGrow /\ started <= started'
  BY DEF TypeInv, Goto, Moves, EventsGrow, tables

LEMMA DoneMoves ==
    ASSUME TypeInv, NEW r \in Requests, Done(r), work[r].op # "none", started' = started,
           \/ UNCHANGED timeline
           \/ \E k, f, t : timeline' = timeline \cup {Event(work[r].began, k, f, t)}
    PROVE  /\ \A q \in Requests : Moves(q)
           /\ EventsGrow /\ started <= started'
  BY DEF TypeInv, Done, Moves, EventsGrow, Event

LEMMA StepMoves ==
    ASSUME TypeInv, [Next]_vars
    PROVE  /\ \A r \in Requests : Moves(r)
           /\ EventsGrow /\ started <= started'
  <1> DEFINE G == /\ \A r \in Requests : Moves(r)
                  /\ EventsGrow /\ started <= started'
  <1>1. ASSUME NEW r \in Requests,
               \/ ChangeStatus(r) \/ AddNote(r) \/ Triage(r) \/ CreateAlert(r)
               \/ MarkRead(r) \/ PutPreferences(r)
               \/ Analyze(r) \/ ReportIncident(r) \/ ReportFleet(r)
        PROVE  G
    <2>1. \E o, p, d : o # "none" /\ Start(r, o, p, d)
          BY <1>1 DEF ChangeStatus, AddNote, Triage, CreateAlert, MarkRead,
                      PutPreferences, Analyze, ReportIncident, ReportFleet
    <2> QED  BY <2>1, StartMoves
  <1>2. ASSUME NEW r \in Requests,
               SelectAdmins(r) \/ Notify(r) \/ ReadLinked(r) \/ ReadAgain(r)
        PROVE  G
    <2>1. /\ work[r].op # "none" /\ UNCHANGED <<tables, started, history>>
          /\ \E p, d : Goto(r, p, d)
          BY <1>2 DEF SelectAdmins, Notify, ReadLinked, ReadAgain, At
    <2> QED  BY <2>1, GotoMoves
  <1>3. ASSUME NEW r \in Requests,
               \/ CommitStatus(r) \/ CommitNote(r) \/ CommitTriage(r)
               \/ CommitAlert(r) \/ CommitRead(r) \/ CommitPreferences(r)
               \/ WriteReport(r) \/ Fail(r)
        PROVE  G
    <2>1. CASE CommitStatus(r)
          BY <2>1, DoneMoves DEF CommitStatus, At, Commit
    <2>2. CASE CommitNote(r)
          BY <2>2, DoneMoves DEF CommitNote, At, Commit
    <2>3. CASE Fail(r)
          BY <2>3, DoneMoves DEF Fail, tables
    <2>4. CASE \/ CommitTriage(r) \/ CommitAlert(r) \/ CommitRead(r)
               \/ CommitPreferences(r) \/ WriteReport(r)
          BY <2>4, DoneMoves DEF CommitTriage, CommitAlert, CommitRead,
             CommitPreferences, WriteReport, At, Commit
    <2> QED  BY <1>3, <2>1, <2>2, <2>3, <2>4
  <1>4. ASSUME NEW r \in Requests, CommitAnalysis(r) PROVE G
    <2>1. /\ work[r] \in AnalysedJob /\ work[r].op # "none"
          BY <1>4, JobOfOp DEF CommitAnalysis, TypeInv
    <2>2. CASE work[r].op = "report"
      <3>0. /\ work'[r] = [op |-> work[r].op, phase |-> "evidence",
                           began |-> work[r].began, doing |-> work[r].doing]
            /\ \A q \in Requests \ {r} : work'[q] = work[q]
            BY <1>4, <2>2 DEF CommitAnalysis, Goto, TypeInv
      <3>1. \A q \in Requests : Moves(q)
            BY <2>1, <3>0 DEF Moves
      <3>2. /\ timeline' = timeline \cup {Event(work[r].began, "ai_analysis", "", "")}
            /\ started' = started
            BY <1>4 DEF CommitAnalysis, Commit
      <3>3. Event(work[r].began, "ai_analysis", "", "").at = work[r].began
            BY DEF Event
      <3>4. EventsGrow  BY <2>1, <3>2, <3>3 DEF EventsGrow
      <3>5. started <= started'
        <4>1. started' = started  BY <3>2
        <4>2. started \in Nat  BY DEF TypeInv
        <4> QED  BY <4>1, <4>2
      <3> QED  BY <3>1, <3>4, <3>5
    <2>3. CASE work[r].op # "report"
          BY <1>4, <2>1, <2>3, DoneMoves DEF CommitAnalysis, Commit
    <2> QED  BY <2>2, <2>3
  <1>5. ASSUME NEW u \in Users, MarkAllRead(u) \/ Membership(u) PROVE G
        BY <1>5 DEF MarkAllRead, Membership, Moves, EventsGrow, TypeInv
  <1>6. CASE UNCHANGED vars
        BY <1>6 DEF vars, tables, Moves, EventsGrow, TypeInv
  <1> QED  BY <1>1, <1>2, <1>3, <1>4, <1>5, <1>6 DEF Next, Handle

LEMMA InitClock == Init => ClockInv
  BY DEF Init, ClockInv, Idle

LEMMA StepClock == TypeInv /\ TypeInv' /\ ClockInv /\ [Next]_vars => ClockInv'
  <1> SUFFICES ASSUME TypeInv, TypeInv', ClockInv, [Next]_vars PROVE ClockInv'
      OBVIOUS
  <1>1. /\ \A r \in Requests : Moves(r)
        /\ EventsGrow /\ started <= started'
        BY StepMoves
  <1>2. /\ started \in Nat /\ started' \in Nat
        /\ \A e \in timeline' : e.at \in Nat
        /\ \A r \in Requests : work[r].began \in Nat /\ work'[r].began \in Nat
    <2>1. started \in Nat /\ started' \in Nat  BY DEF TypeInv
    <2>2. \A e \in timeline' : e.at \in Nat  BY DEF TypeInv, Rows, Events
    <2>3. \A j \in Jobs \cup {Idle} : j.began \in Nat  BY JobShape, IdleIsNoJob
    <2> QED  BY <2>1, <2>2, <2>3 DEF TypeInv
  <1>3. \A e \in timeline' : e.at <= started'
        BY <1>1, <1>2 DEF ClockInv, EventsGrow
  <1>4. \A r \in Requests : work'[r].began <= started'
        BY <1>1, <1>2, IdleIsNoJob DEF ClockInv, Moves
  <1>5. ASSUME NEW r \in Requests, NEW q \in Requests,
               work'[r].op # "none", work'[q].op # "none",
               work'[r].began = work'[q].began, r # q
        PROVE  FALSE
        BY <1>1, <1>2, <1>5, IdleIsNoJob DEF ClockInv, Moves
  <1> QED  BY <1>3, <1>4, <1>5 DEF ClockInv

-----------------------------------------------------------------------------
(* The timeline and the status. *)

\* A change of status that overlaps no other starts from the status and after
\* every event; one that is dated later than another still under way has
\* overlapped it.
TimelineInv ==
    /\ StatusEvents # {} => \E l \in StatusEvents : \A d \in StatusEvents : d.at <= l.at
    /\ \A r, q \in Requests :
         work[r].op = "status" /\ work[q].op = "status" /\ r # q => work[r].began \in muddled
    /\ \A r \in Requests : work[r].op = "status" =>
         /\ work[r].began \notin muddled =>
              /\ work[r].doing.from = status
              /\ \A e \in StatusEvents : e.at < work[r].began
         /\ \A e \in StatusEvents : e.at < work[r].began \/ e.at \in muddled

\* A step that neither begins nor commits a change of status.
Apart ==
    /\ status' = status /\ StatusEvents' = StatusEvents /\ muddled' = muddled
    /\ \A r \in Requests : work'[r].op = "status" => work'[r] = work[r]

LEMMA StatusMoves ==
    ASSUME TypeInv, [Next]_vars
    PROVE  \/ \E r \in Requests : ChangeStatus(r) \/ CommitStatus(r)
           \/ Apart
  <1>1. ASSUME NEW r \in Requests,
               \/ AddNote(r) \/ Triage(r) \/ CreateAlert(r)
               \/ MarkRead(r) \/ PutPreferences(r)
               \/ Analyze(r) \/ ReportIncident(r) \/ ReportFleet(r)
        PROVE  Apart
    <2>1. PICK o, p, d : o \notin {"none", "status"} /\ Start(r, o, p, d)
          BY <1>1 DEF AddNote, Triage, CreateAlert, MarkRead,
                      PutPreferences, Analyze, ReportIncident, ReportFleet
    <2>2. muddled' = muddled  BY <2>1 DEF Start, TypeInv
    <2>3. UNCHANGED <<status, timeline>>  BY <2>1 DEF Start, tables
    <2>4. \A q \in Requests : work'[q].op = "status" => work'[q] = work[q]
          BY <2>1 DEF Start, TypeInv
    <2> QED  BY <2>2, <2>3, <2>4 DEF Apart, StatusEvents
  <1>2. ASSUME NEW r \in Requests,
               SelectAdmins(r) \/ Notify(r) \/ ReadLinked(r) \/ ReadAgain(r)
        PROVE  Apart
    <2>1. /\ work[r].op # "status" /\ UNCHANGED <<tables, started, history>>
          /\ \E p, d : Goto(r, p, d)
          BY <1>2 DEF SelectAdmins, Notify, ReadLinked, ReadAgain, At
    <2> QED  BY <2>1 DEF Goto, Apart, StatusEvents, tables, history, TypeInv
  <1>3. ASSUME NEW r \in Requests,
               \/ CommitTriage(r) \/ CommitAlert(r) \/ CommitRead(r)
               \/ CommitPreferences(r) \/ WriteReport(r) \/ Fail(r)
        PROVE  Apart
    <2>1. Done(r) /\ UNCHANGED <<status, timeline, muddled>>
          BY <1>3 DEF CommitTriage, CommitAlert, CommitRead, CommitPreferences,
             WriteReport, Fail, Commit, tables, history
    <2> QED  BY <2>1, IdleIsNoJob DEF Done, Apart, StatusEvents, TypeInv
  <1>4. ASSUME NEW r \in Requests, CommitNote(r) PROVE Apart
    <2>1. StatusEvents' = StatusEvents
      <3>1. Event(work[r].began, "note", "", "").kind # "status"  BY DEF Event
      <3> QED  BY <1>4, <3>1 DEF CommitNote, StatusEvents
    <2> QED  BY <1>4, <2>1, IdleIsNoJob DEF CommitNote, Done, Commit, Apart, TypeInv
  <1>5. ASSUME NEW r \in Requests, CommitAnalysis(r) PROVE Apart
    <2>1. StatusEvents' = StatusEvents
      <3>1. Event(work[r].began, "ai_analysis", "", "").kind # "status"  BY DEF Event
      <3> QED  BY <1>5, <3>1 DEF CommitAnalysis, StatusEvents
    <2>2. /\ work[r] \in AnalysedJob /\ work[r].op # "status"
          BY <1>5, JobOfOp DEF CommitAnalysis, TypeInv
    <2>3. \A q \in Requests : work'[q].op = "status" => work'[q] = work[q]
      <3>1. \/ Goto(r, "evidence", work[r].doing) \/ Done(r)
            BY <1>5 DEF CommitAnalysis
      <3> QED  BY <2>2, <3>1, IdleIsNoJob DEF Goto, Done, TypeInv
    <2> QED  BY <1>5, <2>1, <2>3 DEF CommitAnalysis, Commit, Apart
  <1>6. ASSUME NEW u \in Users, MarkAllRead(u) \/ Membership(u) PROVE Apart
        BY <1>6 DEF MarkAllRead, Membership, Apart, StatusEvents, history
  <1>7. CASE UNCHANGED vars
        BY <1>7 DEF vars, tables, history, Apart, StatusEvents
  <1> QED  BY <1>1, <1>2, <1>3, <1>4, <1>5, <1>6, <1>7 DEF Next, Handle

\* The last of events dated differently, one of which is later than the rest.
LEMMA LastIsLatest ==
    ASSUME NEW es, NEW e, \A d \in es : d.at \in Nat /\ d.at < e.at, e.at \in Nat
    PROVE  LastOf(es \cup {e}) = e
  <1> DEFINE L(x) == \A d \in es \cup {e} : d.at <= x.at
  <1>1. e \in es \cup {e} /\ L(e)  OBVIOUS
  <1>2. \A x \in es \cup {e} : L(x) => x = e  OBVIOUS
  <1>3. (CHOOSE x \in es \cup {e} : L(x)) = e
        BY <1>1, <1>2
  <1> QED  BY <1>3 DEF LastOf

LEMMA StepTimeline ==
    TypeInv /\ TypeInv' /\ ClockInv /\ TimelineInv /\ TimelineTellsStatus /\ [Next]_vars =>
      TimelineInv' /\ TimelineTellsStatus'
  <1> SUFFICES ASSUME TypeInv, TypeInv', ClockInv, TimelineInv, TimelineTellsStatus,
                      [Next]_vars
               PROVE  TimelineInv' /\ TimelineTellsStatus'
      OBVIOUS
  <1>0. /\ \A e \in timeline : e.at \in Nat /\ e.at <= started
        /\ started \in Nat
        BY DEF TypeInv, Rows, Events, ClockInv
  <1>1. CASE Apart
    <2>1. \A e : Before(e)' = Before(e)  BY <1>1 DEF Apart, Before
    <2>2. TimelineTellsStatus'
          BY <1>1, <2>1 DEF Apart, TimelineTellsStatus, Clear, StatusAfter, LastOf
    <2>3. TimelineInv'  BY <1>1 DEF Apart, TimelineInv
    <2> QED  BY <2>2, <2>3
  <1>2. ASSUME NEW r \in Requests, ChangeStatus(r)
        PROVE  TimelineInv' /\ TimelineTellsStatus'
    <2>1. PICK s \in Statuses : Start(r, "status", "commit", [from |-> status, to |-> s])
          BY <1>2 DEF ChangeStatus
    <2>2. status' = status /\ StatusEvents' = StatusEvents
          BY <2>1 DEF Start, tables, StatusEvents
    <2>3. /\ muddled \subseteq muddled'
          /\ \A q \in Requests : work[q].op = "status" =>
               work[q].began \in muddled' /\ started + 1 \in muddled'
          BY <2>1 DEF Start
    <2>4. /\ work[r].op = "none"
          /\ work'[r].op = "status" /\ work'[r].began = started + 1
          /\ work'[r].doing.from = status
          /\ \A q \in Requests \ {r} : work'[q] = work[q]
          BY <2>1 DEF Start, TypeInv
    <2>5. \A e \in StatusEvents : e.at < started + 1
          BY <1>0 DEF StatusEvents
    <2>6. TimelineInv'
          BY <2>2, <2>3, <2>4, <2>5 DEF TimelineInv
    <2>7. \A e : Before(e)' = Before(e)  BY <2>2 DEF Before
    <2>8. TimelineTellsStatus'
          BY <2>2, <2>3, <2>7 DEF TimelineTellsStatus, Clear, StatusAfter, LastOf
    <2> QED  BY <2>6, <2>8
  <1>3. ASSUME NEW r \in Requests, CommitStatus(r)
        PROVE  TimelineInv' /\ TimelineTellsStatus'
    <2> DEFINE c == work[r].doing
               n == Event(work[r].began, "status", c.from, c.to)
    <2>1. /\ n.kind = "status" /\ n.to = c.to /\ n.from = c.from
          /\ n.at = work[r].began
          BY DEF Event
    <2> HIDE DEF n
    <2>2. /\ work[r].op = "status" /\ muddled' = muddled /\ work[r].began \in Nat
          /\ \A q \in Requests \ {r} : work'[q] = work[q]
          /\ work'[r].op = "none"
          BY <1>3, IdleIsNoJob, JobOfOp, JobShape
          DEF CommitStatus, At, Commit, Done, TypeInv
    <2>3. \A e \in StatusEvents : e.at \in Nat  BY <1>0 DEF StatusEvents
    <2>4. CASE c.from = c.to
      <3>1. status' = status /\ StatusEvents' = StatusEvents
            BY <1>3, <2>4 DEF CommitStatus, StatusEvents
      <3>2. \A e : Before(e)' = Before(e)  BY <3>1 DEF Before
      <3>3. TimelineTellsStatus'
            BY <2>2, <3>1, <3>2 DEF TimelineTellsStatus, Clear, StatusAfter, LastOf
      <3>4. TimelineInv'  BY <2>2, <3>1 DEF TimelineInv
      <3> QED  BY <3>3, <3>4
    <2>5. CASE c.from # c.to
      <3>1. status' = c.to /\ timeline' = timeline \cup {n}
            BY <1>3, <2>5 DEF CommitStatus, n
      <3>2. StatusEvents' = StatusEvents \cup {n}
            BY <2>1, <3>1 DEF StatusEvents
      <3>3. PICK l \in StatusEvents \cup {n} :
              \A d \in StatusEvents \cup {n} : d.at <= l.at
        <4>1. CASE StatusEvents = {}  BY <4>1, <2>1, <2>2
        <4>2. CASE StatusEvents # {}
          <5>1. PICK m \in StatusEvents : \A d \in StatusEvents : d.at <= m.at
                BY <4>2 DEF TimelineInv
          <5> QED  BY <5>1, <2>1, <2>2, <2>3
        <4> QED  BY <4>1, <4>2
      <3>4. /\ LastOf(StatusEvents \cup {n}) \in StatusEvents \cup {n}
            /\ n.at <= LastOf(StatusEvents \cup {n}).at
            BY <3>3 DEF LastOf
      <3>5. TimelineInv'
        <4>1. \A q \in Requests : work'[q].op = "status" =>
                q # r /\ work'[q] = work[q] /\ n.at \in muddled /\ work[q].began \in muddled
              BY <2>1, <2>2 DEF TimelineInv
        <4> QED  BY <2>1, <2>2, <3>2, <3>3, <4>1 DEF TimelineInv
      <3>6. CASE n.at \in muddled
        <4>1. LastOf(StatusEvents \cup {n}).at \in muddled
              BY <2>1, <2>2, <2>3, <3>4, <3>6 DEF TimelineInv
        <4>2. ~Clear(StatusEvents)'
              BY <2>2, <3>2, <4>1 DEF Clear, LastOf
        <4>3. \A e \in StatusEvents : e.at \notin muddled => Before(e)' = Before(e)
              BY <2>1, <2>2, <2>3, <3>2 DEF TimelineInv, Before
        <4>4. ASSUME NEW e \in StatusEvents', e.at \notin muddled', Clear(Before(e))'
              PROVE  e.from = StatusAfter(Before(e))'
          <5>1. e \in StatusEvents /\ Before(e)' = Before(e)
                BY <2>2, <3>2, <3>6, <4>3, <4>4
          <5> QED  BY <2>2, <4>4, <5>1
                   DEF TimelineTellsStatus, Clear, StatusAfter, LastOf
        <4>5. TimelineTellsStatus'  BY <4>2, <4>4 DEF TimelineTellsStatus
        <4> QED  BY <3>5, <4>5
      <3>7. CASE n.at \notin muddled
        <4>1. c.from = status /\ \A e \in StatusEvents : e.at < n.at
              BY <2>1, <2>2, <3>7 DEF TimelineInv
        <4>2. StatusAfter(StatusEvents)' = c.to
          <5>1. LastOf(StatusEvents \cup {n}) = n
                BY <2>1, <2>2, <4>1, <2>3, LastIsLatest
          <5> QED  BY <2>1, <3>2, <5>1 DEF StatusAfter, LastOf
        <4>3. \A e \in StatusEvents : Before(e)' = Before(e)
              BY <2>1, <2>2, <2>3, <4>1, <3>2 DEF Before
        <4>4. ASSUME NEW m, m = n PROVE Before(m)' = StatusEvents
              BY <4>4, <2>1, <2>2, <2>3, <4>1, <3>2 DEF Before
        <4>5. ASSUME NEW e \in StatusEvents, e.at \notin muddled', Clear(Before(e))'
              PROVE  e.from = StatusAfter(Before(e))'
              BY <2>2, <4>3, <4>5
              DEF TimelineTellsStatus, Clear, StatusAfter, LastOf
        <4>6. ASSUME NEW m, m = n, Clear(Before(m))'
              PROVE  m.from = StatusAfter(Before(m))'
          <5>1. Clear(StatusEvents)  BY <2>2, <4>4, <4>6 DEF Clear
          <5>2. StatusAfter(Before(m))' = StatusAfter(StatusEvents)
                BY <4>4, <4>6 DEF StatusAfter
          <5> QED  BY <2>1, <4>1, <4>6, <5>1, <5>2 DEF TimelineTellsStatus
        <4>7. TimelineTellsStatus'
              BY <3>1, <3>2, <4>2, <4>5, <4>6 DEF TimelineTellsStatus
        <4> QED  BY <3>5, <4>7
      <3> QED  BY <3>6, <3>7
    <2> QED  BY <2>4, <2>5
  <1> QED  BY <1>1, <1>2, <1>3, StatusMoves

\* TimelineTellsStatus: the timeline in the order of its dates tells how the
\* status came to be what it is, but for the changes that overlapped another.
THEOREM TimelineAlwaysTells == Spec => []TimelineTellsStatus
  <1> DEFINE I == TypeInv /\ ClockInv /\ TimelineInv /\ TimelineTellsStatus
  <1>1. Init => I
    <2>1. Init => TimelineInv  BY IdleIsNoJob DEF Init, TimelineInv, StatusEvents
    <2>2. Init => TimelineTellsStatus
          BY DEF Init, TimelineTellsStatus, Clear, StatusEvents, StatusAfter
    <2> QED  BY <2>1, <2>2, InitTyped, InitClock
  <1>2. I /\ [Next]_vars => I'
        BY StepTyped, StepClock, StepTimeline
  <1>3. I => TimelineTellsStatus  OBVIOUS
  <1> QED  BY <1>1, <1>2, <1>3, PTL DEF Spec
-----------------------------------------------------------------------------
(* The rows of the alerts. *)

LEMMA StepFields ==
    TypeInv /\ [Next]_vars =>
      \A a \in DOMAIN alerts, f \in Fields :
         alerts'[a][f] # alerts[a][f] =>
           \E r \in Requests : /\ At(r, "triage", "commit")
                               /\ f \in DOMAIN work[r].doing.to
                               /\ work[r].doing.to[f] = alerts'[a][f]
  <1> SUFFICES ASSUME TypeInv, [Next]_vars, NEW a \in DOMAIN alerts, NEW f \in Fields,
                      alerts'[a][f] # alerts[a][f]
               PROVE  \E r \in Requests : /\ At(r, "triage", "commit")
                                          /\ f \in DOMAIN work[r].doing.to
                                          /\ work[r].doing.to[f] = alerts'[a][f]
      OBVIOUS
  <1>1. ASSUME NEW r \in Requests, CommitTriage(r)
        PROVE  /\ At(r, "triage", "commit")
               /\ f \in DOMAIN work[r].doing.to
               /\ work[r].doing.to[f] = alerts'[a][f]
    <2> DEFINE c == work[r].doing
               edited == [g \in Fields |->
                  IF g \in DOMAIN c.to /\ c.to[g] # c.seen[g]
                    THEN c.to[g] ELSE alerts[c.alert][g]]
    <2>1. alerts' = [alerts EXCEPT ![c.alert] = edited]
          BY <1>1 DEF CommitTriage
    <2>2. a = c.alert  BY <2>1 DEF TypeInv
    <2>3. alerts'[a] = edited  BY <2>1, <2>2 DEF TypeInv
    <2>4. edited[f] # alerts[a][f]  BY <2>3
    <2>5. f \in DOMAIN c.to /\ edited[f] = c.to[f]  BY <2>2, <2>4
    <2> QED  BY <1>1, <2>3, <2>5 DEF CommitTriage
  <1>2. ASSUME NEW r \in Requests, CommitAlert(r) PROVE FALSE
    <2>1. alerts'[a] = alerts[a]  BY <1>2 DEF CommitAlert, TypeInv
    <2> QED  BY <2>1
  <1>3. ASSUME NEW r \in Requests,
               \/ ChangeStatus(r) \/ AddNote(r) \/ Triage(r) \/ CreateAlert(r)
               \/ MarkRead(r) \/ PutPreferences(r)
               \/ Analyze(r) \/ ReportIncident(r) \/ ReportFleet(r)
        PROVE  FALSE
        BY <1>3 DEF ChangeStatus, AddNote, Triage, CreateAlert, MarkRead, PutPreferences,
                    Analyze, ReportIncident, ReportFleet, Start, tables
  <1>4. ASSUME NEW r \in Requests,
               \/ CommitStatus(r) \/ CommitNote(r) \/ CommitRead(r)
               \/ CommitPreferences(r) \/ CommitAnalysis(r) \/ WriteReport(r)
        PROVE  FALSE
        BY <1>4 DEF CommitStatus, CommitNote, CommitRead, CommitPreferences,
                    CommitAnalysis, WriteReport
  <1>5. ASSUME NEW r \in Requests,
               SelectAdmins(r) \/ Notify(r) \/ ReadLinked(r) \/ ReadAgain(r) \/ Fail(r)
        PROVE  FALSE
        BY <1>5 DEF SelectAdmins, Notify, ReadLinked, ReadAgain, Fail, tables
  <1>6. ASSUME NEW u \in Users, MarkAllRead(u) \/ Membership(u) PROVE FALSE
        BY <1>6 DEF MarkAllRead, Membership
  <1>7. CASE UNCHANGED vars  BY <1>7 DEF vars, tables
  <1> QED  BY <1>1, <1>2, <1>3, <1>4, <1>5, <1>6, <1>7 DEF Next, Handle

\* UnsetFieldsKept: a field of an alert changes only to what an edit that sets
\* it says, however many edits overlap.
THEOREM UnsetFieldsAlwaysKept == Spec => UnsetFieldsKept
  BY InitTyped, StepTyped, StepFields, PTL DEF Spec, UnsetFieldsKept

-----------------------------------------------------------------------------
(* Reports. *)

Own(r) == Event(work[r].began, "ai_analysis", "", "")

\* What a request that analyses or reports has read is what the tables hold,
\* as long as nobody else commits; its own event is not in them before it is
\* committed, whoever commits.
ReportOK(r) ==
    LET j == work[r]
        c == j.doing
        incident == j.op \in {"analysis", "report"} IN
    /\ incident /\ j.phase \in {"linked", "analysed"} => Own(r) \notin timeline
    /\ quiet[r] =>
         /\ incident => c.from = status
         /\ incident /\ j.phase \in {"linked", "analysed"} => c.rows = timeline
         /\ incident /\ j.phase \in {"evidence", "write"} =>
              Own(r) \in timeline /\ c.rows = timeline \ {Own(r)}
         /\ incident /\ j.phase \in {"analysed", "evidence", "write"} => c.first = LinkedPage
         /\ j.op = "report" /\ j.phase = "write" => c.second = LinkedPage
         /\ j.op = "fleet" => c.first = OpenAlerts
         /\ j.op = "fleet" /\ j.phase = "write" => c.second = OpenAlerts

ReportInv == \A r \in Requests : ReportOK(r)

LEMMA IdleReportOK == ASSUME NEW r, work[r].op \notin {"analysis", "report", "fleet"}
                      PROVE  ReportOK(r)
  BY DEF ReportOK

\* A step after which the incident and the alerts are as they were.
LEMMA ReportFrame ==
    ASSUME ReportInv, NEW q \in Requests, UNCHANGED <<status, timeline, alerts, dates>>,
           \A r \in Requests \ {q} : work'[r] = work[r] /\ quiet'[r] = quiet[r],
           ReportOK(q)'
    PROVE  ReportInv'
  <1> SUFFICES ASSUME NEW r \in Requests, r # q PROVE ReportOK(r)'
      BY DEF ReportInv
  <1>1. work'[r] = work[r] /\ quiet'[r] = quiet[r] /\ ReportOK(r)
        BY DEF ReportInv
  <1>2. Own(r)' = Own(r) /\ LinkedPage' = LinkedPage /\ OpenAlerts' = OpenAlerts
        BY <1>1 DEF Own, LinkedPage, Linked, OpenAlerts
  <1> QED  BY <1>1, <1>2 DEF ReportOK

\* The commit of another request.
LEMMA ReportCommits ==
    ASSUME TypeInv, ClockInv, ReportInv, NEW q \in Requests, Commit(q), work[q].op # "none",
           \A r \in Requests \ {q} : work'[r] = work[r],
           \A e \in timeline' \ timeline : e.at = work[q].began,
           ReportOK(q)'
    PROVE  ReportInv'
  <1> SUFFICES ASSUME NEW r \in Requests, r # q PROVE ReportOK(r)'
      BY DEF ReportInv
  <1>1. work'[r] = work[r] /\ ~quiet'[r] /\ ReportOK(r)
        BY DEF ReportInv, Commit
  <1>2. Own(r)' = Own(r) /\ Own(r).at = work[r].began
        BY <1>1 DEF Own, Event
  <1>3. work[r].op # "none" => work[r].began # work[q].began
        BY DEF ClockInv
  <1>4. work[r].op # "none" /\ Own(r) \notin timeline => Own(r)' \notin timeline'
        BY <1>2, <1>3
  <1> QED  BY <1>1, <1>4 DEF ReportOK

LEMMA StepReports ==
    TypeInv /\ TypeInv' /\ ClockInv /\ ReportInv /\ [Next]_vars => ReportInv'
  <1> SUFFICES ASSUME TypeInv, TypeInv', ClockInv, ReportInv, [Next]_vars
               PROVE  ReportInv'
      OBVIOUS
  <1>1. ASSUME NEW r \in Requests,
               \/ ChangeStatus(r) \/ AddNote(r) \/ Triage(r) \/ CreateAlert(r)
               \/ MarkRead(r) \/ PutPreferences(r)
        PROVE  ReportInv'
    <2>1. PICK o, p, d : /\ o \notin {"analysis", "report", "fleet"}
                         /\ Start(r, o, p, d)
          BY <1>1 DEF ChangeStatus, AddNote, Triage, CreateAlert, MarkRead, PutPreferences
    <2>2. work'[r].op = o  BY <2>1 DEF Start, TypeInv
    <2>3. ReportOK(r)'  BY <2>1, <2>2 DEF ReportOK
    <2> QED  BY <2>1, <2>3, ReportFrame DEF Start, tables, TypeInv
  <1>2. ASSUME NEW r \in Requests, Analyze(r) \/ ReportIncident(r) PROVE ReportInv'
    <2>1. PICK o \in {"analysis", "report"} :
            Start(r, o, "linked", [from |-> status, rows |-> timeline])
          BY <1>2 DEF Analyze, ReportIncident
    <2>2. work'[r] = [op |-> o, phase |-> "linked", began |-> started + 1,
                      doing |-> [from |-> status, rows |-> timeline]]
          BY <2>1 DEF Start, TypeInv
    <2>3. UNCHANGED <<status, timeline, alerts, dates>>  BY <2>1 DEF Start, tables
    <2>4. Own(r)' \notin timeline
      <3>1. Own(r)'.at = started + 1  BY <2>2 DEF Own, Event
      <3>2. \A e \in timeline : e.at <= started /\ e.at \in Nat
            BY DEF ClockInv, TypeInv, Rows, Events
      <3>3. started \in Nat  BY DEF TypeInv
      <3> QED  BY <3>1, <3>2, <3>3
    <2>5. ReportOK(r)'  BY <2>2, <2>3, <2>4 DEF ReportOK
    <2> QED  BY <2>1, <2>3, <2>5, ReportFrame DEF Start, TypeInv
  <1>3. ASSUME NEW r \in Requests, ReportFleet(r) PROVE ReportInv'
    <2>1. /\ work'[r] = [op |-> "fleet", phase |-> "chat", began |-> started + 1,
                         doing |-> [first |-> OpenAlerts]]
          /\ UNCHANGED <<status, timeline, alerts, dates>>
          BY <1>3 DEF ReportFleet, Start, tables, TypeInv
    <2>2. OpenAlerts' = OpenAlerts  BY <2>1 DEF OpenAlerts
    <2>3. ReportOK(r)'  BY <2>1, <2>2 DEF ReportOK
    <2> QED  BY <1>3, <2>1, <2>3, ReportFrame DEF ReportFleet, Start, TypeInv
  <1>4. ASSUME NEW r \in Requests, SelectAdmins(r) \/ Notify(r) PROVE ReportInv'
    <2>1. PICK p, d : Goto(r, p, d)  BY <1>4 DEF SelectAdmins, Notify
    <2>2. work[r].op = "alert" /\ UNCHANGED <<tables, started, history>>
          BY <1>4 DEF SelectAdmins, Notify, At
    <2>3. work'[r].op = "alert" /\ \A q \in Requests \ {r} : work'[q] = work[q]
          BY <2>1, <2>2 DEF Goto, TypeInv
    <2>4. ReportOK(r)'  BY <2>3 DEF ReportOK
    <2> QED  BY <2>2, <2>3, <2>4, ReportFrame DEF tables, history
  <1>5. ASSUME NEW r \in Requests, ReadLinked(r) PROVE ReportInv'
    <2> DEFINE c == work[r].doing
    <2>1. /\ work[r].op \in {"analysis", "report"} /\ work[r].phase = "linked"
          /\ work'[r] = [op |-> work[r].op, phase |-> "analysed", began |-> work[r].began,
                         doing |-> [from |-> c.from, rows |-> c.rows, first |-> LinkedPage]]
          /\ \A q \in Requests \ {r} : work'[q] = work[q]
          BY <1>5 DEF ReadLinked, Goto, TypeInv
    <2>2. UNCHANGED <<status, timeline, alerts, dates, quiet>>
          BY <1>5 DEF ReadLinked, tables, history
    <2>3. Own(r)' = Own(r) /\ LinkedPage' = LinkedPage
          BY <2>1, <2>2 DEF Own, LinkedPage, Linked
    <2>4. ReportOK(r)  BY DEF ReportInv
    <2>5. ReportOK(r)'  BY <2>1, <2>2, <2>3, <2>4 DEF ReportOK
    <2> QED  BY <2>1, <2>2, <2>5, ReportFrame
  <1>6. ASSUME NEW r \in Requests, ReadAgain(r) PROVE ReportInv'
    <2> DEFINE c == work[r].doing
    <2>1. UNCHANGED <<status, timeline, alerts, dates, quiet>>
          BY <1>6 DEF ReadAgain, tables, history
    <2>2. LinkedPage' = LinkedPage /\ OpenAlerts' = OpenAlerts
          BY <2>1 DEF LinkedPage, Linked, OpenAlerts
    <2>3. ReportOK(r)  BY DEF ReportInv
    <2>4. CASE At(r, "report", "evidence")
      <3>1. /\ work'[r] = [op |-> "report", phase |-> "write", began |-> work[r].began,
                 doing |-> [about |-> "incident", from |-> c.from, rows |-> c.rows,
                            first |-> c.first, second |-> LinkedPage]]
            /\ \A q \in Requests \ {r} : work'[q] = work[q]
            BY <1>6, <2>4 DEF ReadAgain, Goto, At, TypeInv
      <3>2. Own(r)' = Own(r)  BY <3>1 DEF Own
      <3>3. ReportOK(r)'
            BY <2>1, <2>2, <2>3, <2>4, <3>1, <3>2 DEF ReportOK, At
      <3> QED  BY <2>1, <3>1, <3>3, ReportFrame
    <2>5. CASE At(r, "fleet", "chat")
      <3>1. /\ work'[r] = [op |-> "fleet", phase |-> "write", began |-> work[r].began,
                 doing |-> [about |-> "fleet", first |-> c.first, second |-> OpenAlerts]]
            /\ \A q \in Requests \ {r} : work'[q] = work[q]
            BY <1>6, <2>5 DEF ReadAgain, Goto, At, TypeInv
      <3>2. ReportOK(r)'
            BY <2>1, <2>2, <2>3, <2>5, <3>1 DEF ReportOK, At
      <3> QED  BY <2>1, <3>1, <3>2, ReportFrame
    <2> QED  BY <1>6, <2>4, <2>5 DEF ReadAgain
  <1>7. ASSUME NEW r \in Requests, CommitAnalysis(r) PROVE ReportInv'
    <2> DEFINE j == work[r]
    <2>1. /\ j.op \in {"analysis", "report"} /\ j.phase = "analysed"
          /\ timeline' = timeline \cup {Own(r)}
          /\ Commit(r) /\ UNCHANGED <<status, alerts, dates>>
          /\ IF j.op = "report" THEN Goto(r, "evidence", j.doing) ELSE Done(r)
          BY <1>7 DEF CommitAnalysis, Own
    <2>2. /\ quiet'[r] = quiet[r] /\ LinkedPage' = LinkedPage
          /\ \A q \in Requests \ {r} : work'[q] = work[q]
          BY <2>1 DEF Commit, LinkedPage, Linked, Goto, Done, TypeInv
    <2>3. ReportOK(r)  BY DEF ReportInv
    <2>4. ReportOK(r)'
      <3>1. CASE j.op = "report"
        <4>1. work'[r] = [op |-> "report", phase |-> "evidence", began |-> j.began,
                          doing |-> j.doing]
              BY <2>1, <3>1 DEF Goto, TypeInv
        <4>2. Own(r)' = Own(r)  BY <4>1 DEF Own
        <4>3. Own(r)' \in timeline' /\ timeline' \ {Own(r)'} = timeline
              BY <2>1, <2>3, <4>2 DEF ReportOK
        <4> QED  BY <2>1, <2>2, <2>3, <4>1, <4>3 DEF ReportOK
      <3>2. CASE j.op # "report"
        <4>1. work'[r].op = "none"  BY <2>1, <3>2, IdleIsNoJob DEF Done, TypeInv
        <4> QED  BY <4>1 DEF ReportOK
      <3> QED  BY <3>1, <3>2
    <2>5. Own(r).at = work[r].began  BY DEF Own, Event
    <2> QED  BY <2>1, <2>2, <2>4, <2>5, ReportCommits
  <1>8. ASSUME NEW r \in Requests,
               \/ CommitStatus(r) \/ CommitNote(r) \/ CommitTriage(r) \/ CommitAlert(r)
               \/ CommitRead(r) \/ CommitPreferences(r) \/ WriteReport(r)
        PROVE  ReportInv'
    <2>1. Done(r) /\ Commit(r) /\ work[r].op # "none"
          BY <1>8 DEF CommitStatus, CommitNote, CommitTriage, CommitAlert, CommitRead,
             CommitPreferences, WriteReport, At
    <2>2. work'[r].op = "none" /\ \A q \in Requests \ {r} : work'[q] = work[q]
          BY <2>1, IdleIsNoJob DEF Done, TypeInv
    <2>3. ReportOK(r)'  BY <2>2 DEF ReportOK
    <2>4. \A e \in timeline' \ timeline : e.at = work[r].began
      <3>1. \A k, f, t : Event(work[r].began, k, f, t).at = work[r].began  BY DEF Event
      <3>2. CASE CommitStatus(r)  BY <3>1, <3>2 DEF CommitStatus
      <3>3. CASE CommitNote(r)  BY <3>1, <3>3 DEF CommitNote
      <3>4. CASE \/ CommitTriage(r) \/ CommitAlert(r) \/ CommitRead(r)
                 \/ CommitPreferences(r) \/ WriteReport(r)
            BY <3>4 DEF CommitTriage, CommitAlert, CommitRead, CommitPreferences, WriteReport
      <3> QED  BY <1>8, <3>2, <3>3, <3>4
    <2> QED  BY <2>1, <2>2, <2>3, <2>4, ReportCommits
  <1>9. ASSUME NEW r \in Requests, Fail(r) PROVE ReportInv'
    <2>1. /\ work'[r].op = "none" /\ \A q \in Requests \ {r} : work'[q] = work[q]
          /\ UNCHANGED <<status, timeline, alerts, dates, quiet>>
          BY <1>9, IdleIsNoJob DEF Fail, Done, tables, history, TypeInv
    <2>2. ReportOK(r)'  BY <2>1 DEF ReportOK
    <2> QED  BY <2>1, <2>2, ReportFrame
  <1>10. ASSUME UNCHANGED <<status, timeline, alerts, dates, work, quiet>> PROVE ReportInv'
         BY <1>10 DEF ReportInv, ReportOK, Own, LinkedPage, Linked, OpenAlerts
  <1>11. ASSUME NEW u \in Users, MarkAllRead(u) \/ Membership(u) PROVE ReportInv'
         BY <1>10, <1>11 DEF MarkAllRead, Membership, history
  <1>12. CASE UNCHANGED vars
         BY <1>10, <1>12 DEF vars, tables, history
  <1> QED  BY <1>1, <1>2, <1>3, <1>4, <1>5, <1>6, <1>7, <1>8, <1>9, <1>11, <1>12
           DEF Next, Handle

LEMMA StepQuietReports ==
    TypeInv /\ ReportInv /\ QuietReportAgrees /\ [Next]_vars => QuietReportAgrees'
  <1> SUFFICES ASSUME TypeInv, ReportInv, QuietReportAgrees, [Next]_vars
               PROVE  QuietReportAgrees'
      OBVIOUS
  <1>1. CASE reports' = reports  BY <1>1 DEF QuietReportAgrees
  <1>2. ASSUME NEW r \in Requests, WriteReport(r) PROVE QuietReportAgrees'
    <2> DEFINE c == work[r].doing
               n == [said |-> c, began |-> work[r].began, quiet |-> quiet[r],
                     now |-> [status |-> status, timeline |-> timeline,
                              page |-> LinkedPage, open |-> OpenAlerts]]
    <2>1. reports' = reports \cup {n}  BY <1>2 DEF WriteReport
    <2>2. SUFFICES ASSUME n.quiet
                   PROVE  LET own == Event(n.began, "ai_analysis", "", "") IN
                          /\ n.said.first = n.said.second
                          /\ n.said.about = "fleet" => n.said.second = n.now.open
                          /\ n.said.about = "incident" =>
                               /\ n.said.from = n.now.status
                               /\ n.said.second = n.now.page
                               /\ own \in n.now.timeline
                               /\ n.said.rows = n.now.timeline \ {own}
          BY <2>1 DEF QuietReportAgrees
    <2>3. ReportOK(r) /\ quiet[r] /\ Own(r) = Event(n.began, "ai_analysis", "", "")
          BY <2>2 DEF ReportInv, Own
    <2>4. CASE work[r].op = "report"
      <3>1. work[r] \in ReportJob  BY <1>2, <2>4, JobOfOp DEF WriteReport, TypeInv
      <3>2. c.about = "incident"  BY <3>1 DEF ReportJob, Job
      <3> QED  BY <1>2, <2>3, <2>4, <3>2 DEF ReportOK, WriteReport
    <2>5. CASE work[r].op = "fleet"
      <3>1. work[r] \in FleetJob  BY <1>2, <2>5, JobOfOp DEF WriteReport, TypeInv
      <3>2. c.about = "fleet"  BY <3>1 DEF FleetJob, Job
      <3> QED  BY <1>2, <2>3, <2>5, <3>2 DEF ReportOK, WriteReport
    <2> QED  BY <1>2, <2>4, <2>5 DEF WriteReport
  <1>3. \/ \E r \in Requests : WriteReport(r)
        \/ reports' = reports
    <2>1. ASSUME NEW r \in Requests, Handle(r) PROVE WriteReport(r) \/ reports' = reports
      <3>1. CASE \/ ChangeStatus(r) \/ AddNote(r) \/ Triage(r) \/ CreateAlert(r)
                 \/ MarkRead(r) \/ PutPreferences(r)
                 \/ Analyze(r) \/ ReportIncident(r) \/ ReportFleet(r)
            BY <3>1 DEF ChangeStatus, AddNote, Triage, CreateAlert, MarkRead, PutPreferences,
                        Analyze, ReportIncident, ReportFleet, Start, tables
      <3>2. CASE \/ CommitStatus(r) \/ CommitNote(r) \/ CommitTriage(r) \/ CommitAlert(r)
                 \/ CommitRead(r) \/ CommitPreferences(r) \/ CommitAnalysis(r)
            BY <3>2 DEF CommitStatus, CommitNote, CommitTriage, CommitAlert, CommitRead,
                        CommitPreferences, CommitAnalysis
      <3>3. CASE SelectAdmins(r) \/ Notify(r) \/ ReadLinked(r) \/ ReadAgain(r) \/ Fail(r)
            BY <3>3 DEF SelectAdmins, Notify, ReadLinked, ReadAgain, Fail, tables
      <3> QED  BY <2>1, <3>1, <3>2, <3>3 DEF Handle
    <2>2. ASSUME NEW u \in Users, MarkAllRead(u) \/ Membership(u) PROVE reports' = reports
          BY <2>2 DEF MarkAllRead, Membership
    <2>3. CASE UNCHANGED vars  BY <2>3 DEF vars, tables
    <2> QED  BY <2>1, <2>2, <2>3 DEF Next
  <1> QED  BY <1>1, <1>2, <1>3

\* QuietReportAgrees: a report that no other commit overlapped agrees with the
\* tables and with itself, but for the event of its own analysis.
THEOREM QuietReportsAgree == Spec => []QuietReportAgrees
  <1> DEFINE I == TypeInv /\ ClockInv /\ ReportInv /\ QuietReportAgrees
  <1>1. Init => I
    <2>1. Init => ReportInv  BY IdleIsNoJob, IdleReportOK DEF Init, ReportInv
    <2>2. Init => QuietReportAgrees  BY DEF Init, QuietReportAgrees
    <2> QED  BY <2>1, <2>2, InitTyped, InitClock
  <1>2. I /\ [Next]_vars => I'
        BY StepTyped, StepClock, StepReports, StepQuietReports
  <1>3. I => QuietReportAgrees  OBVIOUS
  <1> QED  BY <1>1, <1>2, <1>3, PTL DEF Spec
-----------------------------------------------------------------------------
(* Notifications. *)

\* Between its statements the request for a critical alert keeps everybody who
\* must hear of it among those it has told and those it has yet to ask.
HeardOK(r) ==
    LET c == work[r].doing
        h == heard[r] IN
    work[r].op = "alert" =>
      /\ ~c.critical => work[r].phase = "commit" /\ c.tell = {} /\ h = Nobody
      /\ c.critical =>
           /\ h.always \subseteq admins \cap Unmuted
           /\ admins \subseteq h.admin /\ Unmuted \subseteq h.unmuted
           /\ c.left \subseteq h.admin /\ c.tell \subseteq h.admin \cap h.unmuted
           /\ work[r].phase = "admins" => c.tell = {} /\ c.left = {}
           /\ work[r].phase = "notify" => h.always \subseteq c.tell \cup c.left
           /\ work[r].phase = "commit" => h.always \subseteq c.tell

HeardInv == \A r \in Requests : HeardOK(r)

\* One that goes on as it was, whoever comes and goes meanwhile.
LEMMA HeardKeeps ==
    ASSUME NEW r \in Requests, HeardOK(r), Heard, work'[r] = work[r]
    PROVE  HeardOK(r)'
  <1> SUFFICES ASSUME work[r].op = "alert" PROVE HeardOK(r)'
      BY DEF HeardOK
  <1>1. CASE work[r].doing.critical
    <2>1. heard'[r] = [always |-> heard[r].always \cap (admins \cap Unmuted)',
                       admin |-> heard[r].admin \cup admins',
                       unmuted |-> heard[r].unmuted \cup Unmuted']
          BY <1>1 DEF Heard
    <2> QED  BY <1>1, <2>1 DEF HeardOK
  <1>2. CASE ~work[r].doing.critical
    <2>1. heard'[r] = Nobody  BY <1>2 DEF Heard
    <2> QED  BY <1>2, <2>1 DEF HeardOK
  <1> QED  BY <1>1, <1>2

LEMMA StepHeard ==
    TypeInv /\ TypeInv' /\ HeardInv /\ [Next]_vars => HeardInv'
  <1> SUFFICES ASSUME TypeInv, TypeInv', HeardInv, Next PROVE HeardInv'
      BY DEF vars, tables, HeardInv, HeardOK, Unmuted
  <1>0. Heard  BY DEF Next
  <1>1. ASSUME NEW r \in Requests, HeardOK(r)',
               \A q \in Requests \ {r} : work'[q] = work[q]
        PROVE  HeardInv'
        BY <1>0, <1>1, HeardKeeps DEF HeardInv
  <1>2. ASSUME NEW r \in Requests, work'[r].op # "alert",
               \A q \in Requests \ {r} : work'[q] = work[q]
        PROVE  HeardInv'
        BY <1>1, <1>2 DEF HeardOK
  <1>3. ASSUME NEW r \in Requests,
               \/ ChangeStatus(r) \/ AddNote(r) \/ Triage(r)
               \/ MarkRead(r) \/ PutPreferences(r)
               \/ Analyze(r) \/ ReportIncident(r) \/ ReportFleet(r)
        PROVE  HeardInv'
    <2>1. PICK o, p, d : o # "alert" /\ Start(r, o, p, d)
          BY <1>3 DEF ChangeStatus, AddNote, Triage, MarkRead, PutPreferences,
                      Analyze, ReportIncident, ReportFleet
    <2> QED  BY <1>2, <2>1 DEF Start, TypeInv
  <1>4. ASSUME NEW r \in Requests,
               \/ CommitStatus(r) \/ CommitNote(r) \/ CommitTriage(r) \/ CommitAlert(r)
               \/ CommitRead(r) \/ CommitPreferences(r) \/ WriteReport(r) \/ Fail(r)
        PROVE  HeardInv'
    <2>1. Done(r)
          BY <1>4 DEF CommitStatus, CommitNote, CommitTriage, CommitAlert, CommitRead,
             CommitPreferences, WriteReport, Fail
    <2> QED  BY <1>2, <2>1, IdleIsNoJob DEF Done, TypeInv
  <1>5. ASSUME NEW r \in Requests, ReadLinked(r) \/ ReadAgain(r) PROVE HeardInv'
    <2>1. work[r].op # "alert" /\ \E p, d : Goto(r, p, d)
          BY <1>5 DEF ReadLinked, ReadAgain, At
    <2> QED  BY <1>2, <2>1 DEF Goto, TypeInv
  <1>6. ASSUME NEW r \in Requests, CommitAnalysis(r) PROVE HeardInv'
    <2>1. /\ work[r].op # "alert"
          /\ Goto(r, "evidence", work[r].doing) \/ Done(r)
          BY <1>6 DEF CommitAnalysis
    <2>2. CASE Goto(r, "evidence", work[r].doing)
          BY <1>2, <2>1, <2>2 DEF Goto, TypeInv
    <2>3. CASE Done(r)  BY <1>2, <2>3, IdleIsNoJob DEF Done, TypeInv
    <2> QED  BY <2>1, <2>2, <2>3
  <1>7. ASSUME NEW u \in Users, MarkAllRead(u) \/ Membership(u) PROVE HeardInv'
    <2>1. work' = work  BY <1>7 DEF MarkAllRead, Membership
    <2> QED  BY <1>0, <2>1, HeardKeeps DEF HeardInv
  <1>8. ASSUME NEW r \in Requests, CreateAlert(r) PROVE HeardInv'
    <2> DEFINE first(c) == [critical |-> c, left |-> {}, tell |-> {}]
    <2>1. PICK c \in BOOLEAN :
            Start(r, "alert", IF c THEN "admins" ELSE "commit", first(c))
          BY <1>8 DEF CreateAlert
    <2>2. /\ work[r].op = "none"
          /\ work'[r] = [op |-> "alert", phase |-> IF c THEN "admins" ELSE "commit",
                         began |-> started + 1, doing |-> first(c)]
          /\ \A q \in Requests \ {r} : work'[q] = work[q]
          BY <2>1 DEF Start, TypeInv
    <2>3. HeardOK(r)'
      <3>1. CASE c
        <4>1. heard'[r] = [always |-> (admins \cap Unmuted)', admin |-> admins',
                           unmuted |-> Unmuted']
              BY <1>0, <2>2, <3>1 DEF Heard
        <4> QED  BY <2>2, <3>1, <4>1 DEF HeardOK
      <3>2. CASE ~c
        <4>1. heard'[r] = Nobody  BY <1>0, <2>2, <3>2 DEF Heard
        <4> QED  BY <2>2, <3>2, <4>1 DEF HeardOK
      <3> QED  BY <3>1, <3>2
    <2> QED  BY <1>1, <2>2, <2>3
  <1>9. ASSUME NEW r \in Requests, SelectAdmins(r) PROVE HeardInv'
    <2> DEFINE c == work[r].doing
               next == [c EXCEPT !.left = admins]
               at == IF admins = {} THEN "commit" ELSE "notify"
    <2>1. /\ work[r] \in AlertJob /\ work[r].op = "alert" /\ work[r].phase = "admins"
          /\ UNCHANGED <<admins, prefs>>
          BY <1>9, JobOfOp DEF SelectAdmins, At, TypeInv, tables
    <2>2. /\ next.critical = c.critical /\ next.left = admins /\ next.tell = c.tell
          BY <2>1 DEF AlertJob, Job
    <2> HIDE DEF next, at
    <2>3. /\ work'[r] = [op |-> "alert", phase |-> at,
                         began |-> work[r].began, doing |-> next]
          /\ \A q \in Requests \ {r} : work'[q] = work[q]
          BY <1>9, <2>1 DEF SelectAdmins, Goto, TypeInv, next, at
    <2>4. HeardOK(r) /\ Unmuted' = Unmuted
          BY <2>1 DEF HeardInv, Unmuted
    <2>5. c.critical /\ c.critical = TRUE  BY <2>1, <2>4 DEF HeardOK, AlertJob, Job
    <2>6. /\ work'[r].op = "alert" /\ work'[r].doing.critical = TRUE
          /\ work'[r].doing.left = admins /\ work'[r].doing.tell = c.tell
          /\ work'[r].phase = at
      <3>1. work'[r].op = "alert"  BY <2>3
      <3>2. work'[r].phase = at  BY <2>3
      <3>3. work'[r].doing = next  BY <2>3
      <3>4. next.critical = TRUE  BY <2>2, <2>5
      <3>5. work'[r].doing.left = admins /\ work'[r].doing.tell = c.tell
            BY <2>2, <3>3
      <3>6. work'[r].doing.critical = TRUE  BY <3>3, <3>4
      <3> QED  BY <3>1, <3>2, <3>5, <3>6
    <2>7. heard'[r] = [always |-> heard[r].always \cap (admins \cap Unmuted),
                       admin |-> heard[r].admin \cup admins,
                       unmuted |-> heard[r].unmuted \cup Unmuted]
          BY <1>0, <2>1, <2>4, <2>6 DEF Heard
    <2>8. HeardOK(r)'
          BY <2>1, <2>4, <2>5, <2>7, <2>6 DEF HeardOK, at
    <2> QED  BY <1>1, <2>3, <2>8
  <1>10. ASSUME NEW r \in Requests, Notify(r) PROVE HeardInv'
    <2> DEFINE c == work[r].doing
               next(u) == [c EXCEPT !.left = @ \ {u},
                             !.tell = IF prefs[u] = "muted" THEN @ ELSE @ \cup {u}]
               at(u) == IF c.left = {u} THEN "commit" ELSE "notify"
    <2>1. /\ work[r] \in AlertJob /\ work[r].op = "alert" /\ work[r].phase = "notify"
          /\ UNCHANGED <<admins, prefs>>
          BY <1>10, JobOfOp DEF Notify, At, TypeInv, tables
    <2>2. PICK u \in c.left : Goto(r, at(u), next(u))
          BY <1>10 DEF Notify
    <2>3. /\ next(u).critical = c.critical /\ next(u).left = c.left \ {u}
          /\ next(u).tell = IF prefs[u] = "muted" THEN c.tell ELSE c.tell \cup {u}
          BY <2>1 DEF AlertJob, Job
    <2> HIDE DEF next, at
    <2>4. /\ work'[r] = [op |-> "alert", phase |-> at(u),
                         began |-> work[r].began, doing |-> next(u)]
          /\ \A q \in Requests \ {r} : work'[q] = work[q]
          BY <2>1, <2>2 DEF Goto, TypeInv
    <2>5. HeardOK(r) /\ Unmuted' = Unmuted
          BY <2>1 DEF HeardInv, Unmuted
    <2>6. c.critical /\ c.critical = TRUE /\ u \in Users  BY <2>1, <2>5 DEF HeardOK, AlertJob, Job
    <2>7. /\ work'[r].op = "alert" /\ work'[r].doing.critical = TRUE
          /\ work'[r].doing.left = c.left \ {u}
          /\ work'[r].doing.tell = IF prefs[u] = "muted" THEN c.tell ELSE c.tell \cup {u}
          /\ work'[r].phase = at(u)
      <3>1. work'[r].op = "alert"  BY <2>4
      <3>2. work'[r].phase = at(u)  BY <2>4
      <3>3. work'[r].doing = next(u)  BY <2>4
      <3>4. next(u).critical = TRUE  BY <2>3, <2>6
      <3>5. /\ work'[r].doing.left = c.left \ {u}
            /\ work'[r].doing.tell = IF prefs[u] = "muted" THEN c.tell ELSE c.tell \cup {u}
            BY <2>3, <3>3
      <3>6. work'[r].doing.critical = TRUE  BY <3>3, <3>4
      <3> QED  BY <3>1, <3>2, <3>5, <3>6
    <2>8. heard'[r] = [always |-> heard[r].always \cap (admins \cap Unmuted),
                       admin |-> heard[r].admin \cup admins,
                       unmuted |-> heard[r].unmuted \cup Unmuted]
          BY <1>0, <2>1, <2>5, <2>7 DEF Heard
    <2>9. u \in Unmuted <=> prefs[u] # "muted"  BY <2>6 DEF Unmuted
    <2>10. HeardOK(r)'
          BY <2>1, <2>2, <2>5, <2>6, <2>7, <2>8, <2>9 DEF HeardOK, at
    <2> QED  BY <1>1, <2>4, <2>10
  <1> QED  BY <1>3, <1>4, <1>5, <1>6, <1>7, <1>8, <1>9, <1>10 DEF Next, Handle

Hearings == [always : SUBSET Users, admin : SUBSET Users, unmuted : SUBSET Users]
Inbox(u) == inbox[u].unread \cup inbox[u].read

\* Notifications are of alerts that exist, and one being marked read stays.
ToldInv ==
    /\ heard \in [Requests -> Hearings]
    /\ due \in Seq(Hearings) /\ Len(due) = Len(alerts)
    /\ \A u \in Users : Inbox(u) \subseteq 1..Len(alerts)
    /\ \A r \in Requests : work[r].op = "read" =>
         work[r].doing.alert \in Inbox(work[r].doing.user)
    /\ ListenersAreTold

LEMMA HeardTyped ==
    ASSUME TypeInv, TypeInv', heard \in [Requests -> Hearings], Heard
    PROVE  heard' \in [Requests -> Hearings]
  <1>1. Unmuted' \subseteq Users /\ admins' \subseteq Users
        BY DEF Unmuted, TypeInv
  <1>2. Nobody \in Hearings  BY DEF Nobody, Hearings
  <1>3. \A r \in Requests :
          /\ [always |-> (admins \cap Unmuted)', admin |-> admins', unmuted |-> Unmuted']
               \in Hearings
          /\ [always |-> heard[r].always \cap (admins \cap Unmuted)',
              admin |-> heard[r].admin \cup admins',
              unmuted |-> heard[r].unmuted \cup Unmuted'] \in Hearings
        BY <1>1 DEF Hearings
  <1> QED  BY <1>2, <1>3 DEF Heard

\* A step that adds no alert, and takes no notification away.
LEMMA ToldKeeps ==
    ASSUME TypeInv, TypeInv', ToldInv, heard' \in [Requests -> Hearings],
           UNCHANGED due, Len(alerts') = Len(alerts),
           \A u \in Users : Inbox(u)' = Inbox(u),
           \A r \in Requests : work'[r].op = "read" =>
             \/ work'[r] = work[r]
             \/ work'[r].doing.alert \in Inbox(work'[r].doing.user)
    PROVE  ToldInv'
  <1>1. DOMAIN alerts' = DOMAIN alerts  BY DEF TypeInv
  <1>2. \A a \in DOMAIN alerts :
          {u \in Users : a \in inbox'[u].unread \cup inbox'[u].read} =
          {u \in Users : a \in inbox[u].unread \cup inbox[u].read}
        BY DEF Inbox
  <1>3. ListenersAreTold'
        BY <1>1, <1>2 DEF ToldInv, ListenersAreTold
  <1>4. (\A r \in Requests : work[r].op = "read" =>
           work[r].doing.alert \in Inbox(work[r].doing.user))'
    <2> SUFFICES ASSUME NEW r \in Requests, work'[r].op = "read"
                 PROVE  (work[r].doing.alert \in Inbox(work[r].doing.user))'
        OBVIOUS
    <2>1. work'[r] \in ReadJob  BY JobOfOp DEF TypeInv
    <2>2. work'[r].doing.user \in Users  BY <2>1 DEF ReadJob, Job
    <2>3. work'[r].doing.alert \in Inbox(work'[r].doing.user)  BY DEF ToldInv
    <2>4. \A u \in Users : inbox'[u].unread \cup inbox'[u].read = Inbox(u)
          BY DEF Inbox
    <2> QED  BY <2>2, <2>3, <2>4 DEF Inbox
  <1> QED  BY <1>3, <1>4 DEF ToldInv

LEMMA StepTold ==
    TypeInv /\ TypeInv' /\ HeardInv /\ ToldInv /\ [Next]_vars => ToldInv'
  <1> SUFFICES ASSUME TypeInv, TypeInv', HeardInv, ToldInv, Next PROVE ToldInv'
    <2>1. CASE UNCHANGED vars
          BY <2>1 DEF vars, tables, history, ToldInv, ListenersAreTold, Inbox
    <2> QED  BY <2>1
  <1>0. heard' \in [Requests -> Hearings]  BY HeardTyped DEF Next, ToldInv
  <1>1. ASSUME NEW r \in Requests,
               \/ ChangeStatus(r) \/ AddNote(r) \/ Triage(r) \/ CreateAlert(r)
               \/ PutPreferences(r)
               \/ Analyze(r) \/ ReportIncident(r) \/ ReportFleet(r)
        PROVE  ToldInv'
    <2>1. PICK o, p, d : o # "read" /\ Start(r, o, p, d)
          BY <1>1 DEF ChangeStatus, AddNote, Triage, CreateAlert, PutPreferences,
                      Analyze, ReportIncident, ReportFleet
    <2>2. /\ UNCHANGED <<alerts, inbox, due>>
          /\ \A q \in Requests : work'[q].op = "read" => work'[q] = work[q]
          BY <2>1 DEF Start, tables, TypeInv
    <2> QED  BY <1>0, <2>2, ToldKeeps DEF Inbox
  <1>2. ASSUME NEW r \in Requests, MarkRead(r) PROVE ToldInv'
    <2>1. PICK u \in Users : \E a \in inbox[u].unread :
            Start(r, "read", "commit", [user |-> u, alert |-> a])
          BY <1>2 DEF MarkRead
    <2>2. PICK a \in inbox[u].unread :
            Start(r, "read", "commit", [user |-> u, alert |-> a])
          BY <2>1
    <2>3. /\ UNCHANGED <<alerts, inbox, due>>
          /\ work'[r].doing = [user |-> u, alert |-> a]
          /\ \A q \in Requests \ {r} : work'[q] = work[q]
          BY <2>2 DEF Start, tables, TypeInv
    <2>4. a \in Inbox(u)  BY DEF Inbox
    <2> QED  BY <1>0, <2>3, <2>4, ToldKeeps DEF Inbox
  <1>3. ASSUME NEW r \in Requests,
               SelectAdmins(r) \/ Notify(r) \/ ReadLinked(r) \/ ReadAgain(r)
        PROVE  ToldInv'
    <2>1. /\ work[r].op # "read" /\ UNCHANGED <<alerts, inbox, due>>
          /\ \E p, d : Goto(r, p, d)
          BY <1>3 DEF SelectAdmins, Notify, ReadLinked, ReadAgain, At, tables, history
    <2>2. \A q \in Requests : work'[q].op = "read" => work'[q] = work[q]
          BY <2>1 DEF Goto, TypeInv
    <2> QED  BY <1>0, <2>1, <2>2, ToldKeeps DEF Inbox
  <1>4. ASSUME NEW r \in Requests,
               \/ CommitStatus(r) \/ CommitNote(r) \/ CommitPreferences(r)
               \/ WriteReport(r) \/ Fail(r)
        PROVE  ToldInv'
    <2>1. Done(r) /\ UNCHANGED <<alerts, inbox, due>>
          BY <1>4 DEF CommitStatus, CommitNote, CommitPreferences, WriteReport, Fail,
             tables, history
    <2>2. \A q \in Requests : work'[q].op = "read" => work'[q] = work[q]
          BY <2>1, IdleIsNoJob DEF Done, TypeInv
    <2> QED  BY <1>0, <2>1, <2>2, ToldKeeps DEF Inbox
  <1>5. ASSUME NEW r \in Requests, CommitAnalysis(r) PROVE ToldInv'
    <2>1. /\ work[r].op # "read" /\ UNCHANGED <<alerts, inbox, due>>
          /\ Goto(r, "evidence", work[r].doing) \/ Done(r)
          BY <1>5 DEF CommitAnalysis
    <2>2. \A q \in Requests : work'[q].op = "read" => work'[q] = work[q]
          BY <2>1, IdleIsNoJob DEF Goto, Done, TypeInv
    <2> QED  BY <1>0, <2>1, <2>2, ToldKeeps DEF Inbox
  <1>6. ASSUME NEW r \in Requests, CommitTriage(r) PROVE ToldInv'
    <2>1. Done(r) /\ UNCHANGED <<inbox, due>>  BY <1>6 DEF CommitTriage
    <2>2. DOMAIN alerts' = DOMAIN alerts  BY <1>6 DEF CommitTriage, TypeInv
    <2>3. Len(alerts') = Len(alerts)  BY <2>2 DEF TypeInv
    <2>4. \A q \in Requests : work'[q].op = "read" => work'[q] = work[q]
          BY <2>1, IdleIsNoJob DEF Done, TypeInv
    <2> QED  BY <1>0, <2>1, <2>3, <2>4, ToldKeeps DEF Inbox
  <1>7. ASSUME NEW r \in Requests, CommitRead(r) PROVE ToldInv'
    <2> DEFINE c == work[r].doing
    <2>1. Done(r) /\ UNCHANGED <<alerts, due>> /\ work[r].op = "read"
          BY <1>7 DEF CommitRead, At
    <2>2. work[r] \in ReadJob  BY <2>1, JobOfOp DEF TypeInv
    <2>3. c.user \in Users /\ c.alert \in inbox[c.user].unread \cup inbox[c.user].read
          BY <2>1, <2>2 DEF ToldInv, Inbox, ReadJob, Job
    <2>4. /\ inbox'[c.user] = [unread |-> inbox[c.user].unread \ {c.alert},
                               read |-> inbox[c.user].read \cup {c.alert}]
          /\ \A u \in Users \ {c.user} : inbox'[u] = inbox[u]
          BY <1>7, <2>3 DEF CommitRead, TypeInv
    <2>5. \A u \in Users : Inbox(u)' = Inbox(u)  BY <2>3, <2>4 DEF Inbox
    <2>6. \A q \in Requests : work'[q].op = "read" => work'[q] = work[q]
          BY <2>1, IdleIsNoJob DEF Done, TypeInv
    <2> QED  BY <1>0, <2>1, <2>5, <2>6, ToldKeeps
  <1>8. ASSUME NEW v \in Users, MarkAllRead(v) PROVE ToldInv'
    <2>1. /\ UNCHANGED <<alerts, due, work>>
          /\ inbox'[v] = [unread |-> {}, read |-> inbox[v].unread \cup inbox[v].read]
          /\ \A u \in Users \ {v} : inbox'[u] = inbox[u]
          BY <1>8 DEF MarkAllRead, history, TypeInv
    <2>2. \A u \in Users : Inbox(u)' = Inbox(u)  BY <2>1 DEF Inbox
    <2> QED  BY <1>0, <2>1, <2>2, ToldKeeps
  <1>9. ASSUME NEW v \in Users, Membership(v) PROVE ToldInv'
    <2>1. UNCHANGED <<alerts, due, work, inbox>>  BY <1>9 DEF Membership, history
    <2> QED  BY <1>0, <2>1, ToldKeeps DEF Inbox
  <1>10. ASSUME NEW r \in Requests, CommitAlert(r) PROVE ToldInv'
    <2> DEFINE tell == work[r].doing.tell
               n == Len(alerts) + 1
    <2>1. /\ alerts' = Append(alerts, NewAlert) /\ due' = Append(due, heard[r])
          /\ Told(tell) /\ Done(r) /\ work[r].op = "alert" /\ work[r].phase = "commit"
          BY <1>10 DEF CommitAlert, At
    <2>2. /\ alerts \in Seq([Fields -> 0..1]) /\ due \in Seq(Hearings)
          /\ Len(due) = Len(alerts) /\ heard[r] \in Hearings /\ n \in Nat
          BY DEF TypeInv, ToldInv
    <2>3. /\ Len(alerts') = n /\ Len(due') = n /\ due' \in Seq(Hearings)
          /\ due'[n] = heard[r] /\ DOMAIN alerts' = 1..n /\ DOMAIN alerts = 1..Len(alerts)
          /\ \A a \in 1..Len(alerts) : due'[a] = due[a]
          BY <2>1, <2>2
    <2>4. /\ \A u \in Users \cap tell : Inbox(u)' = Inbox(u) \cup {n}
          /\ \A u \in Users \ tell : Inbox(u)' = Inbox(u)
      <3>1. /\ \A u \in Users \cap tell :
                  inbox'[u] = [inbox[u] EXCEPT !.unread = @ \cup {n}]
            /\ \A u \in Users \ tell : inbox'[u] = inbox[u]
            BY <2>1 DEF Told
      <3>2. \A u \in Users \cap tell :
              inbox'[u].unread = inbox[u].unread \cup {n} /\ inbox'[u].read = inbox[u].read
            BY <3>1 DEF TypeInv
      <3>3. \A u \in Users \cap tell : Inbox(u)' = Inbox(u) \cup {n}
            BY <3>2 DEF Inbox
      <3>4. \A u \in Users \ tell : Inbox(u)' = Inbox(u)
            BY <3>1 DEF Inbox
      <3> QED  BY <3>3, <3>4
    <2>5. \A u \in Users : Inbox(u)' \subseteq 1..n
          BY <2>2, <2>4 DEF ToldInv
    <2>6. \A q \in Requests : work'[q].op = "read" => work'[q] = work[q]
          BY <2>1, IdleIsNoJob DEF Done, TypeInv
    <2>7. (\A q \in Requests : work[q].op = "read" =>
             work[q].doing.alert \in Inbox(work[q].doing.user))'
      <3> SUFFICES ASSUME NEW q \in Requests, work'[q].op = "read"
                   PROVE  (work[q].doing.alert \in Inbox(work[q].doing.user))'
          OBVIOUS
      <3>1. work'[q] \in ReadJob  BY JobOfOp DEF TypeInv
      <3>2. work'[q].doing.user \in Users  BY <3>1 DEF ReadJob, Job
      <3>3. work'[q].doing.alert \in Inbox(work'[q].doing.user)  BY <2>6 DEF ToldInv
      <3>4. \A u \in Users : Inbox(u) \subseteq inbox'[u].unread \cup inbox'[u].read
            BY <2>4 DEF Inbox
      <3> QED  BY <3>2, <3>3, <3>4 DEF Inbox
    <2>8. ListenersAreTold'
      <3>1. \A a \in 1..Len(alerts), u \in Users : a \in Inbox(u)' <=> a \in Inbox(u)
            BY <2>2, <2>4
      <3>2. \A u \in Users : n \in Inbox(u)' <=> u \in tell
            BY <2>2, <2>4 DEF ToldInv
      <3>3. ASSUME NEW a \in 1..Len(alerts)
            PROVE  LET told == {u \in Users : a \in inbox'[u].unread \cup inbox'[u].read} IN
                   /\ due'[a].always \subseteq told
                   /\ told \subseteq due'[a].admin \cap due'[a].unmuted
            BY <2>3, <3>1 DEF ToldInv, ListenersAreTold, Inbox
      <3>4. LET told == {u \in Users : n \in inbox'[u].unread \cup inbox'[u].read} IN
            /\ due'[n].always \subseteq told
            /\ told \subseteq due'[n].admin \cap due'[n].unmuted
        <4>1. {u \in Users : n \in inbox'[u].unread \cup inbox'[u].read} = Users \cap tell
              BY <3>2 DEF Inbox
        <4>2. HeardOK(r) /\ work[r] \in AlertJob
              BY <2>1, JobOfOp DEF HeardInv, TypeInv
        <4>3. tell \subseteq Users  BY <4>2 DEF AlertJob, Job
        <4>4. heard[r].always \subseteq tell /\ tell \subseteq heard[r].admin \cap heard[r].unmuted
              BY <2>1, <4>2 DEF HeardOK, Nobody
        <4> QED  BY <2>3, <4>1, <4>3, <4>4
      <3>5. \A a \in DOMAIN alerts' : a = n \/ a \in 1..Len(alerts)
            BY <2>2, <2>3
      <3> QED  BY <3>3, <3>4, <3>5 DEF ListenersAreTold
    <2> QED  BY <1>0, <2>3, <2>5, <2>7, <2>8 DEF ToldInv
  <1> QED  BY <1>1, <1>2, <1>3, <1>4, <1>5, <1>6, <1>7, <1>8, <1>9, <1>10 DEF Next, Handle

\* ListenersAreTold: whoever administered the workspace, alerts not muted, all
\* the while a critical alert was being created is told of it, and nobody is who
\* never administered it then or had alerts muted all the while.
THEOREM ListenersAlwaysTold == Spec => []ListenersAreTold
  <1> DEFINE I == TypeInv /\ HeardInv /\ ToldInv
  <1>1. Init => I
    <2> SUFFICES ASSUME Init PROVE I
        OBVIOUS
    <2>1. HeardInv  BY IdleIsNoJob DEF Init, HeardInv, HeardOK
    <2>2. Nobody \in Hearings  BY DEF Nobody, Hearings
    <2>3. /\ heard \in [Requests -> Hearings]
          /\ due \in Seq(Hearings) /\ Len(due) = Len(alerts)
          BY <2>2 DEF Init
    <2>4. \A u \in Users : Inbox(u) = {}  BY DEF Init, Inbox
    <2>5. ListenersAreTold
      <3>1. \A a : {u \in Users : a \in inbox[u].unread \cup inbox[u].read} = {}
            BY <2>4 DEF Inbox
      <3>2. DOMAIN alerts = {1} /\ due[1].always = {}  BY DEF Init, Nobody
      <3> QED  BY <3>1, <3>2 DEF ListenersAreTold
    <2>6. ToldInv  BY <2>3, <2>4, <2>5, IdleIsNoJob DEF Init, ToldInv
    <2> QED  BY <2>1, <2>6, InitTyped
  <1>2. I /\ [Next]_vars => I'
        BY StepTyped, StepHeard, StepTold
  <1>3. I => ListenersAreTold  BY DEF ToldInv
  <1> QED  BY <1>1, <1>2, <1>3, PTL DEF Spec

=============================================================================
