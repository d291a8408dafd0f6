-------------------------- MODULE IngestionProofs --------------------------
(***************************************************************************)
(* Theorems about the live loops: about Ingestion, for any number of       *)
(* processes, loops, keys, objects, operators and stops; and about         *)
(* SourceClient, for any number of attempts and any spacing.               *)
(***************************************************************************)
EXTENDS Ingestion, SourceClient, SequenceTheorems, TLAPS

\* Going back to sleep keeps the task variables in their types.
LEMMA ParkType ==
    ASSUME TypeOK, NEW l \in Loops, NEW where \in PCs, Park(l, where)
    PROVE  /\ pc' \in [Loops -> PCs]
           /\ batch' \in [Loops -> Seq(Record)]
           /\ wanted' \in [Loops -> SUBSET Objects]
           /\ known' \in [Loops -> SUBSET Objects]
           /\ target' \in [Loops -> Nat]
  BY DEF TypeOK, Park, PCs

\* So does going on to the next record.
LEMMA NextRecordType ==
    ASSUME TypeOK, NEW l \in Loops, batch[l] # <<>>, NextRecord(l)
    PROVE  /\ pc' \in [Loops -> PCs]
           /\ batch' \in [Loops -> Seq(Record)]
           /\ wanted' \in [Loops -> SUBSET Objects]
           /\ known' \in [Loops -> SUBSET Objects]
           /\ target' \in [Loops -> Nat]
<1>1. CASE Len(batch[l]) = 1
  BY <1>1, ParkType DEF NextRecord, PCs
<1>2. CASE Len(batch[l]) # 1
  <2>1. Tail(batch[l]) \in Seq(Record)
    BY DEF TypeOK
  <2>2. batch' \in [Loops -> Seq(Record)]
    BY <1>2, <2>1 DEF NextRecord, TypeOK
  <2>3. pc' \in [Loops -> PCs]
    BY <1>2 DEF NextRecord, TypeOK, PCs
  <2>4. target' \in [Loops -> Nat]
    <3>1. target \in [Loops -> Nat]
      BY DEF TypeOK
    <3> QED BY <1>2, <3>1 DEF NextRecord
  <2> QED BY <1>2, <2>2, <2>3, <2>4 DEF NextRecord, TypeOK
<1> QED BY <1>1, <1>2

\* What the typed steps of a poll rely on besides the types.
Shape == TypeOK /\ PollHoldsRecords /\ InsertsRaise /\ LinksResolve

\* The head of a non-empty batch is a record.
LEMMA HeadIsRecord ==
    ASSUME TypeOK, NEW l \in Loops, batch[l] # <<>>
    PROVE  /\ Head(batch[l]) \in Record
           /\ Len(batch[l]) \in Nat \ {0}
           /\ Tail(batch[l]) \in Seq(Record)
  BY DEF TypeOK

\* The objects a batch involves are catalogable.
LEMMA InvolvedType ==
    ASSUME NEW b \in Seq(Record)
    PROVE  Involved(b) \subseteq Objects
<1>1. ASSUME NEW i \in DOMAIN b PROVE Pair[b[i].key] \subseteq Objects
  <2>1. b[i] \in Record
    BY <1>1
  <2> QED BY <2>1, ConstantsAssumption DEF Record
<1> QED BY <1>1 DEF Involved

\* An alert row keeps its type when its link changes.
LEMMA RelinkType ==
    ASSUME NEW rows \in Seq(AlertRow), NEW a \in DOMAIN rows,
           NEW i \in Nat \cup {None}
    PROVE  /\ [rows EXCEPT ![a].incident = i] \in Seq(AlertRow)
           /\ [rows[a] EXCEPT !.incident = i] \in AlertRow
<1>1. rows[a] \in AlertRow
  OBVIOUS
<1>2. [rows[a] EXCEPT !.incident = i] \in AlertRow
  BY <1>1 DEF AlertRow
<1> QED BY <1>2

LEMMA TypeStep == Shape /\ [Next]_vars => TypeOK'
<1> SUFFICES ASSUME Shape, [Next]_vars PROVE TypeOK'
  OBVIOUS
<1> USE DEF Shape, tables, tasks
<1>1. ASSUME NEW l \in Loops, FetchRecords(l) PROVE TypeOK'
  <2>1. PICK b \in Feed[l] :
         /\ batch' = [batch EXCEPT ![l] = b]
         /\ IF Kind[l] = "conjunctions"
              THEN /\ pc' = [pc EXCEPT ![l] = "lookup"]
                   /\ wanted' = [wanted EXCEPT ![l] = Involved(b)]
              ELSE pc' = [pc EXCEPT ![l] = "submit"] /\ UNCHANGED wanted
    BY <1>1 DEF FetchRecords
  <2>2. b \in Seq(Record)
    BY ConstantsAssumption
  <2>3. wanted' \in [Loops -> SUBSET Objects]
    BY <2>1, <2>2, InvolvedType DEF TypeOK
  <2>4. batch' \in [Loops -> Seq(Record)] /\ pc' \in [Loops -> PCs]
    BY <2>1, <2>2 DEF TypeOK, PCs
  <2> QED BY <1>1, <2>3, <2>4 DEF FetchRecords, TypeOK
<1>2. ASSUME NEW l \in Loops, FetchCatalog(l) PROVE TypeOK'
  BY <1>2, ConstantsAssumption DEF FetchCatalog, TypeOK, PCs
<1>3. ASSUME NEW l \in Loops, ReadCatalog(l) PROVE TypeOK'
  BY <1>3 DEF ReadCatalog, TypeOK, PCs
<1>4. ASSUME NEW l \in Loops, UpsertCommit(l) PROVE TypeOK'
  BY <1>4, ParkType DEF UpsertCommit, TypeOK, PCs
<1>5. ASSUME NEW l \in Loops, SkipRecord(l) PROVE TypeOK'
  BY <1>5, NextRecordType DEF SkipRecord, TypeOK, PCs, PollHoldsRecords
<1>6. ASSUME NEW l \in Loops, SubmitSelect(l) PROVE TypeOK'
  BY <1>6, NextRecordType DEF SubmitSelect, Goto, TypeOK, PCs, PollHoldsRecords
<1>7. ASSUME NEW l \in Loops, SubmitCommit(l) PROVE TypeOK'
  <2>1. Head(batch[l]) \in Record
    BY <1>7, HeadIsRecord DEF SubmitCommit, PollHoldsRecords
  <2>2. CASE HasAlert(Head(batch[l]).key)
    BY <1>7, <2>2, ParkType DEF SubmitCommit, TypeOK, PCs
  <2>3. CASE ~HasAlert(Head(batch[l]).key)
    <3>1. [key |-> Head(batch[l]).key, severity |-> Head(batch[l]).severity,
           incident |-> None] \in AlertRow
      BY <1>7, <2>1 DEF SubmitCommit, InsertsRaise, Record, AlertRow
    <3>2. alerts' \in Seq(AlertRow)
      <4>1. alerts \in Seq(AlertRow)
        BY DEF TypeOK
      <4> QED BY <1>7, <2>3, <3>1, <4>1 DEF SubmitCommit
    <3>3. CASE Escalates(l)
      BY <1>7, <2>3, <3>2, <3>3 DEF SubmitCommit, Goto, TypeOK, PCs
    <3>4. CASE ~Escalates(l)
      BY <1>7, <2>3, <3>2, <3>4, NextRecordType
         DEF SubmitCommit, TypeOK, PollHoldsRecords
    <3> QED BY <3>3, <3>4
  <2> QED BY <2>2, <2>3
<1>8. ASSUME NEW l \in Loops, EscalateSelect(l) PROVE TypeOK'
  <2>1. PICK a \in DOMAIN alerts :
         IF alerts[a].incident # None
           THEN NextRecord(l)
           ELSE /\ target' = [target EXCEPT ![l] = a]
                /\ pc' = [pc EXCEPT ![l] = "link"]
                /\ UNCHANGED <<batch, wanted, known>>
    BY <1>8 DEF EscalateSelect
  <2>2. CASE alerts[a].incident # None
    BY <1>8, <2>1, <2>2, NextRecordType
       DEF EscalateSelect, TypeOK, PollHoldsRecords
  <2>3. CASE alerts[a].incident = None
    <3>1. target' \in [Loops -> Nat]
      <4>1. target \in [Loops -> Nat] /\ a \in Nat
        BY DEF TypeOK
      <4> QED BY <2>1, <2>3, <4>1
    <3>2. pc' \in [Loops -> PCs]
      BY <2>1, <2>3 DEF TypeOK, PCs
    <3> QED BY <1>8, <2>1, <2>3, <3>1, <3>2 DEF EscalateSelect, TypeOK
  <2> QED BY <2>2, <2>3
<1>9. ASSUME NEW l \in Loops, EscalateCommit(l) PROVE TypeOK'
  <2>1. Len(incidents) + 1 \in Nat
    BY DEF TypeOK
  <2>2. alerts' \in Seq(AlertRow)
    BY <1>9, <2>1, RelinkType DEF EscalateCommit, TypeOK, LinksResolve
  <2>3. [auto |-> TRUE, alert |-> target[l]] \in IncidentRow
    BY DEF TypeOK, IncidentRow
  <2>4. incidents' \in Seq(IncidentRow)
    BY <1>9, <2>3 DEF EscalateCommit, TypeOK
  <2> QED BY <1>9, <2>2, <2>4, NextRecordType
          DEF EscalateCommit, TypeOK, PollHoldsRecords
<1>10. ASSUME NEW l \in Loops, Fail(l) PROVE TypeOK'
  BY <1>10, ParkType DEF Fail, TypeOK, PCs
<1>11. ASSUME NEW h \in Hosts, Stop(h) PROVE TypeOK'
  BY <1>11, ConstantsAssumption DEF Stop, TypeOK, PCs
<1>12. ASSUME NEW h \in Hosts, Start(h) PROVE TypeOK'
  BY <1>12 DEF Start, TypeOK, PCs
<1>13. ASSUME NEW o \in Operators, PatchRead(o) PROVE TypeOK'
  <2>1. PICK a \in DOMAIN alerts, i \in DOMAIN incidents \cup {None} :
          edit' = [edit EXCEPT ![o] = [alert |-> a,
                     seen |-> alerts[a].incident, link |-> i]]
    BY <1>13 DEF PatchRead
  <2>2. alerts[a] \in AlertRow /\ a \in Nat /\ i \in Nat \cup {None}
    BY DEF TypeOK
  <2>3. [alert |-> a, seen |-> alerts[a].incident, link |-> i] \in Edit
    BY <2>2 DEF Edit, AlertRow
  <2> QED BY <1>13, <2>1, <2>3 DEF PatchRead, TypeOK
<1>14. ASSUME NEW o \in Operators, PatchCommit(o) PROVE TypeOK'
  <2>1. edit[o] \in Edit /\ NoEdit \in Edit
    BY <1>14 DEF TypeOK, NoEdit, Edit
  <2>2. alerts' \in Seq(AlertRow)
    BY <1>14, <2>1, RelinkType DEF PatchCommit, TypeOK, LinksResolve, Edit
  <2> QED BY <1>14, <2>1, <2>2 DEF PatchCommit, TypeOK
<1>15. ASSUME OpenIncident PROVE TypeOK'
  <2>1. PICK A \in SUBSET DOMAIN alerts :
         alerts' = [a \in DOMAIN alerts |->
                      IF a \in A
                        THEN [alerts[a] EXCEPT !.incident = Len(incidents) + 1]
                        ELSE alerts[a]]
    BY <1>15 DEF OpenIncident
  <2>2. Len(incidents) + 1 \in Nat
    BY DEF TypeOK
  <2>3. \A a \in DOMAIN alerts :
          alerts[a] \in AlertRow /\
          [alerts[a] EXCEPT !.incident = Len(incidents) + 1] \in AlertRow
    <3>1. alerts \in Seq(AlertRow) /\ Len(incidents) + 1 \in Nat \cup {None}
      BY <2>2 DEF TypeOK
    <3>2. ASSUME NEW a \in DOMAIN alerts
          PROVE  /\ alerts[a] \in AlertRow
                 /\ [alerts[a] EXCEPT !.incident = Len(incidents) + 1] \in AlertRow
      <4>1. alerts[a] \in AlertRow
        BY <3>1
      <4> QED BY <2>2, <4>1 DEF AlertRow
    <3> QED BY <3>2
  <2>4. alerts' \in Seq(AlertRow)
    <3>1. Len(alerts) \in Nat /\ DOMAIN alerts = 1..Len(alerts)
      BY DEF TypeOK
    <3>2. alerts' \in [1..Len(alerts) -> AlertRow]
      BY <2>1, <2>3, <3>1
    <3> QED BY <3>1, <3>2
  <2>5. incidents' \in Seq(IncidentRow)
    BY <1>15 DEF OpenIncident, TypeOK, IncidentRow
  <2> QED BY <1>15, <2>4, <2>5 DEF OpenIncident, TypeOK
<1>16. CASE UNCHANGED vars
  BY <1>16 DEF vars, TypeOK
<1> QED
  BY <1>1, <1>2, <1>3, <1>4, <1>5, <1>6, <1>7, <1>8, <1>9, <1>10, <1>11,
     <1>12, <1>13, <1>14, <1>15, <1>16 DEF Next, Poll
-----------------------------------------------------------------------------
\* Loop m is not touched by the step.
Same(m) ==
    /\ pc'[m] = pc[m] /\ batch'[m] = batch[m]
    /\ known'[m] = known[m] /\ target'[m] = target[m]

\* What going on to the next record, or back to sleep, does to the loops.
Moves(l) ==
    /\ \A m \in Loops : m # l => Same(m)
    /\ pc'[l] \in {"asleep", "submit", "stopped"}
    /\ pc'[l] = "submit" => batch'[l] # <<>>
    /\ known'[l] \subseteq known[l]

LEMMA ParkMoves ==
    ASSUME TypeOK, NEW l \in Loops, NEW where \in {"asleep", "stopped"},
           Park(l, where)
    PROVE  Moves(l)
  BY DEF TypeOK, Park, Moves, Same

LEMMA NextRecordMoves ==
    ASSUME TypeOK, NEW l \in Loops, batch[l] # <<>>, NextRecord(l)
    PROVE  Moves(l)
<1>1. CASE Len(batch[l]) = 1
  BY <1>1, ParkMoves DEF NextRecord
<1>2. CASE Len(batch[l]) # 1
  <2>1. batch[l] \in Seq(Record)
    BY DEF TypeOK
  <2>2. Tail(batch[l]) # <<>>
    <3>1. Len(batch[l]) # 0 /\ Len(batch[l]) \in Nat
      BY HeadIsRecord
    <3>2. Len(Tail(batch[l])) = Len(batch[l]) - 1
      BY <2>1, HeadTailProperties
    <3>3. Len(Tail(batch[l])) # 0
      BY <1>2, <3>1, <3>2
    <3>4. Len(<<>>) = 0
      OBVIOUS
    <3> QED BY <3>3, <3>4
  <2>3. batch'[l] = Tail(batch[l]) /\ pc'[l] = "submit" /\ known' = known
    BY <1>2 DEF NextRecord, TypeOK
  <2>4. \A m \in Loops : m # l => Same(m)
    BY <1>2 DEF NextRecord, TypeOK, Same
  <2> QED BY <2>2, <2>3, <2>4 DEF Moves
<1> QED BY <1>1, <1>2

\* The conjuncts about one loop survive a step that moves only that loop on.
LEMMA MovesKeepTasks ==
    ASSUME PollHoldsRecords, InsertsRaise, NEW l \in Loops, Moves(l),
           tracked \subseteq tracked'
    PROVE  PollHoldsRecords' /\ InsertsRaise'
  BY DEF PollHoldsRecords, InsertsRaise, Moves, Same

\* A step that leaves alerts and incidents alone and takes no loop into an
\* escalation keeps everything said about the tables.
Settled ==
    /\ UNCHANGED <<alerts, incidents, edit>>
    /\ tracked \subseteq tracked'
    /\ \A m \in Loops : Same(m) \/ pc'[m] \notin {"escalate", "link"}

LEMMA SettledStep ==
    ASSUME IInv, Settled
    PROVE  /\ LinksResolve' /\ UniqueDedupeKey' /\ EscalationOwned'
           /\ AutoIncidentJustified' /\ OneAutoIncidentPerAlert'
<1> USE DEF Settled
<1>1. LinksResolve'
  BY DEF IInv, LinksResolve, Same
<1>2. UniqueDedupeKey' /\ OneAutoIncidentPerAlert'
  BY DEF IInv, UniqueDedupeKey, OneAutoIncidentPerAlert
<1>3. AutoIncidentJustified'
  BY DEF IInv, AutoIncidentJustified
<1>4. EscalationOwned'
  <2>1. ASSUME NEW m \in Loops, Escalating(m)'
        PROVE  Same(m) /\ Escalating(m)
    BY <2>1 DEF Escalating, Same
  <2>2. ASSUME NEW m \in Loops, Escalating(m)'
        PROVE  /\ Escalates(m)' /\ HasAlert(Head(batch[m]).key)'
               /\ Head(batch[m])' = Head(batch[m])
    BY <2>1, <2>2 DEF IInv, EscalationOwned, Escalates, InvolvesTracked,
       HasAlert, Same
  <2> QED BY <2>1, <2>2 DEF IInv, EscalationOwned
<1> QED BY <1>1, <1>2, <1>3, <1>4

\* A step that keeps every alert's key and severity, and opens no automatic
\* incident, keeps everything said about the tables except the links.
Relinks ==
    /\ DOMAIN alerts' = DOMAIN alerts
    /\ \A a \in DOMAIN alerts : /\ alerts'[a].key = alerts[a].key
                                 /\ alerts'[a].severity = alerts[a].severity
    /\ DOMAIN incidents \subseteq DOMAIN incidents'
    /\ \A i \in DOMAIN incidents : incidents'[i] = incidents[i]
    /\ \A i \in DOMAIN incidents' \ DOMAIN incidents : ~incidents'[i].auto
    /\ UNCHANGED <<tracked, tasks>>

LEMMA RelinksStep ==
    ASSUME IInv, Relinks
    PROVE  /\ PollHoldsRecords' /\ InsertsRaise'
           /\ UniqueDedupeKey' /\ EscalationOwned'
           /\ AutoIncidentJustified' /\ OneAutoIncidentPerAlert'
<1> USE DEF Relinks, tasks
<1>1. PollHoldsRecords' /\ InsertsRaise'
  BY DEF IInv, PollHoldsRecords, InsertsRaise
<1>2. UniqueDedupeKey'
  BY DEF IInv, UniqueDedupeKey
<1>3. OneAutoIncidentPerAlert'
  BY DEF IInv, OneAutoIncidentPerAlert
<1>4. AutoIncidentJustified'
  BY DEF IInv, AutoIncidentJustified
<1>5. EscalationOwned'
  BY DEF IInv, EscalationOwned, Escalating, Escalates, InvolvesTracked, HasAlert
<1> QED BY <1>1, <1>2, <1>3, <1>4, <1>5
-----------------------------------------------------------------------------
LEMMA InvStep == IInv /\ [Next]_vars => IInv'
<1> SUFFICES ASSUME IInv, [Next]_vars PROVE IInv'
  OBVIOUS
<1> USE DEF tables
<1>0. TypeOK /\ TypeOK'
  BY TypeStep DEF IInv, Shape
<1>a. ASSUME PollHoldsRecords', InsertsRaise', Settled PROVE IInv'
  BY <1>0, <1>a, SettledStep DEF IInv
<1>b. ASSUME NEW l \in Loops, Moves(l), UNCHANGED <<alerts, incidents, edit>>,
             tracked \subseteq tracked'
      PROVE  IInv'
  <2>1. Settled
    BY <1>b DEF Settled, Moves
  <2> QED BY <1>a, <1>b, <2>1, MovesKeepTasks DEF IInv
<1>c. ASSUME NEW l \in Loops,
             pc[l] \in {"submit", "insert", "escalate", "link"}
      PROVE  batch[l] # <<>> /\ Head(batch[l]) \in Record
  BY <1>0, <1>c, HeadIsRecord DEF IInv, PollHoldsRecords
<1>1. ASSUME NEW l \in Loops, FetchRecords(l) PROVE IInv'
  <2>1. /\ \A m \in Loops : m # l => Same(m)
        /\ pc'[l] \in {"lookup", "submit"} /\ batch'[l] # <<>>
        /\ known' = known /\ tracked' = tracked
    BY <1>0, <1>1 DEF FetchRecords, TypeOK, Same
  <2>2. PollHoldsRecords' /\ InsertsRaise'
    BY <2>1 DEF IInv, PollHoldsRecords, InsertsRaise, Same
  <2>3. Settled
    BY <1>1, <2>1 DEF FetchRecords, Settled
  <2> QED BY <1>a, <2>2, <2>3
<1>2. ASSUME NEW l \in Loops, FetchCatalog(l) PROVE IInv'
  <2>1. /\ \A m \in Loops : m # l => Same(m)
        /\ pc'[l] = "lookup" /\ Kind[l] = "catalog"
        /\ known' = known /\ tracked' = tracked
    BY <1>0, <1>2 DEF FetchCatalog, TypeOK, Same
  <2>2. PollHoldsRecords' /\ InsertsRaise'
    BY <2>1 DEF IInv, PollHoldsRecords, InsertsRaise, Same
  <2>3. Settled
    BY <1>2, <2>1 DEF FetchCatalog, Settled
  <2> QED BY <1>a, <2>2, <2>3
<1>3. ASSUME NEW l \in Loops, ReadCatalog(l) PROVE IInv'
  <2>1. /\ \A m \in Loops : m # l => Same(m)
        /\ pc'[l] = IF Kind[l] = "catalog" THEN "upsert" ELSE "submit"
        /\ batch'[l] = batch[l] /\ pc[l] = "lookup"
        /\ known'[l] \subseteq tracked /\ tracked' = tracked
    BY <1>0, <1>3 DEF ReadCatalog, TypeOK, Same
  <2>2. PollHoldsRecords' /\ InsertsRaise'
    BY <2>1 DEF IInv, PollHoldsRecords, InsertsRaise, Same
  <2>3. Settled
    BY <1>3, <2>1 DEF ReadCatalog, Settled
  <2> QED BY <1>a, <2>2, <2>3
<1>4. ASSUME NEW l \in Loops, UpsertCommit(l) PROVE IInv'
  BY <1>0, <1>4, <1>b, ParkMoves DEF UpsertCommit
<1>5. ASSUME NEW l \in Loops, SkipRecord(l) PROVE IInv'
  BY <1>0, <1>5, <1>b, <1>c, NextRecordMoves DEF SkipRecord
<1>6. ASSUME NEW l \in Loops, SubmitSelect(l) PROVE IInv'
  <2>1. CASE HasAlert(Head(batch[l]).key)
    BY <1>0, <1>6, <2>1, <1>b, <1>c, NextRecordMoves DEF SubmitSelect
  <2>2. CASE ~HasAlert(Head(batch[l]).key)
    <3>1. /\ \A m \in Loops : m # l => Same(m)
          /\ pc[l] = "submit" /\ pc'[l] = "insert" /\ batch' = batch
          /\ known' = known /\ tracked' = tracked
          /\ Head(batch[l]).severity # None
      BY <1>0, <1>6, <2>2 DEF SubmitSelect, Goto, TypeOK, Same
    <3>2. PollHoldsRecords' /\ InsertsRaise'
      BY <3>1 DEF IInv, PollHoldsRecords, InsertsRaise, Same
    <3>3. Settled
      BY <1>6, <3>1 DEF SubmitSelect, Settled
    <3> QED BY <1>a, <3>2, <3>3
  <2> QED BY <2>1, <2>2
<1>7. ASSUME NEW l \in Loops, SubmitCommit(l) PROVE IInv'
  <2>1. CASE HasAlert(Head(batch[l]).key)
    BY <1>0, <1>7, <2>1, <1>b, ParkMoves DEF SubmitCommit
  <2>2. CASE ~HasAlert(Head(batch[l]).key)
    <3> DEFINE r == Head(batch[l])
               n == Len(alerts) + 1
    <3>1. /\ DOMAIN alerts' = DOMAIN alerts \cup {n} /\ n \notin DOMAIN alerts
          /\ \A a \in DOMAIN alerts : alerts'[a] = alerts[a]
          /\ alerts'[n].key = r.key /\ alerts'[n].severity = r.severity
          /\ alerts'[n].incident = None
      <4>1. alerts \in Seq(AlertRow)
        BY <1>0 DEF TypeOK
      <4> QED BY <1>7, <2>2, <4>1, AppendProperties DEF SubmitCommit
    <3>2. /\ incidents' = incidents /\ edit' = edit /\ tracked' = tracked
          /\ \A m \in Loops : m # l => Same(m)
          /\ \/ Escalates(l) /\ pc'[l] = "escalate"
                 /\ batch'[l] = batch[l] /\ known'[l] = known[l]
             \/ Moves(l)
      <4>1. CASE Escalates(l)
        BY <1>0, <1>7, <2>2, <4>1 DEF SubmitCommit, Goto, TypeOK, Same
      <4>2. CASE ~Escalates(l)
        BY <1>0, <1>7, <2>2, <4>2, <1>c, NextRecordMoves DEF SubmitCommit, Moves
      <4> QED BY <4>1, <4>2
    <3>3. PollHoldsRecords' /\ InsertsRaise'
      BY <3>2, <1>7, <1>c
         DEF IInv, PollHoldsRecords, InsertsRaise, Same, Moves, SubmitCommit
    <3>4. UniqueDedupeKey'
      BY <2>2, <3>1 DEF IInv, UniqueDedupeKey, HasAlert
    <3>5. LinksResolve'
      BY <3>1, <3>2 DEF IInv, LinksResolve, Same, Moves
    <3>6. AutoIncidentJustified' /\ OneAutoIncidentPerAlert'
      BY <3>1, <3>2 DEF IInv, AutoIncidentJustified, OneAutoIncidentPerAlert
    <3>7. EscalationOwned'
      <4>1. ASSUME NEW m \in Loops, m # l, Escalating(m)'
            PROVE  /\ Escalating(m) /\ Escalates(m)'
                   /\ batch'[m] = batch[m] /\ Head(batch[m]).key # r.key
                   /\ HasAlert(Head(batch[m]).key)'
        BY <2>2, <3>1, <3>2, <4>1 DEF IInv, EscalationOwned, Escalating,
           Escalates, InvolvesTracked, HasAlert, Same
      <4>2. ASSUME NEW m \in Loops, m # l, Escalating(m)'
            PROVE  \A a \in DOMAIN alerts' :
                     alerts'[a].key = Head(batch[m]).key =>
                       /\ alerts'[a].severity = "CRITICAL"
                       /\ \A i \in DOMAIN incidents' :
                             incidents'[i].auto => incidents'[i].alert # a
        BY <3>1, <3>2, <4>1, <4>2 DEF IInv, EscalationOwned
      <4>3. ASSUME Escalating(l)'
            PROVE  /\ Escalates(l)' /\ HasAlert(r.key)' /\ batch'[l] = batch[l]
                   /\ \A a \in DOMAIN alerts' : alerts'[a].key = r.key =>
                       /\ alerts'[a].severity = "CRITICAL"
                       /\ \A i \in DOMAIN incidents' :
                             incidents'[i].auto => incidents'[i].alert # a
        <5>1. /\ Escalates(l) /\ batch'[l] = batch[l] /\ known'[l] = known[l]
          BY <3>2, <4>3 DEF Moves, Escalating
        <5>2. Escalates(l)' /\ r.severity = "CRITICAL"
          BY <5>1 DEF Escalates, InvolvesTracked
        <5>3. \A a \in DOMAIN alerts' : alerts'[a].key = r.key => a = n
          BY <2>2, <3>1 DEF HasAlert
        <5>4. \A i \in DOMAIN incidents' :
                incidents'[i].auto => incidents'[i].alert # n
          BY <3>1, <3>2 DEF IInv, AutoIncidentJustified
        <5> QED BY <3>1, <5>1, <5>2, <5>3, <5>4 DEF HasAlert
      <4>4. ASSUME NEW m \in Loops, NEW k \in Loops, m # k,
                   Escalating(m)', Escalating(k)'
            PROVE  Head(batch'[m]).key # Head(batch'[k]).key
        BY <4>1, <4>3, <4>4 DEF IInv, EscalationOwned
      <4> QED BY <4>1, <4>2, <4>3, <4>4 DEF EscalationOwned
    <3> QED BY <1>0, <3>3, <3>4, <3>5, <3>6, <3>7 DEF IInv
  <2> QED BY <2>1, <2>2
<1>8. ASSUME NEW l \in Loops, EscalateSelect(l) PROVE IInv'
  <2>1. PICK a \in DOMAIN alerts :
         /\ alerts[a].key = Head(batch[l]).key
         /\ IF alerts[a].incident # None
              THEN NextRecord(l)
              ELSE /\ target' = [target EXCEPT ![l] = a]
                   /\ pc' = [pc EXCEPT ![l] = "link"]
                   /\ UNCHANGED <<batch, wanted, known>>
    BY <1>8 DEF EscalateSelect
  <2>2. CASE alerts[a].incident # None
    BY <1>0, <1>8, <2>1, <2>2, <1>b, <1>c, NextRecordMoves DEF EscalateSelect
  <2>3. CASE alerts[a].incident = None
    <3>1. /\ UNCHANGED <<alerts, incidents, tracked, edit, batch, known>>
          /\ pc[l] = "escalate" /\ pc'[l] = "link" /\ target'[l] = a
          /\ \A m \in Loops : m # l => Same(m)
      BY <1>0, <1>8, <2>1, <2>3 DEF EscalateSelect, TypeOK, Same
    <3>2. PollHoldsRecords' /\ InsertsRaise'
      BY <3>1 DEF IInv, PollHoldsRecords, InsertsRaise, Same
    <3>3. LinksResolve'
      BY <2>1, <3>1 DEF IInv, LinksResolve, Same
    <3>4. UniqueDedupeKey' /\ AutoIncidentJustified' /\ OneAutoIncidentPerAlert'
      BY <3>1 DEF IInv, UniqueDedupeKey, AutoIncidentJustified,
         OneAutoIncidentPerAlert
    <3>5. EscalationOwned'
      <4>1. \A m \in Loops : Escalating(m)' => Escalating(m)
        BY <3>1 DEF Escalating, Same
      <4> QED BY <3>1, <4>1 DEF IInv, EscalationOwned, Escalates,
              InvolvesTracked, HasAlert
    <3> QED BY <1>0, <3>2, <3>3, <3>4, <3>5 DEF IInv
  <2> QED BY <2>2, <2>3
<1>9. ASSUME NEW l \in Loops, EscalateCommit(l) PROVE IInv'
  <2> DEFINE t == target[l]
             n == Len(incidents) + 1
  <2>1. /\ t \in DOMAIN alerts /\ alerts[t].key = Head(batch[l]).key
        /\ Escalating(l)
    BY <1>9 DEF EscalateCommit, IInv, LinksResolve, Escalating
  <2>2. /\ Escalates(l) /\ alerts[t].severity = "CRITICAL"
        /\ \A i \in DOMAIN incidents : incidents[i].auto => incidents[i].alert # t
        /\ Pair[alerts[t].key] \cap tracked # {}
    <3>1. known[l] \subseteq tracked
      BY DEF IInv, PollHoldsRecords
    <3> QED BY <2>1, <3>1 DEF IInv, EscalationOwned, Escalates, InvolvesTracked
  <2>3. /\ DOMAIN incidents' = DOMAIN incidents \cup {n}
        /\ n \notin DOMAIN incidents
        /\ \A i \in DOMAIN incidents : incidents'[i] = incidents[i]
        /\ incidents'[n] = [auto |-> TRUE, alert |-> t]
    <3>1. incidents \in Seq(IncidentRow)
      BY <1>0 DEF TypeOK
    <3> QED BY <1>9, <3>1, AppendProperties DEF EscalateCommit
  <2>4. /\ DOMAIN alerts' = DOMAIN alerts
        /\ \A a \in DOMAIN alerts : /\ alerts'[a].key = alerts[a].key
                                     /\ alerts'[a].severity = alerts[a].severity
        /\ \A a \in DOMAIN alerts : a # t => alerts'[a] = alerts[a]
        /\ alerts'[t].incident = n
    <3>1. alerts \in Seq(AlertRow) /\ alerts[t] \in AlertRow
      BY <1>0, <2>1 DEF TypeOK
    <3> QED BY <1>9, <2>1, <3>1 DEF EscalateCommit, AlertRow
  <2>5. Moves(l) /\ edit' = edit /\ tracked' = tracked
    BY <1>0, <1>9, <1>c, NextRecordMoves DEF EscalateCommit
  <2>6. PollHoldsRecords' /\ InsertsRaise'
    BY <2>5, MovesKeepTasks DEF IInv
  <2>7. UniqueDedupeKey'
    BY <2>4 DEF IInv, UniqueDedupeKey
  <2>8. LinksResolve'
    BY <2>3, <2>4, <2>5 DEF IInv, LinksResolve, Moves, Same
  <2>9. AutoIncidentJustified'
    BY <2>1, <2>2, <2>3, <2>4, <2>5 DEF IInv, AutoIncidentJustified
  <2>10. OneAutoIncidentPerAlert'
    BY <2>2, <2>3 DEF IInv, OneAutoIncidentPerAlert
  <2>11. EscalationOwned'
    <3>1. ASSUME NEW m \in Loops, Escalating(m)'
          PROVE  m # l /\ Same(m) /\ Escalating(m)
      BY <2>5, <3>1 DEF Moves, Escalating, Same
    <3>2. ASSUME NEW m \in Loops, Escalating(m)'
          PROVE  /\ Escalates(m)' /\ HasAlert(Head(batch[m]).key)'
                 /\ Head(batch[m]).key # Head(batch[l]).key
      BY <2>1, <2>4, <3>1, <3>2 DEF IInv, EscalationOwned, Escalates,
         InvolvesTracked, HasAlert, Same
    <3>3. ASSUME NEW m \in Loops, Escalating(m)'
          PROVE  \A a \in DOMAIN alerts' :
                   alerts'[a].key = Head(batch[m]).key =>
                     /\ alerts'[a].severity = "CRITICAL"
                     /\ \A i \in DOMAIN incidents' :
                           incidents'[i].auto => incidents'[i].alert # a
      BY <2>1, <2>3, <2>4, <3>1, <3>2, <3>3 DEF IInv, EscalationOwned
    <3> QED BY <3>1, <3>2, <3>3 DEF IInv, EscalationOwned, Same
  <2> QED BY <1>0, <2>6, <2>7, <2>8, <2>9, <2>10, <2>11 DEF IInv
<1>10. ASSUME NEW l \in Loops, Fail(l) PROVE IInv'
  BY <1>0, <1>10, <1>b, ParkMoves DEF Fail
<1>11. ASSUME NEW h \in Hosts, Stop(h) PROVE IInv'
  <2>1. \A m \in Loops : \/ Same(m)
                         \/ pc'[m] = "stopped" /\ known'[m] = {}
    BY <1>0, <1>11 DEF Stop, TypeOK, Same
  <2>2. PollHoldsRecords' /\ InsertsRaise'
    BY <1>11, <2>1 DEF Stop, IInv, PollHoldsRecords, InsertsRaise, Same
  <2>3. Settled
    BY <1>11, <2>1 DEF Stop, Settled
  <2> QED BY <1>a, <2>2, <2>3
<1>12. ASSUME NEW h \in Hosts, Start(h) PROVE IInv'
  <2>1. \A m \in Loops :
         Same(m) \/ (pc'[m] = "asleep" /\ known'[m] = known[m])
    BY <1>0, <1>12 DEF Start, TypeOK, Same
  <2>2. PollHoldsRecords' /\ InsertsRaise'
    BY <1>12, <2>1 DEF Start, IInv, PollHoldsRecords, InsertsRaise, Same
  <2>3. Settled
    BY <1>12, <2>1 DEF Start, Settled
  <2> QED BY <1>a, <2>2, <2>3
<1>13. ASSUME NEW o \in Operators, PatchRead(o) PROVE IInv'
  <2>1. PICK a \in DOMAIN alerts, i \in DOMAIN incidents \cup {None} :
          edit' = [edit EXCEPT ![o] = [alert |-> a,
                     seen |-> alerts[a].incident, link |-> i]]
    BY <1>13 DEF PatchRead
  <2>2. LinksResolve'
    BY <1>0, <1>13, <2>1 DEF PatchRead, IInv, LinksResolve, tasks, TypeOK
  <2>3. Relinks
    BY <1>13 DEF PatchRead, Relinks
  <2> QED BY <1>0, <2>2, <2>3, RelinksStep DEF IInv
<1>14. ASSUME NEW o \in Operators, PatchCommit(o) PROVE IInv'
  <2>1. edit[o].alert \in DOMAIN alerts
    BY <1>14 DEF PatchCommit, IInv, LinksResolve
  <2>2. \A a \in DOMAIN alerts : alerts[a] \in AlertRow
    BY <1>0 DEF TypeOK
  <2>3. Relinks
    BY <1>14, <2>1, <2>2 DEF PatchCommit, Relinks, AlertRow
  <2>4. LinksResolve'
    BY <1>14, <2>1, <2>2
       DEF PatchCommit, IInv, LinksResolve, tasks, AlertRow, NoEdit
  <2> QED BY <1>0, <2>3, <2>4, RelinksStep DEF IInv
<1>15. ASSUME OpenIncident PROVE IInv'
  <2>1. PICK A \in SUBSET DOMAIN alerts :
         alerts' = [a \in DOMAIN alerts |->
                      IF a \in A
                        THEN [alerts[a] EXCEPT !.incident = Len(incidents) + 1]
                        ELSE alerts[a]]
    BY <1>15 DEF OpenIncident
  <2>2. \A a \in DOMAIN alerts : alerts[a] \in AlertRow
    BY <1>0 DEF TypeOK
  <2>3. /\ DOMAIN incidents' = DOMAIN incidents \cup {Len(incidents) + 1}
        /\ \A i \in DOMAIN incidents : incidents'[i] = incidents[i]
        /\ Len(incidents) + 1 \notin DOMAIN incidents
        /\ ~incidents'[Len(incidents) + 1].auto
    <3>1. incidents \in Seq(IncidentRow)
      BY <1>0 DEF TypeOK
    <3> QED BY <1>15, <3>1, AppendProperties DEF OpenIncident
  <2>4. Relinks
    BY <1>15, <2>1, <2>2, <2>3 DEF OpenIncident, Relinks, AlertRow
  <2>5. LinksResolve'
    BY <1>15, <2>1, <2>2, <2>3
       DEF OpenIncident, IInv, LinksResolve, tasks, AlertRow
  <2> QED BY <1>0, <2>4, <2>5, RelinksStep DEF IInv
<1>16. CASE UNCHANGED vars
  BY <1>0, <1>16, SettledStep
     DEF vars, tasks, IInv, Settled, Same, PollHoldsRecords, InsertsRaise
<1> QED
  BY <1>1, <1>2, <1>3, <1>4, <1>5, <1>6, <1>10, <1>11,
     <1>12, <1>13, <1>14, <1>15, <1>16, <1>7, <1>8, <1>9 DEF Next, Poll

LEMMA InvInit == Init => IInv
<1> SUFFICES ASSUME Init PROVE IInv
  OBVIOUS
<1>1. DOMAIN alerts = {} /\ DOMAIN incidents = {}
  BY DEF Init
<1>2. TypeOK
  BY ConstantsAssumption DEF Init, TypeOK, PCs, NoEdit, Edit
<1>3. PollHoldsRecords /\ InsertsRaise /\ EscalationOwned
  BY DEF Init, PollHoldsRecords, InsertsRaise, EscalationOwned, Escalating
<1>4. LinksResolve
  BY <1>1 DEF Init, LinksResolve
<1>5. UniqueDedupeKey /\ AutoIncidentJustified /\ OneAutoIncidentPerAlert
  BY <1>1 DEF UniqueDedupeKey, AutoIncidentJustified, OneAutoIncidentPerAlert
<1> QED BY <1>2, <1>3, <1>4, <1>5 DEF IInv

\* The inductive invariant holds throughout: in particular a loop that is
\* about to open an incident is the only one that may, because it is the
\* one whose insert the unique index let through.
THEOREM Invariance == Spec => []IInv
  BY InvInit, InvStep, PTL DEF Spec

\* Every variable keeps its type.
THEOREM TypeCorrect == Spec => []TypeOK
<1>1. IInv => TypeOK
  BY DEF IInv
<1> QED BY <1>1, Invariance, PTL

\* One alert per dedupe key, however many processes poll.
THEOREM DedupeKeyUnique == Spec => []UniqueDedupeKey
<1>1. IInv => UniqueDedupeKey
  BY DEF IInv
<1> QED BY <1>1, Invariance, PTL

\* The system opens incidents only for alerts stored as CRITICAL that
\* involve a catalogued object.
THEOREM IncidentsJustified == Spec => []AutoIncidentJustified
<1>1. IInv => AutoIncidentJustified
  BY DEF IInv
<1> QED BY <1>1, Invariance, PTL

\* The system opens at most one incident per alert, although escalate reads
\* the link and writes it in separate steps without a lock.
THEOREM OneIncidentPerAlert == Spec => []OneAutoIncidentPerAlert
<1>1. IInv => OneAutoIncidentPerAlert
  BY DEF IInv
<1> QED BY <1>1, Invariance, PTL
-----------------------------------------------------------------------------
\* A step that keeps the rows' identities, keys and severities maps to a
\* stutter, or to a refresh if the catalog grew.
Invisible ==
    /\ DOMAIN alerts' = DOMAIN alerts
    /\ \A a \in DOMAIN alerts : /\ alerts'[a].key = alerts[a].key
                                 /\ alerts'[a].severity = alerts[a].severity
    /\ Automatic' = Automatic
    /\ \A i \in Automatic : incidents'[i].alert = incidents[i].alert
    /\ tracked \subseteq tracked'

LEMMA InvisibleStep ==
    ASSUME IInv, IInv', Invisible
    PROVE  [Promise!Next]_(Promise!vars)
<1>1. Raised' = Raised
  BY DEF Invisible, Raised
<1>2. \A i \in Automatic : incidents[i].alert \in DOMAIN alerts
  BY DEF IInv, AutoIncidentJustified, Automatic
<1>3. Opened' = Opened
  BY <1>2 DEF Invisible, Opened
<1>4. tracked' \in SUBSET Objects
  BY DEF IInv, TypeOK
<1> QED BY <1>1, <1>3, <1>4
        DEF Invisible, Promise!Next, Promise!Refresh, Promise!vars

LEMMA StepKeepsPromise ==
    IInv /\ IInv' /\ [Next]_vars => [Promise!Next]_(Promise!vars)
<1> SUFFICES ASSUME IInv, IInv', [Next]_vars
             PROVE  [Promise!Next]_(Promise!vars)
  OBVIOUS
<1> USE DEF tables, tasks
<1>0. TypeOK
  BY DEF IInv
<1>a. ASSUME UNCHANGED <<alerts, incidents>>, tracked \subseteq tracked'
      PROVE  [Promise!Next]_(Promise!vars)
  BY <1>a, InvisibleStep DEF Invisible, Automatic
<1>1. ASSUME NEW l \in Loops, Poll(l), ~SubmitCommit(l), ~EscalateCommit(l)
      PROVE  [Promise!Next]_(Promise!vars)
  BY <1>1, <1>a DEF Poll, FetchRecords, FetchCatalog, ReadCatalog,
     UpsertCommit, SkipRecord, SubmitSelect, EscalateSelect
<1>2. ASSUME NEW l \in Loops, SubmitCommit(l)
      PROVE  [Promise!Next]_(Promise!vars)
  <2> DEFINE r == Head(batch[l])
             n == Len(alerts) + 1
             row == [alert |-> n, key |-> r.key, severity |-> r.severity]
  <2>1. CASE HasAlert(r.key)
    BY <1>2, <1>a, <2>1 DEF SubmitCommit
  <2>2. CASE ~HasAlert(r.key)
    <3>1. /\ DOMAIN alerts' = DOMAIN alerts \cup {n} /\ n \notin DOMAIN alerts
          /\ \A a \in DOMAIN alerts : alerts'[a] = alerts[a]
          /\ alerts'[n].key = r.key /\ alerts'[n].severity = r.severity
          /\ incidents' = incidents /\ tracked' = tracked
      <4>1. alerts \in Seq(AlertRow)
        BY <1>0 DEF TypeOK
      <4> QED BY <1>2, <2>2, <4>1, AppendProperties DEF SubmitCommit
    <3>2. Raised' = Raised \cup {row}
      BY <3>1 DEF Raised
    <3>3. Opened' = Opened
      BY <3>1 DEF Opened, Automatic, IInv, AutoIncidentJustified
    <3>4. \A q \in Raised : q.key # row.key /\ q.alert # row.alert
      BY <2>2, <3>1 DEF Raised, HasAlert
    <3>5. row.key \in Keys /\ row.severity \in Severities
      <4>1. alerts'[n] \in AlertRow
        BY <3>1 DEF IInv, TypeOK
      <4> QED BY <3>1, <4>1 DEF AlertRow
    <3>6. Promise!Raise
      BY <3>1, <3>2, <3>3, <3>4, <3>5 DEF Promise!Raise
    <3> QED BY <3>6 DEF Promise!Next
  <2> QED BY <2>1, <2>2
<1>3. ASSUME NEW l \in Loops, EscalateCommit(l)
      PROVE  [Promise!Next]_(Promise!vars)
  <2> DEFINE t == target[l]
             n == Len(incidents) + 1
             row == [incident |-> n, key |-> alerts[t].key]
  <2>1. /\ t \in DOMAIN alerts /\ alerts[t].key = Head(batch[l]).key
        /\ Escalating(l)
    BY <1>3 DEF EscalateCommit, IInv, LinksResolve, Escalating
  <2>2. /\ alerts[t].severity = "CRITICAL"
        /\ \A i \in Automatic : incidents[i].alert # t
        /\ Pair[alerts[t].key] \cap tracked # {}
    <3>1. known[l] \subseteq tracked
      BY DEF IInv, PollHoldsRecords
    <3> QED BY <2>1, <3>1 DEF IInv, EscalationOwned, Escalates,
            InvolvesTracked, Automatic
  <2>3. /\ Automatic' = Automatic \cup {n} /\ n \notin DOMAIN incidents
        /\ \A i \in DOMAIN incidents : incidents'[i] = incidents[i]
        /\ incidents'[n].alert = t
    <3>1. incidents \in Seq(IncidentRow)
      BY <1>0 DEF TypeOK
    <3>2. /\ DOMAIN incidents' = DOMAIN incidents \cup {n}
          /\ n \notin DOMAIN incidents
          /\ \A i \in DOMAIN incidents : incidents'[i] = incidents[i]
          /\ incidents'[n] = [auto |-> TRUE, alert |-> t]
      BY <1>3, <3>1, AppendProperties DEF EscalateCommit
    <3> QED BY <3>2 DEF Automatic
  <2>4. /\ DOMAIN alerts' = DOMAIN alerts /\ tracked' = tracked
        /\ \A a \in DOMAIN alerts : /\ alerts'[a].key = alerts[a].key
                                     /\ alerts'[a].severity = alerts[a].severity
    <3>1. alerts \in Seq(AlertRow) /\ alerts[t] \in AlertRow
      BY <1>0, <2>1 DEF TypeOK
    <3> QED BY <1>3, <2>1, <3>1 DEF EscalateCommit, AlertRow
  <2>5. Raised' = Raised
    BY <2>4 DEF Raised
  <2>6. \A i \in Automatic : incidents[i].alert \in DOMAIN alerts
    BY DEF IInv, AutoIncidentJustified, Automatic
  <2>7. Opened' = Opened \cup {row}
    <3>1. \A i \in Automatic : incidents'[i] = incidents[i]
      BY <2>3 DEF Automatic
    <3> QED BY <2>1, <2>3, <2>4, <2>6, <3>1 DEF Opened
  <2>8. \A q \in Opened : q.key # row.key /\ q.incident # row.incident
    BY <2>1, <2>2, <2>3, <2>6 DEF Opened, Automatic, IInv, UniqueDedupeKey
  <2>9. \E a \in Raised : a.key = row.key /\ a.severity = "CRITICAL"
    <3> DEFINE a == [alert |-> t, key |-> alerts[t].key,
                     severity |-> alerts[t].severity]
    <3>1. a \in Raised
      BY <2>1 DEF Raised
    <3>2. a.key = row.key /\ a.severity = "CRITICAL"
      BY <2>2
    <3> QED BY <3>1, <3>2
  <2>10. Promise!Open
    BY <2>2, <2>4, <2>5, <2>7, <2>8, <2>9 DEF Promise!Open
  <2> QED BY <2>10 DEF Promise!Next
<1>4. ASSUME NEW l \in Loops, Fail(l) PROVE [Promise!Next]_(Promise!vars)
  BY <1>4, <1>a DEF Fail
<1>5. ASSUME NEW h \in Hosts, Stop(h) \/ Start(h)
      PROVE  [Promise!Next]_(Promise!vars)
  BY <1>5, <1>a DEF Stop, Start
<1>6. ASSUME NEW o \in Operators, PatchRead(o)
      PROVE  [Promise!Next]_(Promise!vars)
  BY <1>6, <1>a DEF PatchRead
<1>7. ASSUME NEW o \in Operators, PatchCommit(o)
      PROVE  [Promise!Next]_(Promise!vars)
  <2>1. edit[o].alert \in DOMAIN alerts
    BY <1>7 DEF PatchCommit, IInv, LinksResolve
  <2>2. \A a \in DOMAIN alerts : alerts[a] \in AlertRow
    BY <1>0 DEF TypeOK
  <2>3. Invisible
    BY <1>7, <2>1, <2>2 DEF PatchCommit, Invisible, AlertRow, Automatic
  <2> QED BY <2>3, InvisibleStep
<1>8. ASSUME OpenIncident PROVE [Promise!Next]_(Promise!vars)
  <2>1. PICK A \in SUBSET DOMAIN alerts :
         alerts' = [a \in DOMAIN alerts |->
                      IF a \in A
                        THEN [alerts[a] EXCEPT !.incident = Len(incidents) + 1]
                        ELSE alerts[a]]
    BY <1>8 DEF OpenIncident
  <2>2. \A a \in DOMAIN alerts : alerts[a] \in AlertRow
    BY <1>0 DEF TypeOK
  <2>3. /\ DOMAIN incidents' = DOMAIN incidents \cup {Len(incidents) + 1}
        /\ \A i \in DOMAIN incidents : incidents'[i] = incidents[i]
        /\ Len(incidents) + 1 \notin DOMAIN incidents
        /\ ~incidents'[Len(incidents) + 1].auto
    <3>1. incidents \in Seq(IncidentRow)
      BY <1>0 DEF TypeOK
    <3> QED BY <1>8, <3>1, AppendProperties DEF OpenIncident
  <2>4. Automatic' = Automatic
    BY <2>3 DEF Automatic
  <2>5. Invisible
    BY <1>8, <2>1, <2>2, <2>3, <2>4
       DEF OpenIncident, Invisible, AlertRow, Automatic
  <2> QED BY <2>5, InvisibleStep
<1>9. CASE UNCHANGED vars
  BY <1>9, <1>a DEF vars
<1> QED
  BY <1>1, <1>2, <1>3, <1>4, <1>5, <1>6, <1>7, <1>8, <1>9 DEF Next

\* The loops, with their transactions, races and restarts, implement the
\* abstract promise about alerts and incidents.
THEOREM Refinement == Spec => KeepsPromise
<1>1. Init => Promise!Init
  BY DEF Init, Promise!Init, Raised, Opened, Automatic
<1>2. IInv /\ IInv' /\ [Next]_vars => [Promise!Next]_(Promise!vars)
  BY StepKeepsPromise
<1> QED BY <1>1, <1>2, Invariance, PTL DEF Spec, KeepsPromise, Promise!Spec

-----------------------------------------------------------------------------
(* The clients of the loops. *)

\* A client that has not called yet (ClientInit).
LEMMA ClientStarts == ClientInit => ClientInv
  <1> SUFFICES ASSUME ClientInit PROVE ClientInv
      OBVIOUS
  <1>1. ClientTypeOK
    <2>1. 0 \in 0..MaxRetries /\ 0 \in 0..2*MaxRetries
          /\ MinInterval \in 0..MinInterval
          BY SourceAssumption
    <2> QED  BY <2>1 DEF ClientInit, ClientTypeOK
  <1>2. Attempts /\ PerAttempt /\ Spaced
        BY DEF ClientInit, Attempts, PerAttempt, Spaced
  <1>3. PatientWithOutages /\ FailuresAreDeclared /\ ReauthOncePerAttempt
        BY DEF ClientInit, PatientWithOutages, FailuresAreDeclared,
               ReauthOncePerAttempt
  <1> QED  BY <1>1, <1>2, <1>3 DEF ClientInv

\* A poll begins a call.
LEMMA BeginClient == ASSUME ClientInv, Begin PROVE ClientInv'
  <1>1. ClientTypeOK'
        BY SourceAssumption DEF ClientInv, ClientTypeOK, Begin
  <1>2. Attempts' /\ PerAttempt' /\ Spaced'
        BY SourceAssumption DEF Begin, Attempts, PerAttempt, Spaced
  <1>3. PatientWithOutages' /\ FailuresAreDeclared' /\ ReauthOncePerAttempt'
        BY DEF Begin, PatientWithOutages, FailuresAreDeclared,
               ReauthOncePerAttempt
  <1> QED  BY <1>1, <1>2, <1>3 DEF ClientInv

\* A sleep ends: an attempt is left, or MaxRetries have failed.
LEMMA WakeClient == ASSUME ClientInv, Wake PROVE ClientInv'
  <1>1. ClientTypeOK'
        BY DEF ClientInv, ClientTypeOK, Wake, NextAttempt, End, call
  <1>2. Attempts' /\ PerAttempt' /\ Spaced'
        BY DEF ClientInv, ClientTypeOK, Wake, NextAttempt, End, call,
               Attempts, PerAttempt, Spaced
  <1>3. PatientWithOutages'
        BY SourceAssumption DEF ClientInv, ClientTypeOK, Attempts, Wake,
               NextAttempt, End, call, PatientWithOutages
  <1>4. FailuresAreDeclared' /\ ReauthOncePerAttempt'
        BY DEF ClientInv, Attempts, Wake, NextAttempt, End, call,
               FailuresAreDeclared, ReauthOncePerAttempt
  <1> QED  BY <1>1, <1>2, <1>3, <1>4 DEF ClientInv

\* The wait is over, and no GET was sent meanwhile.
LEMMA ThrottleClient == ASSUME ClientInv, Throttle PROVE ClientInv'
  <1>1. ClientTypeOK'  BY DEF ClientInv, ClientTypeOK, Throttle, call
  <1>2. Attempts' /\ PerAttempt' /\ Spaced'
        BY DEF ClientInv, Throttle, call, Attempts, PerAttempt, Spaced
  <1>3. PatientWithOutages' /\ FailuresAreDeclared' /\ ReauthOncePerAttempt'
        BY DEF ClientInv, Throttle, call, PatientWithOutages,
               FailuresAreDeclared, ReauthOncePerAttempt
  <1> QED  BY <1>1, <1>2, <1>3 DEF ClientInv

\* A login: the GET follows, or the call ends, or the attempt has failed.
LEMMA LoginClient == ASSUME ClientInv, Login PROVE ClientInv'
  <1>1. PICK o \in LoginOutcomes :
          /\ last' = o
          /\ \/ /\ o = "ok" /\ auth' = TRUE
                /\ phase' = IF phase = "relogin" THEN "reget" ELSE "get"
                /\ UNCHANGED <<fails, result>>
             \/ /\ o \in {"busy", "refused"}
                /\ End("unavailable") /\ UNCHANGED <<fails, auth>>
             \/ o = "unreachable" /\ Retry /\ UNCHANGED auth
        BY SourceAssumption DEF Login
  <1>2. /\ phase \in {"login", "relogin"} /\ UNCHANGED <<kind, gets, since>>
        /\ reauths' = IF phase = "relogin" THEN reauths + 1 ELSE reauths
        BY DEF Login
  <1>3. fails < MaxRetries /\ result = "none"
        BY <1>2 DEF ClientInv, Attempts
  <1>4. /\ reauths <= fails
        /\ gets <= 2 * fails + IF phase = "relogin" THEN 1 ELSE 0
        BY <1>2 DEF ClientInv, ClientTypeOK, PerAttempt
  <1>5. ClientTypeOK'
    <2>1. /\ fails \in 0..MaxRetries /\ reauths \in 0..MaxRetries
          /\ gets \in 0..2*MaxRetries /\ auth \in BOOLEAN
          /\ MaxRetries \in Nat
          BY SourceAssumption DEF ClientInv, ClientTypeOK
    <2>2. reauths' \in 0..MaxRetries /\ gets' \in 0..2*MaxRetries
          BY <1>2, <1>3, <1>4, <2>1
    <2>3. /\ fails' \in 0..MaxRetries
          /\ phase' \in {"idle", "backoff", "get", "reget"}
          /\ result' \in {"none", "unavailable"}
          BY <1>1, <1>3, <2>1 DEF End, Retry
    <2>4. last' \in {"ok", "unreachable", "busy", "refused"}
          BY SourceAssumption, <1>1
    <2>5. kind' \in Kinds /\ since' \in 0..MinInterval
          BY <1>2 DEF ClientInv, ClientTypeOK
    <2>6. auth' \in BOOLEAN  BY Zenon, <1>1, <2>1
    <2> QED  BY <2>2, <2>3, <2>4, <2>5, <2>6 DEF ClientTypeOK
  <1>6. Attempts' /\ Spaced'
        BY <1>1, <1>2, <1>3 DEF ClientInv, Attempts, Spaced, End, Retry
  <1>7. PerAttempt'
        BY <1>1, <1>2, <1>4 DEF ClientInv, ClientTypeOK, PerAttempt, End, Retry
  <1>8. PatientWithOutages' /\ FailuresAreDeclared'
        BY <1>1, <1>2, <1>3
        DEF ClientInv, Spaced, PatientWithOutages, FailuresAreDeclared, End, Retry
  <1>9. ReauthOncePerAttempt'
        BY <1>1, <1>2, <1>4
        DEF ClientInv, ClientTypeOK, ReauthOncePerAttempt, End, Retry
  <1> QED  BY <1>5, <1>6, <1>7, <1>8, <1>9 DEF ClientInv

\* How a GET leaves the call: it is over, with an error only for a malformed
\* answer or from SocratesClient; or the session is renewed; or the attempt
\* has failed.
LEMMA GetMoves ==
    ASSUME Get
    PROVE  /\ phase \in {"get", "reget"} /\ UNCHANGED <<kind, reauths>>
           /\ gets' = gets + 1 /\ since' = 0 /\ last' \in Outcomes
           /\ \/ /\ phase' = "idle" /\ fails' = fails
                 /\ result' \in {"records", "unavailable", "error"}
                 /\ result' = "unavailable" => last' \in {"refused", "expired"}
                 /\ result' = "error" =>
                      last' = "malformed" \/ kind = "socrates"
              \/ /\ phase = "get" /\ phase' = "relogin" /\ kind = "spacetrack"
                 /\ fails' = fails /\ result' = result
              \/ Retry
           /\ auth' \in {auth, FALSE}
  <1>1. PICK o \in Outcomes :
          /\ last' = o
          /\ \/ o = "ok" /\ End("records") /\ UNCHANGED <<fails, auth>>
             \/ /\ o = "malformed"
                /\ End(IF kind \in Unforgiving THEN "error" ELSE "records")
                /\ UNCHANGED <<fails, auth>>
             \/ /\ o = "expired" /\ kind = "spacetrack" /\ phase = "get"
                /\ phase' = "relogin" /\ auth' = FALSE
                /\ UNCHANGED <<fails, result>>
             \/ /\ o \in {"refused", "expired"}
                /\ ~(o = "expired" /\ kind = "spacetrack" /\ phase = "get")
                /\ End(IF kind = "socrates" THEN "error" ELSE "unavailable")
                /\ UNCHANGED <<fails, auth>>
             \/ o = "transient" /\ kind # "socrates" /\ Retry /\ UNCHANGED auth
             \/ /\ o = "transient" /\ kind = "socrates"
                /\ End("error") /\ UNCHANGED <<fails, auth>>
        BY DEF Get
  <1> QED  BY <1>1 DEF Get, End

\* A GET.
LEMMA GetClient == ASSUME ClientInv, Get PROVE ClientInv'
  <1>1. fails < MaxRetries /\ result = "none"
        BY GetMoves DEF ClientInv, Attempts
  <1>2. /\ gets <= 2 * fails + IF phase = "reget" THEN 1 ELSE 0
        /\ reauths <= fails + IF phase = "reget" THEN 1 ELSE 0
        BY GetMoves DEF ClientInv, PerAttempt
  <1>3. ClientTypeOK'
    <2>1. /\ fails \in 0..MaxRetries /\ reauths \in 0..MaxRetries
          /\ gets \in 0..2*MaxRetries /\ auth \in BOOLEAN
          /\ MaxRetries \in Nat /\ MinInterval \in Nat
          BY SourceAssumption DEF ClientInv, ClientTypeOK
    <2>2. reauths' \in 0..MaxRetries /\ gets' \in 0..2*MaxRetries
          BY GetMoves, <1>1, <1>2, <2>1
    <2>3. /\ fails' \in 0..MaxRetries
          /\ phase' \in {"idle", "backoff", "relogin"}
          /\ result' \in {"none", "records", "unavailable", "error"}
          BY GetMoves, <1>1, <2>1 DEF Retry
    <2>4. last' \in {"ok", "malformed", "transient", "refused", "expired"}
          BY SourceAssumption, GetMoves
    <2>5. kind' \in Kinds /\ since' \in 0..MinInterval
          BY GetMoves, <2>1 DEF ClientInv, ClientTypeOK
    <2>6. auth' \in BOOLEAN  BY Zenon, GetMoves, <2>1
    <2> QED  BY <2>2, <2>3, <2>4, <2>5, <2>6 DEF ClientTypeOK
  <1>4. Attempts' /\ Spaced'
        BY GetMoves, <1>1 DEF Attempts, Spaced, Retry
  <1>5. PerAttempt'
        BY GetMoves, <1>2 DEF ClientInv, ClientTypeOK, PerAttempt, Retry
  <1>6. PatientWithOutages' /\ FailuresAreDeclared'
        BY GetMoves, <1>1 DEF PatientWithOutages, FailuresAreDeclared, Retry
  <1>7. ReauthOncePerAttempt'
        BY GetMoves, <1>2 DEF ClientInv, ClientTypeOK, ReauthOncePerAttempt, Retry
  <1> QED  BY <1>3, <1>4, <1>5, <1>6, <1>7 DEF ClientInv

\* Time passes.
LEMMA TickClient == ASSUME ClientInv, Tick PROVE ClientInv'
  <1>1. ClientTypeOK'
        BY SourceAssumption DEF ClientInv, ClientTypeOK, Tick, call
  <1>2. Attempts' /\ PerAttempt' /\ Spaced'
        BY SourceAssumption DEF ClientInv, ClientTypeOK, Tick, call, Attempts,
           PerAttempt, Spaced
  <1>3. PatientWithOutages' /\ FailuresAreDeclared' /\ ReauthOncePerAttempt'
        BY DEF ClientInv, Tick, call, PatientWithOutages,
               FailuresAreDeclared, ReauthOncePerAttempt
  <1> QED  BY <1>1, <1>2, <1>3 DEF ClientInv

LEMMA ClientKeeps == ClientInv /\ [ClientNext]_clientVars => ClientInv'
  <1> SUFFICES ASSUME ClientInv, [ClientNext]_clientVars PROVE ClientInv'
      OBVIOUS
  <1>1. CASE UNCHANGED clientVars
        BY <1>1 DEF clientVars, call, ClientInv, ClientTypeOK, Attempts,
           PerAttempt, Spaced, PatientWithOutages, FailuresAreDeclared,
           ReauthOncePerAttempt
  <1> QED  BY <1>1, BeginClient, WakeClient, ThrottleClient, LoginClient,
              GetClient, TickClient DEF ClientNext, Step

\* The inductive invariant of a client: how far its call has got bounds the
\* attempts, GETs and logins it has made (BaseSourceClient._get_json,
\* SpaceTrackClient).
THEOREM ClientInvariance == ClientSpec => []ClientInv
  BY ClientStarts, ClientKeeps, PTL DEF ClientSpec

\* A source is given up only when it refused, failed MaxRetries times, or
\* answered a Space-Track login with 5xx or 429.
THEOREM OutagesMetPatiently == ClientSpec => []PatientWithOutages
  <1>1. ClientInv => PatientWithOutages  BY DEF ClientInv
  <1> QED  BY <1>1, ClientInvariance, PTL

\* No failure of a client that retries surfaces undeclared.
THEOREM FailuresAlwaysDeclared == ClientSpec => []FailuresAreDeclared
  <1>1. ClientInv => FailuresAreDeclared  BY DEF ClientInv
  <1> QED  BY <1>1, ClientInvariance, PTL

\* An attempt logs in again once at most, and a call sends no more than two
\* GETs for each of its MaxRetries attempts.
THEOREM ReauthAlwaysOnce ==
    ClientSpec => [](ReauthOncePerAttempt /\ gets <= 2 * MaxRetries)
  <1>1. ClientInv => ReauthOncePerAttempt /\ gets <= 2 * MaxRetries
        BY SourceAssumption DEF ClientInv, ClientTypeOK
  <1> QED  BY <1>1, ClientInvariance, PTL

\* The GETs that open Space-Track's attempts keep their distance
\* (SpaceTrackClient._throttle), whatever fails between them.
THEOREM AttemptsAlwaysSpaced == ClientSpec => SpacedAttempts
  <1>1. ClientInv /\ [ClientNext]_clientVars =>
          [kind = "spacetrack" /\ phase = "get" /\ gets' > gets =>
             since = MinInterval]_clientVars
        BY DEF ClientInv, Spaced
  <1> QED  BY <1>1, ClientInvariance, PTL DEF ClientSpec, SpacedAttempts
=============================================================================
