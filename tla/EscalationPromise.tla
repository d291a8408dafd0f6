------------------------- MODULE EscalationPromise -------------------------
(***************************************************************************)
(* What ingestion promises about conjunctions, with the loops, their       *)
(* transactions and their races left out: a conjunction is raised once,    *)
(* with the severity it was first seen at, and an incident is opened for   *)
(* it at most once, only if that severity is CRITICAL and one of its       *)
(* objects is in the catalog mirror (ADR-0018, decisions 2 and 3).         *)
(*                                                                         *)
(* Rows get their identity from the database, so a step says that some new *)
(* row appeared and what is true of it.                                    *)
(***************************************************************************)
CONSTANTS Keys, Objects, Pair, Severities

VARIABLES
    raised,    \* set of [alert, key, severity]
    opened,    \* set of [incident, key]: incidents the system opened
    catalog    \* objects of the catalog mirror

vars == <<raised, opened, catalog>>

Init == raised = {} /\ opened = {} /\ catalog \in SUBSET Objects

\* The first sighting of a conjunction fixes its alert.
Raise ==
    /\ \E r \in raised' :
         /\ r.key \in Keys /\ r.severity \in Severities
         /\ \A q \in raised : q.key # r.key /\ q.alert # r.alert
         /\ raised' = raised \cup {r}
    /\ UNCHANGED <<opened, catalog>>

Open ==
    /\ \E r \in opened' :
         /\ \E a \in raised : a.key = r.key /\ a.severity = "CRITICAL"
         /\ Pair[r.key] \cap catalog # {}
         /\ \A q \in opened : q.key # r.key /\ q.incident # r.incident
         /\ opened' = opened \cup {r}
    /\ UNCHANGED <<raised, catalog>>

\* The mirror only grows.
Refresh ==
    /\ catalog' \in SUBSET Objects
    /\ catalog \subseteq catalog'
    /\ UNCHANGED <<raised, opened>>

Next == Raise \/ Open \/ Refresh

Spec == Init /\ [][Next]_vars
=============================================================================
