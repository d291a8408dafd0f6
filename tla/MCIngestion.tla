---------------------------- MODULE MCIngestion ----------------------------
(* Small instances of Ingestion for TLC. *)
EXTENDS Ingestion, TLC

CONSTANTS h1, h2, c1, c2, cat, w1, k1, k2, k3, o1, o2

\* Loop c2 runs on the second process, all others on the first.
MCHost == [l \in Loops |-> IF l = c2 THEN h2 ELSE h1]
MCKind == [l \in Loops |-> IF l = cat THEN "catalog"
                           ELSE IF l = w1 THEN "weather"
                           ELSE "conjunctions"]

MCPair == [k \in Keys |-> IF k = k2 THEN {o1, o2} ELSE {o1}]

Rec(k, s) == [key |-> k, severity |-> s]

\* One loop sees a record too low for an alert, k1 below CRITICAL, or k1 at
\* CRITICAL before another conjunction; the other loop sees k1 at CRITICAL.
FeedMixed == [l \in Loops |->
    IF l = c1 THEN {<<Rec(k2, None)>>, <<Rec(k1, "HIGH")>>,
                    <<Rec(k1, "CRITICAL"), Rec(k2, "HIGH")>>}
              ELSE {<<Rec(k1, "CRITICAL")>>}]

\* The same two conjunctions at every poll.
FeedSame == [l \in Loops |-> {<<Rec(k1, "CRITICAL"), Rec(k2, "CRITICAL")>>}]

\* The same, and space weather on k3.
FeedByKind == [l \in Loops |->
    IF Kind[l] = "weather" THEN {<<Rec(k3, None)>>, <<Rec(k3, "CRITICAL")>>}
                           ELSE FeedSame[l]]

Downloads == {{o1}}
=============================================================================
