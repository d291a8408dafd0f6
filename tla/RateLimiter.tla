---------------------------- MODULE RateLimiter ----------------------------
(***************************************************************************)
(* FixedWindowLimiter (core/ratelimit.py): one Redis counter per budget,   *)
(* given its expiry by the request that finds it at one.  INCR and EXPIRE  *)
(* are two calls; either may fail, before or after Redis has done it, and  *)
(* the request is then let through.                                        *)
(*                                                                         *)
(* Redis is external.  Time is a count of ticks, Window of them to a       *)
(* window.  A counter past the limit is not counted further: enforce only  *)
(* compares it.                                                            *)
(***************************************************************************)
EXTENDS Naturals, Sequences

CONSTANTS
    Requests, \* requests the server may be working on at once
    Budgets,  \* the keys that are counted
    Limit,    \* hits a window allows
    Window    \* ticks to a window

ASSUME LimiterAssumption == Limit \in Nat \ {0} /\ Window \in Nat \ {0}

VARIABLES
    hits,    \* the counter of each budget, 0 when there is no key
    ttl,     \* ticks until it expires, 0 when none are set
    gate,    \* budgets each request has yet to pass, and how far it is
    orphaned \* history: budgets whose first hit was not given an expiry

limiterVars == <<hits, ttl, gate, orphaned>>

Outside == [left |-> <<>>, stage |-> "out"]
Gate == [left: Seq(Budgets), stage: {"out", "incr", "expire", "in"}]

LimiterInit ==
    /\ hits = [k \in Budgets |-> 0]
    /\ ttl = [k \in Budgets |-> 0]
    /\ gate = [r \in Requests |-> Outside]
    /\ orphaned = {}

Budget(r) == Head(gate[r].left)
Counted(k) == IF hits[k] > Limit THEN hits[k] ELSE hits[k] + 1

\* What remains for r once its present budget has admitted it.
Passed(r) ==
    LET rest == Tail(gate[r].left) IN
    [left |-> rest, stage |-> IF rest = <<>> THEN "in" ELSE "incr"]
LetThrough == [left |-> <<>>, stage |-> "in"]
-----------------------------------------------------------------------------
\* A handler calls enforce with its budgets, in order.
Enforce(r, budgets) ==
    /\ gate[r] = Outside
    /\ gate' = [gate EXCEPT ![r] = [left |-> budgets, stage |-> "incr"]]
    /\ UNCHANGED <<hits, ttl, orphaned>>

\* Seeded fault: every hit renews the expiry.
IncrRenews(r) ==
    LET k == Budget(r) IN
    /\ gate[r].stage = "incr"
    /\ hits' = [hits EXCEPT ![k] = Counted(k)]
    /\ ttl' = [ttl EXCEPT ![k] = Window]
    /\ gate' = [gate EXCEPT ![r] = IF hits[k] >= Limit THEN Outside ELSE Passed(r)]
    /\ UNCHANGED orphaned

\* INCR: the first hit goes on to EXPIRE, one past the limit is refused
\* without its further budgets being counted.
Incr(r) ==
    LET k == Budget(r) IN
    /\ gate[r].stage = "incr"
    /\ hits' = [hits EXCEPT ![k] = Counted(k)]
    /\ gate' = [gate EXCEPT ![r] =
                  IF hits[k] = 0 THEN [@ EXCEPT !.stage = "expire"]
                  ELSE IF hits[k] >= Limit THEN Outside ELSE Passed(r)]
    /\ UNCHANGED <<ttl, orphaned>>

Expire(r) ==
    /\ gate[r].stage = "expire"
    /\ ttl' = [ttl EXCEPT ![Budget(r)] = Window]
    /\ gate' = [gate EXCEPT ![r] = Passed(r)]
    /\ UNCHANGED <<hits, orphaned>>

\* A call to Redis fails, and had its effect or not; enforce swallows it.
RedisFails(r) ==
    LET k == Budget(r) IN
    /\ gate' = [gate EXCEPT ![r] = LetThrough]
    /\ \/ gate[r].stage = "incr" /\ UNCHANGED <<hits, ttl, orphaned>>
       \/ /\ gate[r].stage = "incr"
          /\ hits' = [hits EXCEPT ![k] = Counted(k)]
          /\ orphaned' = IF hits[k] = 0 THEN orphaned \cup {k} ELSE orphaned
          /\ UNCHANGED ttl
       \/ /\ gate[r].stage = "expire"
          /\ ttl' = [ttl EXCEPT ![k] = Window]
          /\ UNCHANGED <<hits, orphaned>>
       \/ /\ gate[r].stage = "expire"
          /\ orphaned' = orphaned \cup {k}
          /\ UNCHANGED <<hits, ttl>>

\* The process stops between the two calls.
Killed(r) ==
    /\ gate[r].stage = "expire"
    /\ orphaned' = orphaned \cup {Budget(r)}
    /\ gate' = [gate EXCEPT ![r] = Outside]
    /\ UNCHANGED <<hits, ttl>>

\* The request is over.
Leave(r) ==
    /\ gate' = [gate EXCEPT ![r] = Outside]
    /\ UNCHANGED <<hits, ttl, orphaned>>

\* Time passes; Redis deletes the keys that expire.
Tick ==
    /\ \E k \in Budgets : ttl[k] > 0
    /\ hits' = [k \in Budgets |-> IF ttl[k] = 1 THEN 0 ELSE hits[k]]
    /\ ttl' = [k \in Budgets |-> IF ttl[k] > 0 THEN ttl[k] - 1 ELSE 0]
    /\ UNCHANGED <<gate, orphaned>>

AtGate(r) == Incr(r) \/ Expire(r) \/ RedisFails(r)
-----------------------------------------------------------------------------
\* "Wait a few minutes and try again" (ratelimit.py): however often a spent
\* budget is asked for, it is given back, unless the hit that opened its
\* window was never given an expiry.
ThrottleLifts ==
    \A k \in Budgets :
        hits[k] > Limit ~> hits[k] = 0 \/ k \in orphaned

\* The safety it rests on: a counter that stands has its expiry, or the
\* request that opened its window is about to set it, or never will.
EveryCountExpires ==
    \A k \in Budgets :
        hits[k] > 0 =>
            \/ ttl[k] > 0 \/ k \in orphaned
            \/ \E r \in Requests : gate[r].stage = "expire" /\ Budget(r) = k
=============================================================================
