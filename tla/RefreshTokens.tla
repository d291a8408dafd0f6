--------------------------- MODULE RefreshTokens ---------------------------
(***************************************************************************)
(* Table refresh_tokens and the two request handlers that change it,       *)
(* AuthService.refresh and AuthService.logout (services/auth.py).  A       *)
(* handler reads the presented row in one step and commits in another;     *)
(* the database is read-committed and the rows carry no version, so        *)
(* handlers on one family may overlap.                                     *)
(*                                                                         *)
(* A row is [family, parent, revoked, expired]; parent, the token it was   *)
(* rotated from (0 for a login), is history kept for the properties, and   *)
(* so are the variables contested and ended.                               *)
(***************************************************************************)
EXTENDS Naturals, Sequences, FiniteSets

CONSTANTS
    Requests,  \* requests the server may be working on at once
    MaxTokens  \* bound: rows ever inserted

ASSUME TokensAssumption == MaxTokens \in Nat

VARIABLES
    tokens,    \* rows of refresh_tokens, in insertion order
    req,       \* what each request has read and is about to commit
    contested, \* tokens that two refreshes had read as live at once
    ended      \* families a logout or a detected reuse has revoked while
               \* no refresh of theirs was in flight

tokenVars == <<tokens, req, contested, ended>>

TokenRow == [family: Nat, parent: Nat, revoked: BOOLEAN, expired: BOOLEAN]
Request  == [phase: {"idle", "rotate", "revoke"}, token: Nat]
Idle     == [phase |-> "idle", token |-> 0]

NewRow(f, p) ==
    [family |-> f, parent |-> p, revoked |-> FALSE, expired |-> FALSE]

TokenInit ==
    /\ tokens = <<>>
    /\ req = [r \in Requests |-> Idle]
    /\ contested = {} /\ ended = {}

\* A refresh has read t as live and has not committed yet.
Rotating(t) == \E r \in Requests : req[r].phase = "rotate" /\ req[r].token = t

RefreshInFlight(f) ==
    \E r \in Requests :
        req[r].phase = "rotate" /\ tokens[req[r].token].family = f

\* There is room for one more row, beside those about to be inserted.
Room == Len(tokens) + Cardinality({r \in Requests : req[r].phase = "rotate"})
          < MaxTokens

Live(t) == ~tokens[t].revoked
-----------------------------------------------------------------------------
\* A login, once it is past its checks, starts a family.
Login ==
    /\ Room
    /\ tokens' = Append(tokens, NewRow(Len(tokens) + 1, 0))
    /\ UNCHANGED <<req, contested, ended>>

\* Seeded fault: a revoked token is rotated like a live one.
ReadRefreshReused(r, t) ==
    /\ req[r] = Idle
    /\ ~tokens[t].expired /\ Room
    /\ req' = [req EXCEPT ![r] = [phase |-> "rotate", token |-> t]]
    /\ contested' = IF Rotating(t) THEN contested \cup {t} ELSE contested
    /\ UNCHANGED <<tokens, ended>>

\* refresh reads the row: a revoked one condemns its family, even when it
\* has also expired; an expired one is refused and changes nothing.
ReadRefresh(r, t) ==
    /\ req[r] = Idle
    /\ Live(t) => ~tokens[t].expired /\ Room
    /\ req' = [req EXCEPT ![r] =
                 [phase |-> IF Live(t) THEN "rotate" ELSE "revoke",
                  token |-> t]]
    /\ contested' = IF Live(t) /\ Rotating(t) THEN contested \cup {t}
                    ELSE contested
    /\ UNCHANGED <<tokens, ended>>

\* logout reads the row, live or not.
ReadLogout(r, t) ==
    /\ req[r] = Idle
    /\ req' = [req EXCEPT ![r] = [phase |-> "revoke", token |-> t]]
    /\ UNCHANGED <<tokens, contested, ended>>

\* Seeded fault: the presented token is not revoked.
RotateKeepsOld(r) ==
    LET t == req[r].token IN
    /\ req[r].phase = "rotate"
    /\ tokens' = Append(tokens, NewRow(tokens[t].family, t))
    /\ req' = [req EXCEPT ![r] = Idle]
    /\ UNCHANGED <<contested, ended>>

\* refresh commits: the presented row is revoked, its successor inserted.
Rotate(r) ==
    LET t == req[r].token IN
    /\ req[r].phase = "rotate"
    /\ tokens' = Append([tokens EXCEPT ![t].revoked = TRUE],
                        NewRow(tokens[t].family, t))
    /\ req' = [req EXCEPT ![r] = Idle]
    /\ UNCHANGED <<contested, ended>>

\* Family f ends, unless a refresh that has read one of its rows may yet
\* insert the successor.
Ends(f) == ended' = IF RefreshInFlight(f) THEN ended ELSE ended \cup {f}

\* Seeded fault: only the presented row is revoked.
RevokeOne(r) ==
    LET t == req[r].token IN
    /\ req[r].phase = "revoke"
    /\ tokens' = [tokens EXCEPT ![t].revoked = TRUE]
    /\ Ends(tokens[t].family)
    /\ req' = [req EXCEPT ![r] = Idle]
    /\ UNCHANGED contested

\* revoke_family and commit: every row of the family is revoked by now.
RevokeFamily(r) ==
    LET f == tokens[req[r].token].family IN
    /\ req[r].phase = "revoke"
    /\ tokens' = [t \in DOMAIN tokens |->
                    [tokens[t] EXCEPT !.revoked = @ \/ tokens[t].family = f]]
    /\ Ends(f)
    /\ req' = [req EXCEPT ![r] = Idle]
    /\ UNCHANGED contested

\* The handler fails before its commit and the session rolls back.
Abort(r) ==
    /\ req[r] # Idle
    /\ req' = [req EXCEPT ![r] = Idle]
    /\ UNCHANGED <<tokens, contested, ended>>

\* Fourteen days pass.
Expire(t) ==
    /\ ~tokens[t].expired
    /\ tokens' = [tokens EXCEPT ![t].expired = TRUE]
    /\ UNCHANGED <<req, contested, ended>>

Handle(r) ==
    \/ \E t \in DOMAIN tokens : ReadRefresh(r, t) \/ ReadLogout(r, t)
    \/ Rotate(r) \/ RevokeFamily(r) \/ Abort(r)

TokenNext ==
    \/ Login
    \/ \E r \in Requests : Handle(r)
    \/ \E t \in DOMAIN tokens : Expire(t)

TokenSpec == TokenInit /\ [][TokenNext]_tokenVars
-----------------------------------------------------------------------------
(***************************************************************************)
(* Properties.                                                             *)
(***************************************************************************)

\* Types; an idle request holds no token, a busy one a row that exists;
\* a family is named by the row of its login.
TokenTypeOK ==
    /\ tokens \in Seq(TokenRow)
    /\ \A t \in DOMAIN tokens : tokens[t].family \in DOMAIN tokens
    /\ req \in [Requests -> Request]
    /\ \A r \in Requests : IF req[r].phase = "idle" THEN req[r] = Idle
                           ELSE req[r].token \in DOMAIN tokens
    /\ contested \subseteq 1..Len(tokens) /\ ended \subseteq 1..Len(tokens)

\* A rotated token is spent: its successor is of the same family, and it
\* can never be rotated again by a request that starts later.
RotatedIsSpent ==
    \A t \in DOMAIN tokens :
        LET p == tokens[t].parent IN
        IF p = 0 THEN tokens[t].family = t
        ELSE p < t /\ ~Live(p) /\ tokens[p].family = tokens[t].family

\* "family_id groups a rotation chain" (models/user.py): no token has two
\* successors, so the family is a chain and not a tree.  The one exception is
\* a token that two refreshes had both read as live before either committed
\* (AuthService.refresh): both rotate it.
RotationChain ==
    \A s, t \in DOMAIN tokens :
        tokens[s].parent = tokens[t].parent /\ tokens[s].parent # 0 /\ s # t =>
            tokens[s].parent \in contested

\* At any time a session is carried by one refresh token: a family has two
\* live ones only if two refreshes met at one of its tokens, whatever else
\* rotated, was reused, was logged out or failed in between.
OneLiveToken ==
    \A s, t \in DOMAIN tokens :
        Live(s) /\ Live(t) /\ tokens[s].family = tokens[t].family /\ s # t =>
            \E u \in contested : tokens[u].family = tokens[s].family

\* "The entire family is revoked" (auth.py): once a logout or a detected
\* reuse has committed, no token of that family is live, then or later,
\* unless a refresh that had read one of its tokens was in flight then: it
\* inserts a live successor afterwards.
EndedStaysEnded ==
    \A t \in DOMAIN tokens : tokens[t].family \in ended => ~Live(t)

(***************************************************************************)
(* Why they hold, whatever overlaps.                                       *)
(***************************************************************************)
\* Two refreshes that are about to rotate one token have met there, and one
\* that has it for itself rotates a token without a successor.
RotatesFirst ==
    \A r \in Requests :
        req[r].phase = "rotate" /\ req[r].token \notin contested =>
            /\ \A s \in Requests \ {r} :
                 ~(req[s].phase = "rotate" /\ req[s].token = req[r].token)
            /\ \A t \in DOMAIN tokens : tokens[t].parent # req[r].token

\* A family is carried by one token, live or about to be rotated.
Carries(t) == Live(t) \/ Rotating(t)

OneCarrier ==
    \A s, t \in DOMAIN tokens :
        Carries(s) /\ Carries(t) /\ tokens[s].family = tokens[t].family /\ s # t =>
            \E u \in contested : tokens[u].family = tokens[s].family

\* Nobody is about to insert into a family that has ended.
EndedIsQuiet == \A f \in ended : ~RefreshInFlight(f)

TokenInv ==
    /\ TokenTypeOK /\ RotatedIsSpent
    /\ RotatesFirst /\ RotationChain /\ OneCarrier
    /\ EndedIsQuiet /\ EndedStaysEnded
=============================================================================
