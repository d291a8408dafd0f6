----------------------------- MODULE WebSession -----------------------------
(***************************************************************************)
(* A browser tab of the web client (apps/web/src/lib/api.ts) against the   *)
(* refresh endpoint of RefreshTokens.  The tab keeps one token pair in     *)
(* sessionStorage; every API call that is answered 401 refreshes that      *)
(* pair on its own account and is then sent once more.                     *)
(*                                                                         *)
(* A stored pair is named by the row of its refresh token.  A call's       *)
(* refresh is the server's request of the same name.                       *)
(***************************************************************************)
EXTENDS RefreshTokens

CONSTANT Faults \* what may go wrong on a refresh: "error" (5xx), "loss"

ASSUME WebAssumption == Faults \subseteq {"error", "loss"}

VARIABLES
    store,  \* the stored pair, 0 when there is none
    access, \* pairs whose access token the API still accepts
    call,   \* how far each API call has got
    sent,   \* the pair it was last sent with, or the answer it received
    unlucky \* history: two calls were at the pair at once, or one failed

tabVars == <<store, access, call, sent, unlucky>>
webVars == <<tokenVars, tabVars>>

Stages == {"idle", "asked", "refresh", "waiting", "answered", "again",
           "logout", "leaving", "left"}

WebInit ==
    /\ TokenInit
    /\ store = 0 /\ access = {}
    /\ call = [c \in Requests |-> "idle"]
    /\ sent = [c \in Requests |-> 0]
    /\ unlucky = FALSE

\* Bound: a call may yet insert one row.
Busy == {c \in Requests : call[c] # "idle"}
Spare == Len(tokens) + Cardinality(Busy) < MaxTokens

Move(c, stage, t) ==
    /\ call' = [call EXCEPT ![c] = stage]
    /\ sent' = [sent EXCEPT ![c] = t]

\* Call c turns to the stored pair, maybe while another is about to change it.
AtPair == {c \in Requests : call[c] \in {"refresh", "waiting", "answered",
                                         "logout", "leaving", "left"}}
TurnsToPair == unlucky' = (unlucky \/ AtPair # {})

\* Nobody is signed in: a login stores a fresh pair.
SignIn ==
    /\ store = 0 /\ Spare
    /\ Login
    /\ store' = Len(tokens) + 1
    /\ access' = access \cup {Len(tokens) + 1}
    /\ UNCHANGED <<call, sent, unlucky>>

\* request: a call leaves with the stored access token.
Ask(c) ==
    /\ call[c] = "idle" /\ store # 0 /\ Spare
    /\ Move(c, "asked", store)
    /\ UNCHANGED <<tokenVars, store, access, unlucky>>

\* The access token's minutes run out.
AccessExpires(t) ==
    /\ t \in access
    /\ access' = access \ {t}
    /\ UNCHANGED <<tokenVars, store, call, sent, unlucky>>

\* Seeded fault: a call refreshes as often as it is answered 401.
AnswerRefreshesAgain(c) ==
    /\ call[c] \in {"asked", "again"}
    /\ IF sent[c] \notin access /\ store # 0
         THEN Move(c, "refresh", store) /\ TurnsToPair
         ELSE Move(c, "idle", 0) /\ UNCHANGED unlucky
    /\ UNCHANGED <<tokenVars, store, access>>

\* The API answers.  On a 401 refreshTokens loads the pair stored by now;
\* a second 401 is an error to the caller, and no refresh.
Answer(c) ==
    /\ call[c] \in {"asked", "again"}
    /\ IF call[c] = "asked" /\ sent[c] \notin access /\ store # 0
         THEN Move(c, "refresh", store) /\ TurnsToPair
         ELSE Move(c, "idle", 0) /\ UNCHANGED unlucky
    /\ UNCHANGED <<tokenVars, store, access>>

\* The refresh endpoint reads the presented token; an expired one is
\* answered 401 at once.
Serve(c) ==
    /\ call[c] = "refresh"
    /\ \/ ReadRefresh(c, sent[c]) /\ Move(c, "waiting", sent[c])
       \/ /\ Live(sent[c]) /\ tokens[sent[c]].expired
          /\ Move(c, "answered", 0)
          /\ UNCHANGED tokenVars
    /\ UNCHANGED <<store, access, unlucky>>

\* It commits, and the answer is on its way: a new pair, or a 401.  A
\* handler that failed is answered 500, which the tab takes for a 401.
Commit(c) ==
    /\ call[c] = "waiting"
    /\ \/ /\ Rotate(c)
          /\ Move(c, "answered", Len(tokens) + 1)
          /\ access' = access \cup {Len(tokens) + 1}
          /\ UNCHANGED unlucky
       \/ /\ RevokeFamily(c)
          /\ Move(c, "answered", 0)
          /\ UNCHANGED <<access, unlucky>>
       \/ /\ "error" \in Faults /\ Abort(c)
          /\ Move(c, "answered", 0)
          /\ unlucky' = TRUE
          /\ UNCHANGED access
    /\ UNCHANGED store

\* Seeded fault: the new refresh token is not stored.
ReceiveKeepsOld(c) ==
    /\ call[c] = "answered"
    /\ IF sent[c] = 0 THEN store' = 0 /\ Move(c, "idle", 0)
                      ELSE Move(c, "again", store) /\ UNCHANGED store
    /\ UNCHANGED <<tokenVars, access, unlucky>>

\* refreshTokens receives the answer: it stores the new pair, and the call
\* is sent again with it; or it clears the store and the session is over.
Receive(c) ==
    /\ call[c] = "answered"
    /\ store' = sent[c]
    /\ Move(c, IF sent[c] = 0 THEN "idle" ELSE "again", sent[c])
    /\ UNCHANGED <<tokenVars, access, unlucky>>

\* The answer is lost: fetch rejects, the call fails, the store stays.
Lose(c) ==
    /\ "loss" \in Faults /\ call[c] = "answered"
    /\ Move(c, "idle", 0)
    /\ unlucky' = TRUE
    /\ UNCHANGED <<tokenVars, store, access>>

\* logout: the stored token goes to the server ...
SignOut(c) ==
    /\ call[c] = "idle" /\ store # 0
    /\ Move(c, "logout", store)
    /\ TurnsToPair
    /\ UNCHANGED <<tokenVars, store, access>>

ServeSignOut(c) ==
    /\ \/ /\ call[c] = "logout"
          /\ ReadLogout(c, sent[c])
          /\ Move(c, "leaving", sent[c])
       \/ /\ call[c] = "leaving"
          /\ RevokeFamily(c)
          /\ Move(c, "left", 0)
    /\ UNCHANGED <<store, access, unlucky>>

\* ... or does not get there, or its handler fails: the tab ignores that, and
\* the family stays live on the server ...
LoseSignOut(c) ==
    /\ \/ "loss" \in Faults /\ call[c] = "logout" /\ UNCHANGED tokenVars
       \/ "error" \in Faults /\ call[c] = "leaving" /\ Abort(c)
    /\ Move(c, "left", 0)
    /\ UNCHANGED <<store, access, unlucky>>

\* ... and in either case the pair is forgotten.
Forget(c) ==
    /\ call[c] = "left"
    /\ store' = 0
    /\ Move(c, "idle", 0)
    /\ UNCHANGED <<tokenVars, access, unlucky>>

RefreshExpires(t) == Expire(t) /\ UNCHANGED tabVars

\* What the network, the server and the tab do without the user.
Proceed(c) ==
    \/ Answer(c) \/ Serve(c) \/ Commit(c) \/ Receive(c) \/ Lose(c)
    \/ ServeSignOut(c) \/ LoseSignOut(c) \/ Forget(c)

Tab(c) == Ask(c) \/ SignOut(c) \/ Proceed(c)

WebNext ==
    \/ SignIn
    \/ \E c \in Requests : Tab(c)
    \/ \E t \in DOMAIN tokens : AccessExpires(t) \/ RefreshExpires(t)

WebSpec ==
    /\ WebInit /\ [][WebNext]_webVars
    /\ \A c \in Requests : WF_webVars(Proceed(c))
-----------------------------------------------------------------------------
\* Types; a call that waits for the refresh endpoint is a request there, and
\* what goes to the server is a token.
WebTypeOK ==
    /\ TokenTypeOK
    /\ store \in 0..Len(tokens) /\ access \subseteq 1..Len(tokens)
    /\ call \in [Requests -> Stages]
    /\ sent \in [Requests -> 0..Len(tokens)]
    /\ unlucky \in BOOLEAN
    /\ \A c \in Requests :
         /\ req[c] # Idle <=> call[c] \in {"waiting", "leaving"}
         /\ call[c] \in {"refresh", "logout"} => sent[c] # 0

SigningOut == \E c \in Requests : call[c] \in {"logout", "leaving", "left"}

\* "Silent refresh-token rotation" (api.ts): a tab loses its session only
\* by signing out, or because the refresh token it held had expired.
StaysSignedIn ==
    [][store # 0 /\ store' = 0 => SigningOut \/ tokens[store].expired]_webVars

\* ... which holds as long as no two calls refreshed or signed out at once
\* and no refresh was lost or failed.
KeepsSessionUnlessUnlucky ==
    [][store # 0 /\ store' = 0 =>
         SigningOut \/ tokens[store].expired \/ unlucky]_webVars

\* What the tab keeps between its calls is a token the server would rotate,
\* under the same condition.
StoredTokenLive ==
    store # 0 /\ AtPair = {} /\ ~unlucky => Live(store)

\* An API call returns to its caller, whatever overlaps, fails or expires:
\* the tab refreshes at most once per call.
CallReturns == \A c \in Requests : call[c] # "idle" ~> call[c] = "idle"

(***************************************************************************)
(* Why they hold: while all goes well at most one call is at the pair, and *)
(* nobody but this call can spend the stored token.                        *)
(***************************************************************************)
AtStored(c) ==
    /\ store # 0
    /\ call[c] \in {"refresh", "waiting"} => sent[c] = store /\ Live(store)
    /\ call[c] = "waiting" => req[c].phase = "rotate" /\ req[c].token = store
    /\ call[c] = "answered" =>
         IF sent[c] = 0 THEN tokens[store].expired ELSE Live(sent[c])

OneAtPair ==
    ~unlucky => /\ \A c, d \in AtPair : c = d
                /\ \A c \in AtPair : AtStored(c)

WebInv == WebTypeOK /\ RotatedIsSpent /\ OneAtPair /\ StoredTokenLive
=============================================================================
