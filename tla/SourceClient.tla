---------------------------- MODULE SourceClient ----------------------------
(***************************************************************************)
(* One polling loop's HTTP client: BaseSourceClient._get_json with its     *)
(* retries (clients/base.py), SpaceTrackClient with its session and its    *)
(* request spacing (clients/spacetrack.py), SocratesClient, which fetches  *)
(* its CSV with neither (clients/socrates.py), and the assistant's         *)
(* AnthropicProvider, whose loop is that of the base                       *)
(* (sentinel/providers.py).  Calls follow one another; the session and the *)
(* time of the last request outlive a call.                                *)
(*                                                                         *)
(* A request has one of these outcomes: "ok", "malformed" (parses, but a   *)
(* row is not what the client expects), "transient" (transport error, 5xx, *)
(* 429, bad JSON), "refused" (any other 4xx) and "expired" (401 on a       *)
(* Space-Track session).  A login has its own: "ok", "unreachable" (no     *)
(* answer at all), "busy" (answered 5xx or 429) and "refused" (any other   *)
(* status from 400, or a body that says so).                               *)
(***************************************************************************)
EXTENDS Naturals

CONSTANTS
    Kinds,        \* clients to consider
    MaxRetries,   \* attempts per call (max_retries)
    MinInterval,  \* Space-Track's spacing between requests, in clock ticks
    Outcomes,     \* outcomes of a GET
    LoginOutcomes \* outcomes of a login

ASSUME SourceAssumption ==
    /\ Kinds \subseteq {"plain", "spacetrack", "socrates", "sentinel"}
    /\ MaxRetries \in Nat \ {0} /\ MinInterval \in Nat
    /\ Outcomes \subseteq {"ok", "malformed", "transient", "refused", "expired"}
    /\ LoginOutcomes \subseteq {"ok", "unreachable", "busy", "refused"}

VARIABLES
    kind,     \* which client this is
    phase,       \* where the call is suspended
    fails,    \* attempts of this call that failed transiently
    gets,     \* GETs sent by this call
    reauths,  \* logins this call made because a session had expired
    auth,     \* _authenticated
    since,    \* ticks since the last GET, up to MinInterval
    last,     \* outcome of the last request
    result    \* how the last call ended

call == <<fails, gets, reauths>>
clientVars == <<kind, phase, call, auth, since, last, result>>

ClientInit ==
    /\ kind \in Kinds /\ phase = "idle"
    /\ fails = 0 /\ gets = 0 /\ reauths = 0
    /\ auth = FALSE /\ since = MinInterval
    /\ last = "none" /\ result = "none"

\* The call returns its records or raises.
End(how) == phase' = "idle" /\ result' = how

\* Seeded fault: a failed attempt is not counted.
RetryForever == phase' = "backoff" /\ UNCHANGED <<fails, result>>

\* A transient failure: sleep, whether or not an attempt is left.
Retry ==
    /\ fails' = fails + 1
    /\ phase' = "backoff" /\ UNCHANGED result

\* A poll begins a call.
Begin ==
    /\ phase = "idle"
    /\ phase' = IF kind = "spacetrack" THEN "throttle" ELSE "get"
    /\ fails' = 0 /\ gets' = 0 /\ reauths' = 0 /\ last' = "none"
    /\ result' = "none"
    /\ UNCHANGED <<kind, auth, since>>

NextAttempt(to) == phase' = to /\ UNCHANGED result

\* Seeded fault: one attempt too few.
WakeTooSoon ==
    /\ phase = "backoff"
    /\ IF fails + 1 < MaxRetries
         THEN NextAttempt(IF kind = "spacetrack" THEN "throttle" ELSE "get")
         ELSE End("unavailable")
    /\ UNCHANGED <<kind, call, auth, since, last>>

\* Seeded fault: after the last attempt its exception is raised again.
WakeReraises ==
    /\ phase = "backoff"
    /\ IF fails < MaxRetries
         THEN NextAttempt(IF kind = "spacetrack" THEN "throttle" ELSE "get")
         ELSE End("error")
    /\ UNCHANGED <<kind, call, auth, since, last>>

\* Seeded fault: the next attempt skips _throttle.
WakeUnthrottled ==
    /\ phase = "backoff"
    /\ IF fails < MaxRetries THEN NextAttempt("get") ELSE End("unavailable")
    /\ UNCHANGED <<kind, call, auth, since, last>>

\* The backoff sleep is over: the next attempt of the loop starts, or
\* attempts have run out.
Wake ==
    /\ phase = "backoff"
    /\ IF fails < MaxRetries
         THEN NextAttempt(IF kind = "spacetrack" THEN "throttle" ELSE "get")
         ELSE End("unavailable")
    /\ UNCHANGED <<kind, call, auth, since, last>>

\* _throttle returns once MinInterval has passed since the last GET.
Throttle ==
    /\ phase = "throttle" /\ since = MinInterval
    /\ phase' = IF auth THEN "get" ELSE "login"
    /\ UNCHANGED <<kind, call, auth, since, last, result>>

\* _login, before the GET of an attempt or ("relogin") after its 401.  Any
\* status from 400 on raises SourceUnavailable past the retry loop, a 503 or
\* 429 like a 403; only a transport error is left to the loop.
Login ==
    /\ phase \in {"login", "relogin"}
    /\ reauths' = IF phase = "relogin" THEN reauths + 1 ELSE reauths
    /\ \E o \in LoginOutcomes :
         /\ last' = o
         /\ CASE o = "ok" ->
                   /\ auth' = TRUE
                   /\ phase' = IF phase = "relogin" THEN "reget" ELSE "get"
                   /\ UNCHANGED <<fails, result>>
              [] o \in {"busy", "refused"} ->
                   End("unavailable") /\ UNCHANGED <<fails, auth>>
              [] o = "unreachable" -> Retry /\ UNCHANGED auth
    /\ UNCHANGED <<kind, gets, since>>

\* Seeded fault: a 401 after the re-login logs in once more.
GetReauthAgain ==
    /\ phase \in {"get", "reget"}
    /\ gets' = gets + 1 /\ since' = 0
    /\ \E o \in Outcomes :
         /\ last' = o
         /\ IF o = "expired" /\ reauths < MaxRetries
              THEN phase' = "relogin" /\ auth' = FALSE /\ UNCHANGED <<fails, result>>
              ELSE End("unavailable") /\ UNCHANGED <<fails, auth>>
    /\ UNCHANGED <<kind, reauths>>

\* _parse of the plain clients raises on a malformed row, complete on an
\* answer without the fields it takes; the other two skip the row.
Unforgiving == {"plain", "sentinel"}

\* The GET (complete's POST) and what becomes of its outcome.
Get ==
    /\ phase \in {"get", "reget"}
    /\ gets' = gets + 1 /\ since' = 0
    /\ \E o \in Outcomes :
         /\ last' = o
         /\ \/ o = "ok" /\ End("records") /\ UNCHANGED <<fails, auth>>
            \/ /\ o = "malformed"
               /\ End(IF kind \in Unforgiving THEN "error" ELSE "records")
               /\ UNCHANGED <<fails, auth>>
            \/ /\ o = "expired" /\ kind = "spacetrack" /\ phase = "get"
               /\ phase' = "relogin" /\ auth' = FALSE
               /\ UNCHANGED <<fails, result>>
            \/ /\ o \in {"refused", "expired"}
               /\ ~(o = "expired" /\ kind = "spacetrack" /\ phase = "get")
               /\ End(IF kind = "socrates" THEN "error" ELSE "unavailable")
               /\ UNCHANGED <<fails, auth>>
            \/ /\ o = "transient" /\ kind # "socrates"
               /\ Retry /\ UNCHANGED auth
            \/ /\ o = "transient" /\ kind = "socrates"
               /\ End("error") /\ UNCHANGED <<fails, auth>>
    /\ UNCHANGED <<kind, reauths>>

Tick ==
    /\ since < MinInterval
    /\ since' = since + 1
    /\ UNCHANGED <<kind, phase, call, auth, last, result>>

Step == Wake \/ Throttle \/ Login \/ Get

ClientNext == Begin \/ Step \/ Tick

ClientSpec == ClientInit /\ [][ClientNext]_clientVars /\ WF_clientVars(Step) /\ WF_clientVars(Tick)
-----------------------------------------------------------------------------
\* Every variable stays in its type; in particular a call makes at most
\* MaxRetries attempts of at most two GETs each.
ClientTypeOK ==
    /\ kind \in Kinds
    /\ phase \in {"idle", "backoff", "throttle", "login", "relogin", "get", "reget"}
    /\ fails \in 0..MaxRetries /\ gets \in 0..2*MaxRetries
    /\ reauths \in 0..MaxRetries
    /\ auth \in BOOLEAN /\ since \in 0..MinInterval
    /\ last \in {"none", "ok", "malformed", "transient", "refused", "expired",
                 "unreachable", "busy"}
    /\ result \in {"none", "records", "unavailable", "error"}

\* "Transient failures retry ...; persistent failures raise
\* SourceUnavailable" (base.py): a source is given up only when it refused,
\* or failed MaxRetries times in one call.  The one exception is the code's:
\* a Space-Track login answered 5xx or 429 ends the call at once
\* (SpaceTrackClient._login), while the same answer to a GET is retried.
PatientWithOutages ==
    result = "unavailable" =>
        \/ last \in {"refused", "expired"}
        \/ fails = MaxRetries
        \/ kind = "spacetrack" /\ last = "busy"

\* The other half of that sentence, and "a live-provider failure degrades to
\* the rule-based draft" (providers.py): a failing request of a client that
\* retries never surfaces as anything but SourceUnavailable or ProviderError,
\* which the poll and the assistant swallow.  (SocratesClient raises httpx errors: see get_conjunctions.)
FailuresAreDeclared ==
    result = "error" /\ kind # "socrates" => last = "malformed"

\* "Session expiry mid-use is handled by a single re-auth-and-retry"
\* (spacetrack.py): one re-login per attempt.
ReauthOncePerAttempt == reauths <= fails + 1

\* "This client enforces a minimum spacing between requests"
\* (spacetrack.py): the GETs that open an attempt are MinInterval behind the
\* GET before them, within a call and from one call to the next.  (The GET
\* repeated behind a re-login is not.)
SpacedAttempts ==
    [][kind = "spacetrack" /\ phase = "get" /\ gets' > gets =>
         since = MinInterval]_clientVars

\* A call ends, whatever the source does.
CallEnds == phase # "idle" ~> phase = "idle"
(***************************************************************************)
(* Why they hold: how far a call has got bounds what it has done so far,   *)
(* and the wait before an attempt of Space-Track outlasts its login.       *)
(***************************************************************************)
\* A call is not over before it has a result; an attempt is only made when
\* one is left.
Attempts ==
    /\ phase # "idle" => result = "none"
    /\ phase \notin {"idle", "backoff"} => fails < MaxRetries

\* An attempt is at most two GETs with a re-login between them.
PerAttempt ==
    LET more == IF phase \in {"relogin", "reget"} THEN 1 ELSE 0
    IN  /\ phase # "idle" => gets <= 2 * fails + more
        /\ phase # "idle" => reauths <= fails + IF phase = "reget" THEN 1 ELSE 0

\* From the end of the wait to the GET nothing else is sent; only Space-Track
\* waits and logs in.
Spaced ==
    /\ kind = "spacetrack" /\ phase \in {"login", "get"} => since = MinInterval
    /\ phase \in {"throttle", "login", "relogin", "reget"} => kind = "spacetrack"

ClientInv ==
    /\ ClientTypeOK /\ Attempts /\ PerAttempt /\ Spaced
    /\ PatientWithOutages /\ FailuresAreDeclared /\ ReauthOncePerAttempt
=============================================================================
