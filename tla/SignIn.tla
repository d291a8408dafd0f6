------------------------------- MODULE SignIn -------------------------------
(***************************************************************************)
(* Signing in to one account: AuthService.login and complete_mfa_login     *)
(* (services/auth.py) behind the limiter, and MFAService (services/mfa.py). *)
(* A request loads the user, and maybe a recovery code, in one step and    *)
(* commits in another.  The family a session starts is RefreshTokens!Login *)
(* and is not kept here.                                                   *)
(*                                                                         *)
(* A TOTP secret is a number, 0 for none; a code of the authenticator is   *)
(* the secret it was made from.  One recovery code stands for the ten of   *)
(* an activation.                                                          *)
(***************************************************************************)
EXTENDS RateLimiter

CONSTANTS
    MaxSecrets,    \* bound: secrets ever generated
    MaxCodes,      \* bound: activations
    MaxOps         \* bound: requests that get past their reads

ASSUME SignInAssumption ==
    /\ {MaxSecrets, MaxCodes} \subseteq Nat \ {0} /\ MaxOps \in Nat
    /\ {"ip", "email"} \subseteq Budgets

VARIABLES
    user,      \* the row: whether MFA is on, and its secret
    issued,    \* how many secrets and codes there have been
    codes,     \* each recovery code: none (not issued, or deleted), unused, used
    challenge, \* whether an MFA challenge was ever given
    signedIn,  \* whether a session was ever opened
    work,      \* what each request has loaded and is about to commit
    ops,       \* number of requests past their reads
    proven,    \* history: secrets of which an activation saw a code
    passes,    \* history: times a recovery code was accepted
    clash,     \* history: two enrolment requests overlapped
    contested  \* history: codes that two requests held at once

accountVars == <<user, issued, codes, challenge, signedIn>>
historyVars == <<proven, passes, clash, contested>>
vars == <<limiterVars, accountVars, work, ops, historyVars>>

Secrets == 1..MaxSecrets
Codes   == 1..MaxCodes

Enrolment == {"setup", "activate", "disable"}
Ops == Enrolment \cup {"password", "mfa"}
NoWork == [op |-> "none", phase |-> "none", secret |-> 0, code |-> 0]
Work == [op: Ops \cup {"none"}, phase: {"none", "gate", "burn", "commit"},
         secret: 0..MaxSecrets, code: 0..MaxCodes]

\* The account is new, or its owner has a session and perhaps a second factor.
Init ==
    /\ LimiterInit
    /\ signedIn \in BOOLEAN
    /\ \E n \in IF signedIn THEN {0, 1} ELSE {0} :
         /\ user = [enabled |-> n = 1, secret |-> n]
         /\ issued = [secrets |-> n, codes |-> n]
         /\ codes = [c \in Codes |-> IF c <= n THEN "unused" ELSE "none"]
         /\ proven = 1..n
    /\ challenge = FALSE
    /\ work = [r \in Requests |-> NoWork]
    /\ ops = 0
    /\ clash = FALSE /\ contested = {}
    /\ passes = [c \in Codes |-> 0]

\* Requests of an enrolment that have loaded the user and not yet finished.
Enrolling == {r \in Requests : work[r].op \in Enrolment}
Holding(c) == {r \in Requests : work[r].phase = "burn" /\ work[r].code = c}

\* Request r has loaded what it needs.
Load(r, op, phase, code) ==
    /\ ops < MaxOps
    /\ ops' = ops + 1
    /\ work' = [work EXCEPT ![r] =
         [op |-> op, phase |-> phase, secret |-> user.secret, code |-> code]]
    /\ clash' = (clash \/ (op \in Enrolment /\ Enrolling # {}))
    /\ contested' = IF phase = "burn" /\ Holding(code) # {}
                      THEN contested \cup {code} ELSE contested

Finish(r) == work' = [work EXCEPT ![r] = NoWork] /\ Leave(r)
-----------------------------------------------------------------------------
\* login and mfa_verify enter the limiter; the second counts the address only.
Attempt(r) ==
    /\ work[r] = NoWork
    /\ \E op \in {"password", "mfa"} :
         /\ op = "mfa" => challenge
         /\ work' = [work EXCEPT ![r] =
              [op |-> op, phase |-> "gate", secret |-> 0, code |-> 0]]
         /\ Enforce(r, IF op = "mfa" THEN <<"ip">> ELSE <<"ip", "email">>)
    /\ UNCHANGED <<accountVars, ops, historyVars>>

\* At the gate; a refused or killed request is over.
Throttle(r) ==
    /\ work[r].phase = "gate"
    /\ AtGate(r) \/ Killed(r)
    /\ work' = IF gate'[r] = Outside THEN [work EXCEPT ![r] = NoWork] ELSE work
    /\ UNCHANGED <<accountVars, ops, historyVars>>

Admitted(r, op) ==
    gate[r].stage = "in" /\ work[r].op = op /\ work[r].phase = "gate"

\* The credentials are refused, or the challenge has expired; the failure may
\* be audited.
Refused(r) ==
    /\ gate[r].stage = "in" /\ work[r].phase = "gate"
    /\ Finish(r)
    /\ UNCHANGED <<accountVars, ops, historyVars>>

\* login, the password right: a session, or a challenge if MFA is enabled.
PasswordLogin(r) ==
    /\ Admitted(r, "password")
    /\ \/ /\ ~user.enabled
          /\ Load(r, "password", "commit", 0)
          /\ UNCHANGED <<accountVars, limiterVars>>
       \/ /\ user.enabled
          /\ challenge' = TRUE
          /\ Finish(r)
          /\ UNCHANGED <<user, issued, codes, signedIn, ops, clash, contested>>
    /\ UNCHANGED <<proven, passes>>

\* Seeded fault: the recovery code is looked up, used or not.
VerifyUsed(r, op) ==
    /\ user.enabled /\ user.secret # 0
    /\ \/ Load(r, op, "commit", 0)
       \/ \E c \in Codes : codes[c] # "none" /\ Load(r, op, "burn", c)

\* verify: a current code of the secret loaded, or a code read as unused.
Verify(r, op) ==
    /\ user.enabled /\ user.secret # 0
    /\ \/ Load(r, op, "commit", 0)
       \/ \E c \in Codes : codes[c] = "unused" /\ Load(r, op, "burn", c)

MfaLogin(r) ==
    /\ Admitted(r, "mfa") /\ challenge
    /\ Verify(r, "mfa")
    /\ UNCHANGED <<accountVars, limiterVars, proven, passes>>

\* verify commits the use of the code on its own, before what it is for;
\* if the row has been deleted the request fails.
Burn(r) ==
    LET c == work[r].code IN
    /\ work[r].phase = "burn"
    /\ IF codes[c] = "none"
         THEN Finish(r) /\ UNCHANGED <<codes, passes>>
         ELSE /\ codes' = [codes EXCEPT ![c] = "used"]
              /\ passes' = [passes EXCEPT ![c] = @ + 1]
              /\ work' = [work EXCEPT ![r] =
                   [op |-> @.op, phase |-> "commit", secret |-> @.secret, code |-> 0]]
              /\ UNCHANGED limiterVars
    /\ UNCHANGED <<user, issued, challenge, signedIn, ops,
                   proven, clash, contested>>
-----------------------------------------------------------------------------
\* Seeded fault: a new secret may be set up beside the one in use.
SetupAnytime(r) == Load(r, "setup", "commit", 0)

\* The three enrolment requests, up to the user they load.  Each needs a
\* session; activate needs a code of the secret it loads.
Setup(r) == ~user.enabled /\ Load(r, "setup", "commit", 0)

Activate(r) ==
    /\ ~user.enabled /\ user.secret # 0
    /\ Load(r, "activate", "commit", 0)

Enrol(r) ==
    /\ signedIn /\ work[r] = NoWork
    /\ Setup(r) \/ Activate(r) \/ Verify(r, "disable")
    /\ UNCHANGED <<accountVars, limiterVars, proven, passes>>

\* The commits write the columns the request has changed, over whatever
\* another has committed since.
CommitSetup(r) ==
    /\ work[r].op = "setup" /\ issued.secrets < MaxSecrets
    /\ issued' = [issued EXCEPT !.secrets = @ + 1]
    /\ user' = [user EXCEPT !.secret = issued.secrets + 1]
    /\ UNCHANGED <<codes, proven>>

CommitActivate(r) ==
    /\ work[r].op = "activate" /\ issued.codes < MaxCodes
    /\ issued' = [issued EXCEPT !.codes = @ + 1]
    /\ user' = [user EXCEPT !.enabled = TRUE]
    /\ codes' = [codes EXCEPT ![issued.codes + 1] = "unused"]
    /\ proven' = proven \cup {work[r].secret}

CommitDisable(r) ==
    /\ work[r].op = "disable" /\ work[r].phase = "commit"
    /\ user' = [enabled |-> FALSE, secret |-> 0]
    /\ codes' = [c \in Codes |-> "none"]
    /\ UNCHANGED <<issued, proven>>

CommitEnrolment(r) ==
    /\ CommitSetup(r) \/ CommitActivate(r) \/ CommitDisable(r)
    /\ Finish(r)
    /\ UNCHANGED <<challenge, signedIn, ops, passes, clash, contested>>
-----------------------------------------------------------------------------
\* The session is committed.
OpenSession(r) ==
    /\ work[r].op \in {"password", "mfa"} /\ work[r].phase = "commit"
    /\ signedIn' = TRUE
    /\ Finish(r)
    /\ UNCHANGED <<user, issued, codes, challenge, ops, historyVars>>

\* A request fails after its reads; what it has already committed stays.
Fail(r) ==
    /\ work[r].phase \in {"burn", "commit"}
    /\ Finish(r)
    /\ UNCHANGED <<accountVars, ops, historyVars>>

Clock == Tick /\ UNCHANGED <<accountVars, work, ops, historyVars>>

Handle(r) ==
    \/ Throttle(r) \/ Refused(r)
    \/ PasswordLogin(r) \/ MfaLogin(r) \/ Burn(r)
    \/ CommitEnrolment(r) \/ OpenSession(r) \/ Fail(r)

Next ==
    \/ \E r \in Requests : Attempt(r) \/ Enrol(r) \/ Handle(r)
    \/ Clock

\* A request that has begun is worked on, and time passes.
Fairness == WF_vars(Clock) /\ \A r \in Requests : WF_vars(Handle(r))

Spec == Init /\ [][Next]_vars /\ Fairness
-----------------------------------------------------------------------------
(***************************************************************************)
(* Properties.                                                             *)
(***************************************************************************)

\* Types; a request busy past its reads is through the gate or never at it.
TypeOK ==
    /\ gate \in [Requests -> Gate] /\ work \in [Requests -> Work]
    /\ user \in [enabled: BOOLEAN, secret: 0..issued.secrets]
    /\ issued \in [secrets: 0..MaxSecrets, codes: 0..MaxCodes]
    /\ codes \in [Codes -> {"none", "unused", "used"}]
    /\ proven \subseteq Secrets /\ contested \subseteq Codes
    /\ passes \in [Codes -> Nat]
    /\ {challenge, signedIn, clash} \subseteq BOOLEAN

\* "setup (QR SVG + manual secret) -> activate -> challenge login"
\* (phase-6-identity.md): unless two enrolment requests overlapped, an
\* account asks for a second factor only if the user has shown a code of the
\* secret it is checked against, and recovery codes go with the enrolment.
EnrolmentHolds ==
    ~clash => /\ user.enabled => user.secret \in proven
              /\ (\E c \in Codes : codes[c] # "none") => user.enabled

\* "one-time recovery codes" (mfa.py): a code is accepted once, unless two
\* requests had read it as unused before either used it.
RecoveryOnce ==
    \A c \in Codes : passes[c] > 1 => c \in contested
=============================================================================
