---------------------------- MODULE SignInProofs ----------------------------
(***************************************************************************)
(* Theorems about SignIn, for every number of requests, secrets, codes and *)
(* budgets.                                                                *)
(*                                                                         *)
(* What is said of the account does not depend on the limiter, so a step   *)
(* at the gate is quiet; what is left are requests that load, the use of a *)
(* code, and three commits.  CodeInv and EnrolInv are the invariants: each *)
(* says what holds of those that have loaded, while no other has loaded    *)
(* the same.  GateInv is the limiter's.                                    *)
(***************************************************************************)
EXTENDS SignIn, TLAPS

TypeInv ==
    /\ work \in [Requests -> Work]
    /\ user \in [enabled : BOOLEAN, secret : 0..MaxSecrets]
    /\ issued \in [secrets : 0..MaxSecrets, codes : 0..MaxCodes]
    /\ codes \in [Codes -> {"none", "unused", "used"}]
    /\ passes \in [Codes -> Nat]
    /\ clash \in BOOLEAN

Kept == <<user, issued, codes, proven, passes>>

\* Nothing of the account changes: requests end, or come to the gate.
Quiet ==
    /\ UNCHANGED <<Kept, clash, contested>>
    /\ work' \in [Requests -> Work]
    /\ \A q \in Requests :
         \/ work'[q] \in {work[q], NoWork}
         \/ work'[q].op \notin Enrolment /\ work'[q].phase = "gate"

\* Request r loads the user, and the code, that it will commit by.
Loads(r, op, phase, code) ==
    /\ Load(r, op, phase, code) /\ UNCHANGED Kept
    /\ op \in Ops /\ phase \in {"burn", "commit"} /\ code \in 0..MaxCodes
    /\ work[r].op \notin Enrolment /\ work[r].phase # "burn"
    /\ phase = "burn" => code \in Codes /\ codes[code] = "unused"
    /\ op \in {"setup", "activate"} => user.enabled = FALSE

\* The code that r has read is accepted.
Accepts(r) ==
    /\ work[r].phase = "burn" /\ codes[work[r].code] # "none"
    /\ codes' = [codes EXCEPT ![work[r].code] = "used"]
    /\ passes' = [passes EXCEPT ![work[r].code] = @ + 1]
    /\ work' = [work EXCEPT ![r] =
         [op |-> work[r].op, phase |-> "commit", secret |-> work[r].secret, code |-> 0]]
    /\ UNCHANGED <<user, issued, proven, clash, contested>>

\* r commits its enrolment.
Commits(r) ==
    /\ CommitSetup(r) \/ CommitActivate(r) \/ CommitDisable(r)
    /\ work' = [work EXCEPT ![r] = NoWork]
    /\ UNCHANGED <<passes, clash, contested>>

LEMMA NoWorkTyped ==
    NoWork \in Work /\ NoWork.op = "none" /\ NoWork.phase = "none" /\ NoWork.code = 0
  BY SignInAssumption DEF NoWork, Work

LEMMA FinishIsQuiet ==
    ASSUME TypeInv, NEW r \in Requests, Finish(r), UNCHANGED <<Kept, clash, contested>>
    PROVE  Quiet
  BY NoWorkTyped DEF Finish, Quiet, TypeInv

\* verify, however it is passed.
LEMMA VerifyLoads ==
    ASSUME TypeInv, NEW r \in Requests, NEW op \in {"mfa", "disable"}, Verify(r, op),
           UNCHANGED Kept, work[r].op \notin Enrolment, work[r].phase # "burn"
    PROVE  \E phase, code : Loads(r, op, phase, code)
  <1>1. CASE Load(r, op, "commit", 0)
    <2>1. Loads(r, op, "commit", 0)
          BY <1>1, SignInAssumption DEF Loads, Ops, Enrolment
    <2> QED  BY <2>1
  <1>2. CASE \E c \in Codes : codes[c] = "unused" /\ Load(r, op, "burn", c)
    <2>1. PICK c \in Codes : codes[c] = "unused" /\ Load(r, op, "burn", c)
          BY <1>2
    <2>2. Loads(r, op, "burn", c)
          BY <2>1, SignInAssumption DEF Loads, Ops, Enrolment, Codes
    <2> QED  BY <2>2
  <1> QED  BY <1>1, <1>2 DEF Verify

\* Every step is one of these.
LEMMA Shapes ==
    ASSUME TypeInv, [Next]_vars
    PROVE  \/ Quiet
           \/ \E r \in Requests :
                (\E op, phase, code : Loads(r, op, phase, code)) \/ Accepts(r) \/ Commits(r)
  <1> USE DEF Kept
  <1>1. ASSUME NEW r \in Requests, Attempt(r) PROVE Quiet
    <2>1. PICK op \in {"password", "mfa"} :
            work' = [work EXCEPT ![r] =
              [op |-> op, phase |-> "gate", secret |-> 0, code |-> 0]]
          BY <1>1 DEF Attempt
    <2> DEFINE j == [op |-> op, phase |-> "gate", secret |-> 0, code |-> 0]
    <2>2. j \in Work /\ j.op \notin Enrolment /\ j.phase = "gate"
          BY SignInAssumption DEF Work, Ops, Enrolment
    <2>3. work' = [work EXCEPT ![r] = j]  BY <2>1
    <2> HIDE DEF j
    <2>4. /\ work' \in [Requests -> Work] /\ work'[r] = j
          /\ \A q \in Requests \ {r} : work'[q] = work[q]
          BY <2>2, <2>3 DEF TypeInv
    <2> QED  BY <1>1, <2>2, <2>4 DEF Attempt, Quiet, accountVars, historyVars
  <1>2. ASSUME NEW r \in Requests, Enrol(r)
        PROVE  \E op, phase, code : Loads(r, op, phase, code)
    <2>1. UNCHANGED Kept /\ work[r] = NoWork
          BY <1>2 DEF Enrol, accountVars
    <2>2. work[r].op \notin Enrolment /\ work[r].phase # "burn"
          BY <2>1, NoWorkTyped DEF Enrolment
    <2>3. CASE Setup(r)
      <3>1. Loads(r, "setup", "commit", 0)
            BY <2>1, <2>2, <2>3, SignInAssumption DEF Setup, Loads, Ops, Enrolment, TypeInv
      <3> QED  BY <3>1
    <2>4. CASE Activate(r)
      <3>1. Loads(r, "activate", "commit", 0)
            BY <2>1, <2>2, <2>4, SignInAssumption DEF Activate, Loads, Ops, Enrolment, TypeInv
      <3> QED  BY <3>1
    <2>5. CASE Verify(r, "disable")  BY <2>1, <2>2, <2>5, VerifyLoads
    <2> QED  BY <1>2, <2>3, <2>4, <2>5 DEF Enrol
  <1>3. ASSUME NEW r \in Requests, Throttle(r) PROVE Quiet
    <2>1. work' = [work EXCEPT ![r] = NoWork] \/ work' = work
          BY <1>3 DEF Throttle
    <2>2. work' \in [Requests -> Work] /\ \A q \in Requests : work'[q] \in {work[q], NoWork}
          BY <2>1, NoWorkTyped DEF TypeInv
    <2> QED  BY <1>3, <2>2 DEF Throttle, Quiet, accountVars, historyVars
  <1>4. ASSUME NEW r \in Requests, Refused(r) \/ OpenSession(r) \/ Fail(r) PROVE Quiet
        BY <1>4, FinishIsQuiet DEF Refused, OpenSession, Fail, accountVars, historyVars
  <1>5. ASSUME NEW r \in Requests, PasswordLogin(r)
        PROVE  Quiet \/ \E op, phase, code : Loads(r, op, phase, code)
    <2>1. work[r].op = "password" /\ work[r].phase = "gate" /\ UNCHANGED <<proven, passes>>
          BY <1>5 DEF PasswordLogin, Admitted
    <2>2. CASE Load(r, "password", "commit", 0) /\ UNCHANGED accountVars
      <3>1. Loads(r, "password", "commit", 0)
            BY <2>1, <2>2, SignInAssumption DEF Loads, Ops, Enrolment, accountVars
      <3> QED  BY <3>1
    <2>3. CASE Finish(r) /\ UNCHANGED <<user, issued, codes, clash, contested>>
          BY <2>1, <2>3, FinishIsQuiet
    <2> QED  BY <1>5, <2>2, <2>3 DEF PasswordLogin
  <1>6. ASSUME NEW r \in Requests, MfaLogin(r)
        PROVE  \E op, phase, code : Loads(r, op, phase, code)
    <2>1. /\ work[r].op = "mfa" /\ work[r].phase = "gate" /\ Verify(r, "mfa")
          /\ UNCHANGED Kept
          BY <1>6 DEF MfaLogin, Admitted, accountVars
    <2> QED  BY <2>1, VerifyLoads DEF Enrolment
  <1>7. ASSUME NEW r \in Requests, Burn(r) PROVE Quiet \/ Accepts(r)
    <2>1. CASE codes[work[r].code] = "none"
          BY <1>7, <2>1, FinishIsQuiet DEF Burn
    <2>2. CASE codes[work[r].code] # "none"
          BY <1>7, <2>2 DEF Burn, Accepts
    <2> QED  BY <2>1, <2>2
  <1>8. ASSUME NEW r \in Requests, CommitEnrolment(r) PROVE Commits(r)
        BY <1>8 DEF CommitEnrolment, Commits, Finish
  <1>9. CASE Clock \/ UNCHANGED vars
        BY <1>9 DEF Clock, Quiet, TypeInv, vars, accountVars, historyVars
  <1> QED  BY <1>1, <1>2, <1>3, <1>4, <1>5, <1>6, <1>7, <1>8, <1>9 DEF Next, Handle

-----------------------------------------------------------------------------
(* Types, and what each shape does to the requests. *)

LEMMA LoadsTyped ==
    ASSUME TypeInv, NEW r \in Requests, NEW op, NEW phase, NEW code,
           Loads(r, op, phase, code)
    PROVE  /\ TypeInv'
           /\ work'[r].op = op /\ work'[r].phase = phase /\ work'[r].code = code
           /\ work'[r].secret = user.secret
           /\ \A q \in Requests \ {r} : work'[q] = work[q]
           /\ clash' = (clash \/ (op \in Enrolment /\ Enrolling # {}))
           /\ contested' = IF phase = "burn" /\ Holding(code) # {}
                             THEN contested \cup {code} ELSE contested
  <1> DEFINE j == [op |-> op, phase |-> phase, secret |-> user.secret, code |-> code]
  <1>1. user.secret \in 0..MaxSecrets  BY DEF TypeInv
  <1>2. /\ j \in Work /\ j.op = op /\ j.phase = phase /\ j.code = code
        /\ j.secret = user.secret
        BY <1>1 DEF Loads, Work
  <1>3. /\ work' = [work EXCEPT ![r] = j] /\ UNCHANGED Kept
        /\ clash' = (clash \/ (op \in Enrolment /\ Enrolling # {}))
        /\ contested' = IF phase = "burn" /\ Holding(code) # {}
                          THEN contested \cup {code} ELSE contested
        BY DEF Loads, Load
  <1> HIDE DEF j
  <1>4. /\ work' \in [Requests -> Work] /\ work'[r] = j
        /\ \A q \in Requests \ {r} : work'[q] = work[q]
        BY <1>2, <1>3 DEF TypeInv
  <1>5. clash' \in BOOLEAN  BY <1>3
  <1> QED  BY <1>2, <1>3, <1>4, <1>5 DEF TypeInv, Kept

LEMMA AcceptsTyped ==
    ASSUME TypeInv, NEW r \in Requests, Accepts(r), work[r].code \in Codes
    PROVE  /\ TypeInv'
           /\ work'[r].op = work[r].op /\ work'[r].phase = "commit"
           /\ work'[r].secret = work[r].secret
           /\ \A q \in Requests \ {r} : work'[q] = work[q]
           /\ codes'[work[r].code] = "used" /\ passes'[work[r].code] = passes[work[r].code] + 1
           /\ \A c \in Codes \ {work[r].code} :
                codes'[c] = codes[c] /\ passes'[c] = passes[c]
  <1> DEFINE j == [op |-> work[r].op, phase |-> "commit", secret |-> work[r].secret, code |-> 0]
  <1>1. work[r] \in Work  BY DEF TypeInv
  <1>2. /\ j \in Work /\ j.op = work[r].op /\ j.phase = "commit"
        /\ j.secret = work[r].secret
        BY <1>1, SignInAssumption DEF Work
  <1>3. work' = [work EXCEPT ![r] = j]  BY DEF Accepts
  <1> HIDE DEF j
  <1>4. /\ work' \in [Requests -> Work] /\ work'[r] = j
        /\ \A q \in Requests \ {r} : work'[q] = work[q]
        BY <1>2, <1>3 DEF TypeInv
  <1>5. codes' = [codes EXCEPT ![work[r].code] = "used"]
        /\ passes' = [passes EXCEPT ![work[r].code] = passes[work[r].code] + 1]
        BY DEF Accepts
  <1>6. passes[work[r].code] + 1 \in Nat  BY DEF TypeInv
  <1>7. codes' \in [Codes -> {"none", "unused", "used"}] /\ passes' \in [Codes -> Nat]
        BY <1>5, <1>6 DEF TypeInv
  <1>8. /\ codes'[work[r].code] = "used" /\ passes'[work[r].code] = passes[work[r].code] + 1
        /\ \A c \in Codes \ {work[r].code} : codes'[c] = codes[c] /\ passes'[c] = passes[c]
        BY <1>5 DEF TypeInv
  <1>9. UNCHANGED <<user, issued, clash>>  BY DEF Accepts
  <1> QED  BY <1>2, <1>4, <1>7, <1>8, <1>9 DEF TypeInv

\* What is left of the account by each of the three commits.
LEMMA CommitsTyped ==
    ASSUME TypeInv, NEW r \in Requests, Commits(r)
    PROVE  /\ TypeInv'
           /\ work'[r] = NoWork /\ \A q \in Requests \ {r} : work'[q] = work[q]
           /\ UNCHANGED <<passes, clash, contested>>
           /\ \/ /\ work[r].op = "setup" /\ UNCHANGED <<codes, proven>>
                 /\ user'.enabled = user.enabled /\ issued'.codes = issued.codes
              \/ /\ work[r].op = "activate" /\ user'.secret = user.secret
                 /\ issued'.codes = issued.codes + 1 /\ issued'.codes \in Codes
                 /\ codes'[issued'.codes] = "unused"
                 /\ \A c \in Codes \ {issued'.codes} : codes'[c] = codes[c]
                 /\ proven' = proven \cup {work[r].secret}
              \/ /\ work[r].op = "disable" /\ UNCHANGED <<issued, proven>>
                 /\ user'.enabled = FALSE /\ \A c \in Codes : codes'[c] = "none"
  <1>1. /\ work' \in [Requests -> Work] /\ work'[r] = NoWork
        /\ \A q \in Requests \ {r} : work'[q] = work[q]
        /\ UNCHANGED <<passes, clash, contested>>
        BY NoWorkTyped DEF Commits, TypeInv
  <1>2. /\ user \in [enabled : BOOLEAN, secret : 0..MaxSecrets]
        /\ issued \in [secrets : 0..MaxSecrets, codes : 0..MaxCodes]
        BY DEF TypeInv
  <1>3. CASE CommitSetup(r)
    <2>1. /\ issued' \in [secrets : 0..MaxSecrets, codes : 0..MaxCodes]
          /\ issued'.codes = issued.codes
          BY <1>2, <1>3, SignInAssumption DEF CommitSetup
    <2>2. /\ user' \in [enabled : BOOLEAN, secret : 0..MaxSecrets]
          /\ user'.enabled = user.enabled
          BY <1>2, <1>3, SignInAssumption DEF CommitSetup
    <2>3. work[r].op = "setup" /\ UNCHANGED <<codes, proven>>  BY <1>3 DEF CommitSetup
    <2> QED  BY <1>1, <2>1, <2>2, <2>3 DEF TypeInv
  <1>4. CASE CommitActivate(r)
    <2>1. /\ issued' \in [secrets : 0..MaxSecrets, codes : 0..MaxCodes]
          /\ issued'.codes = issued.codes + 1 /\ issued.codes + 1 \in Codes
          BY <1>2, <1>4, SignInAssumption DEF CommitActivate, Codes
    <2>2. /\ user' \in [enabled : BOOLEAN, secret : 0..MaxSecrets]
          /\ user'.secret = user.secret
          BY <1>2, <1>4 DEF CommitActivate
    <2>3. /\ codes' \in [Codes -> {"none", "unused", "used"}]
          /\ codes'[issued.codes + 1] = "unused"
          /\ \A c \in Codes \ {issued.codes + 1} : codes'[c] = codes[c]
      <3>1. codes' = [codes EXCEPT ![issued.codes + 1] = "unused"]
            BY <1>4 DEF CommitActivate
      <3> QED  BY <2>1, <3>1 DEF TypeInv
    <2>4. work[r].op = "activate" /\ proven' = proven \cup {work[r].secret}
          BY <1>4 DEF CommitActivate
    <2> QED  BY <1>1, <2>1, <2>2, <2>3, <2>4 DEF TypeInv
  <1>5. CASE CommitDisable(r)
    <2>1. /\ user' \in [enabled : BOOLEAN, secret : 0..MaxSecrets]
          /\ user'.enabled = FALSE
          BY <1>5, SignInAssumption DEF CommitDisable
    <2>2. codes' = [c \in Codes |-> "none"] /\ work[r].op = "disable"
          /\ UNCHANGED <<issued, proven>>
          BY <1>5 DEF CommitDisable
    <2>3. codes' \in [Codes -> {"none", "unused", "used"}]  BY <2>2
    <2> QED  BY <1>1, <2>1, <2>2, <2>3 DEF TypeInv
  <1> QED  BY <1>3, <1>4, <1>5 DEF Commits

LEMMA QuietTyped == ASSUME TypeInv, Quiet PROVE TypeInv'
  BY DEF Quiet, Kept, TypeInv

LEMMA InitTyped == Init => TypeInv
  <1> SUFFICES ASSUME Init PROVE TypeInv
      OBVIOUS
  <1>1. work \in [Requests -> Work]  BY NoWorkTyped DEF Init
  <1>2. PICK n \in {0, 1} :
          /\ user = [enabled |-> n = 1, secret |-> n]
          /\ issued = [secrets |-> n, codes |-> n]
          /\ codes = [c \in Codes |-> IF c <= n THEN "unused" ELSE "none"]
        BY DEF Init
  <1>3. n <= MaxSecrets /\ n <= MaxCodes /\ n \in 0..MaxSecrets /\ n \in 0..MaxCodes
        BY SignInAssumption
  <1>4. user \in [enabled : BOOLEAN, secret : 0..MaxSecrets]  BY <1>2, <1>3
  <1>5. issued \in [secrets : 0..MaxSecrets, codes : 0..MaxCodes]  BY <1>2, <1>3
  <1>6. codes \in [Codes -> {"none", "unused", "used"}]  BY <1>2
  <1>7. passes \in [Codes -> Nat] /\ clash \in BOOLEAN  BY DEF Init
  <1> QED  BY <1>1, <1>4, <1>5, <1>6, <1>7 DEF TypeInv

-----------------------------------------------------------------------------
(* Recovery codes. *)

Holds(r, c) == work[r].phase = "burn" /\ work[r].code = c

\* A code that no two requests have held at once is accepted once at most, and
\* is then neither unused nor held; one that has not been issued is neither.
CodeInv ==
    /\ \A r \in Requests : work[r].phase = "burn" => work[r].code \in Codes
    /\ \A c \in Codes : c > issued.codes =>
         codes[c] = "none" /\ passes[c] = 0 /\ \A r \in Requests : ~Holds(r, c)
    /\ \A c \in Codes \ contested :
         /\ \A q, r \in Requests : Holds(q, c) /\ Holds(r, c) => q = r
         /\ \/ passes[c] = 0
            \/ /\ passes[c] = 1 /\ codes[c] # "unused"
               /\ \A r \in Requests : ~Holds(r, c)

LEMMA QuietCodes == ASSUME TypeInv, CodeInv, Quiet PROVE CodeInv'
  <1>1. \A q \in Requests : work'[q].phase = "burn" => work'[q] = work[q]
        BY NoWorkTyped DEF Quiet
  <1>2. UNCHANGED <<issued, codes, passes, contested>>  BY DEF Quiet, Kept
  <1> QED  BY <1>1, <1>2 DEF CodeInv, Holds

LEMMA StepCodes == TypeInv /\ CodeInv /\ [Next]_vars => TypeInv' /\ CodeInv'
  <1> SUFFICES ASSUME TypeInv, CodeInv, [Next]_vars PROVE TypeInv' /\ CodeInv'
      OBVIOUS
  <1>1. CASE Quiet  BY <1>1, QuietTyped, QuietCodes
  <1>2. ASSUME NEW r \in Requests, \E op, phase, code : Loads(r, op, phase, code)
        PROVE  TypeInv' /\ CodeInv'
    <2>1. PICK op, phase, code : Loads(r, op, phase, code)  BY <1>2
    <2>2. /\ TypeInv' /\ work'[r].phase = phase /\ work'[r].code = code
          /\ \A q \in Requests \ {r} : work'[q] = work[q]
          /\ contested' = IF phase = "burn" /\ Holding(code) # {}
                            THEN contested \cup {code} ELSE contested
          BY <2>1, LoadsTyped
    <2>3. /\ UNCHANGED <<issued, codes, passes>> /\ work[r].phase # "burn"
          /\ phase \in {"burn", "commit"}
          /\ phase = "burn" => code \in Codes /\ codes[code] = "unused"
          BY <2>1 DEF Loads, Kept
    <2>4. CASE phase = "commit"
      <3>1. \A q \in Requests : work'[q].phase = "burn" => work'[q] = work[q]
            BY <2>2, <2>4
      <3>2. contested' = contested  BY <2>2, <2>4
      <3> QED  BY <2>2, <2>3, <3>1, <3>2 DEF CodeInv, Holds
    <2>5. CASE phase = "burn"
      <3>1. \A c \in Codes \ {code} : \A q \in Requests : Holds(q, c)' <=> Holds(q, c)
            BY <2>2, <2>3 DEF Holds
      <3>2. contested \subseteq contested' /\ contested' \subseteq contested \cup {code}
            BY <2>2
      <3>3. code \notin contested' =>
              /\ code \notin contested /\ passes[code] = 0
              /\ \A q \in Requests : ~Holds(q, code)
            BY <2>2, <2>3, <2>5 DEF CodeInv, Holding, Holds
      <3>4. \A q \in Requests \ {r} : Holds(q, code)' <=> Holds(q, code)
            BY <2>2 DEF Holds
      <3>5. ~(code > issued.codes)  BY <2>3, <2>5 DEF CodeInv
      <3>6. \A q \in Requests : work'[q].phase = "burn" => work'[q].code \in Codes
            BY <2>2, <2>3, <2>5 DEF CodeInv
      <3>7. \A c \in Codes : c > issued'.codes =>
              codes'[c] = "none" /\ passes'[c] = 0 /\ \A q \in Requests : ~Holds(q, c)'
            BY <2>3, <3>1, <3>5 DEF CodeInv
      <3>8. ASSUME NEW c \in Codes \ contested'
            PROVE  /\ \A p, q \in Requests : Holds(p, c)' /\ Holds(q, c)' => p = q
                   /\ \/ passes'[c] = 0
                      \/ /\ passes'[c] = 1 /\ codes'[c] # "unused"
                         /\ \A q \in Requests : ~Holds(q, c)'
        <4>1. CASE c = code  BY <2>3, <3>3, <3>4, <3>8, <4>1
        <4>2. CASE c # code
          <5>1. c \in Codes \ contested  BY <3>2, <3>8
          <5>2. /\ \A p, q \in Requests : Holds(p, c) /\ Holds(q, c) => p = q
                /\ \/ passes[c] = 0
                   \/ /\ passes[c] = 1 /\ codes[c] # "unused"
                      /\ \A q \in Requests : ~Holds(q, c)
                BY <5>1 DEF CodeInv
          <5>3. \A q \in Requests : Holds(q, c)' <=> Holds(q, c)  BY <3>1, <4>2
          <5> QED  BY <2>3, <5>2, <5>3
        <4> QED  BY <4>1, <4>2
      <3> QED  BY <2>2, <3>6, <3>7, <3>8 DEF CodeInv
    <2> QED  BY <2>3, <2>4, <2>5
  <1>3. ASSUME NEW r \in Requests, Accepts(r) PROVE TypeInv' /\ CodeInv'
    <2> DEFINE c == work[r].code
    <2>1. c \in Codes /\ Holds(r, c)  BY <1>3 DEF Accepts, CodeInv, Holds
    <2>2. /\ TypeInv' /\ work'[r].phase = "commit"
          /\ \A q \in Requests \ {r} : work'[q] = work[q]
          /\ codes'[c] = "used" /\ passes'[c] = passes[c] + 1
          /\ \A d \in Codes \ {c} : codes'[d] = codes[d] /\ passes'[d] = passes[d]
          BY <1>3, <2>1, AcceptsTyped
    <2>3. UNCHANGED <<issued, contested>>  BY <1>3 DEF Accepts
    <2>4. ~(c > issued.codes)  BY <2>1 DEF CodeInv
    <2>5. \A q \in Requests : \A d \in Codes : Holds(q, d)' => q # r /\ Holds(q, d)
          BY <2>2 DEF Holds
    <2>6. c \notin contested => passes[c] = 0 /\ \A q \in Requests : Holds(q, c) => q = r
          BY <2>1 DEF CodeInv
    <2>7. \A q \in Requests : work'[q].phase = "burn" => work'[q].code \in Codes
          BY <2>2 DEF CodeInv
    <2> HIDE DEF c
    <2>8. \A d \in Codes : d > issued'.codes =>
            codes'[d] = "none" /\ passes'[d] = 0 /\ \A q \in Requests : ~Holds(q, d)'
          BY <2>2, <2>3, <2>4, <2>5 DEF CodeInv
    <2>9. \A d \in Codes \ contested' :
            /\ \A p, q \in Requests : Holds(p, d)' /\ Holds(q, d)' => p = q
            /\ \/ passes'[d] = 0
               \/ /\ passes'[d] = 1 /\ codes'[d] # "unused"
                  /\ \A q \in Requests : ~Holds(q, d)'
          BY <2>2, <2>3, <2>5, <2>6 DEF CodeInv
    <2> QED  BY <2>2, <2>7, <2>8, <2>9 DEF CodeInv
  <1>4. ASSUME NEW r \in Requests, Commits(r) PROVE TypeInv' /\ CodeInv'
    <2>1. /\ TypeInv' /\ work'[r] = NoWork
          /\ \A q \in Requests \ {r} : work'[q] = work[q]
          /\ UNCHANGED <<passes, contested>>
          BY <1>4, CommitsTyped
    <2>2. \A q \in Requests : work'[q].phase = "burn" => work'[q] = work[q]
          BY <2>1, NoWorkTyped
    <2>3. CASE codes' = codes /\ issued'.codes = issued.codes
          BY <2>1, <2>2, <2>3 DEF CodeInv, Holds
    <2>4. CASE /\ issued'.codes = issued.codes + 1 /\ issued'.codes \in Codes
               /\ codes'[issued'.codes] = "unused"
               /\ \A c \in Codes \ {issued'.codes} : codes'[c] = codes[c]
      <3>1. issued.codes \in Nat  BY DEF TypeInv
      <3>2. /\ issued'.codes > issued.codes
            /\ \A c \in Codes : c > issued'.codes => c > issued.codes /\ c # issued'.codes
            BY <2>4, <3>1 DEF Codes
      <3>3. passes[issued'.codes] = 0  BY <2>4, <3>2 DEF CodeInv
      <3> QED  BY <2>1, <2>2, <2>4, <3>2, <3>3 DEF CodeInv, Holds
    <2>5. CASE issued' = issued /\ \A c \in Codes : codes'[c] = "none"
          BY <2>1, <2>2, <2>5 DEF CodeInv, Holds
    <2> QED  BY <1>4, <2>3, <2>4, <2>5, CommitsTyped
  <1> QED  BY <1>1, <1>2, <1>3, <1>4, Shapes

LEMMA InitCodes == Init => CodeInv
  <1> SUFFICES ASSUME Init PROVE CodeInv
      OBVIOUS
  <1>1. PICK n \in {0, 1} :
          /\ issued = [secrets |-> n, codes |-> n]
          /\ codes = [c \in Codes |-> IF c <= n THEN "unused" ELSE "none"]
        BY DEF Init
  <1>2. issued.codes = n /\ \A c \in Codes : c > n => codes[c] = "none"
        BY <1>1 DEF Codes
  <1>3. \A c \in Codes : passes[c] = 0  BY DEF Init
  <1>4. \A r \in Requests : work[r].phase # "burn"  BY NoWorkTyped DEF Init
  <1> QED  BY <1>2, <1>3, <1>4 DEF CodeInv, Holds

\* RecoveryOnce: a recovery code is accepted a second time only if two requests
\* had read it as unused before either used it.
THEOREM RecoveryCodesOnce == Spec => []RecoveryOnce
  <1>1. TypeInv /\ CodeInv => RecoveryOnce
        BY DEF CodeInv, RecoveryOnce, TypeInv
  <1> QED  BY <1>1, InitTyped, InitCodes, StepCodes, PTL DEF Spec

-----------------------------------------------------------------------------
(* The enrolment. *)

\* While no two enrolments have overlapped, the one there is finds the account
\* at its commit as it did when it loaded it.
EnrolInv ==
    clash = FALSE =>
      /\ \A q, r \in Requests :
           work[q].op \in Enrolment /\ work[r].op \in Enrolment => q = r
      /\ \A r \in Requests :
           /\ work[r].op \in {"setup", "activate"} => user.enabled = FALSE
           /\ work[r].op = "activate" => work[r].secret = user.secret
      /\ user.enabled = TRUE => user.secret \in proven
      /\ (\E c \in Codes : codes[c] # "none") => user.enabled = TRUE

\* A step that enrols nobody and issues no code.
LEMMA EnrolFrame ==
    ASSUME TypeInv, EnrolInv, UNCHANGED <<user, proven, clash>>,
           \A q \in Requests : work'[q].op \in Enrolment =>
             work'[q].op = work[q].op /\ work'[q].secret = work[q].secret,
           \A c \in Codes : codes'[c] # "none" => codes[c] # "none"
    PROVE  EnrolInv'
  <1>1. CASE clash = TRUE  BY <1>1 DEF EnrolInv
  <1>2. CASE clash = FALSE  BY <1>2 DEF EnrolInv, Enrolment
  <1> QED  BY <1>1, <1>2 DEF TypeInv

LEMMA StepEnrols == TypeInv /\ CodeInv /\ EnrolInv /\ [Next]_vars => EnrolInv'
  <1> SUFFICES ASSUME TypeInv, CodeInv, EnrolInv, [Next]_vars PROVE EnrolInv'
      OBVIOUS
  <1>1. CASE Quiet
    <2>1. UNCHANGED <<user, proven, clash, codes>>  BY <1>1 DEF Quiet, Kept
    <2>2. \A q \in Requests : work'[q].op \in Enrolment => work'[q] = work[q]
          BY <1>1, NoWorkTyped DEF Quiet, Enrolment
    <2> QED  BY <2>1, <2>2, EnrolFrame
  <1>2. ASSUME NEW r \in Requests, \E op, phase, code : Loads(r, op, phase, code)
        PROVE  EnrolInv'
    <2>1. PICK op, phase, code : Loads(r, op, phase, code)  BY <1>2
    <2>2. /\ work'[r].op = op /\ work'[r].secret = user.secret
          /\ \A q \in Requests \ {r} : work'[q] = work[q]
          /\ clash' = (clash \/ (op \in Enrolment /\ Enrolling # {}))
          BY <2>1, LoadsTyped
    <2>3. /\ UNCHANGED <<user, proven, codes>>
          /\ op \in {"setup", "activate"} => user.enabled = FALSE
          BY <2>1 DEF Loads, Kept
    <2>4. CASE op \notin Enrolment
      <3>1. clash' = clash  BY <2>2, <2>4 DEF TypeInv
      <3> QED  BY <2>2, <2>3, <2>4, <3>1, EnrolFrame
    <2>5. CASE op \in Enrolment
      <3> SUFFICES ASSUME clash' = FALSE PROVE EnrolInv'
          BY DEF EnrolInv
      <3>1. clash = FALSE /\ Enrolling = {}  BY <2>2, <2>5 DEF TypeInv
      <3>2. \A q \in Requests : work[q].op \notin Enrolment  BY <3>1 DEF Enrolling
      <3>3. \A q \in Requests \ {r} : work'[q].op \notin Enrolment  BY <2>2, <3>2
      <3> QED  BY <2>2, <2>3, <3>1, <3>3 DEF EnrolInv, Enrolment
    <2> QED  BY <2>4, <2>5
  <1>3. ASSUME NEW r \in Requests, Accepts(r) PROVE EnrolInv'
    <2>1. work[r].code \in Codes  BY <1>3 DEF Accepts, CodeInv
    <2>2. /\ work'[r].op = work[r].op /\ work'[r].secret = work[r].secret
          /\ \A q \in Requests \ {r} : work'[q] = work[q]
          /\ \A c \in Codes \ {work[r].code} : codes'[c] = codes[c]
          BY <1>3, <2>1, AcceptsTyped
    <2>3. UNCHANGED <<user, proven, clash>> /\ codes[work[r].code] # "none"
          BY <1>3 DEF Accepts
    <2> QED  BY <2>2, <2>3, EnrolFrame
  <1>4. ASSUME NEW r \in Requests, Commits(r) PROVE EnrolInv'
    <2> SUFFICES ASSUME clash' = FALSE PROVE EnrolInv'
        BY DEF EnrolInv
    <2>1. /\ work'[r] = NoWork /\ \A q \in Requests \ {r} : work'[q] = work[q]
          /\ clash = FALSE
          BY <1>4, CommitsTyped
    <2>2. work[r].op \in Enrolment
          BY <1>4 DEF Commits, CommitSetup, CommitActivate, CommitDisable, Enrolment
    <2>3. \A q \in Requests : work'[q].op \notin Enrolment
          BY <2>1, <2>2, NoWorkTyped DEF EnrolInv, Enrolment
    <2>4. CASE work[r].op = "setup" /\ codes' = codes /\ user'.enabled = user.enabled
          BY <2>1, <2>3, <2>4 DEF EnrolInv, Enrolment
    <2>5. CASE CommitActivate(r)
      <3>1. user'.enabled = TRUE
        <4>1. user \in [enabled : BOOLEAN, secret : 0..MaxSecrets]  BY DEF TypeInv
        <4> QED  BY <2>5, <4>1 DEF CommitActivate
      <3>2. user'.secret \in proven'
        <4>1. user \in [enabled : BOOLEAN, secret : 0..MaxSecrets]  BY DEF TypeInv
        <4>2. user'.secret = user.secret  BY <2>5, <4>1 DEF CommitActivate
        <4> QED  BY <2>1, <2>5, <4>2 DEF CommitActivate, EnrolInv
      <3> QED  BY <2>3, <3>1, <3>2 DEF EnrolInv, Enrolment
    <2>6. CASE user'.enabled = FALSE /\ \A c \in Codes : codes'[c] = "none"
          BY <2>3, <2>6 DEF EnrolInv, Enrolment
    <2> QED  BY <1>4, <2>4, <2>5, <2>6, CommitsTyped
             DEF Commits, CommitSetup, CommitActivate, CommitDisable
  <1> QED  BY <1>1, <1>2, <1>3, <1>4, Shapes

\* EnrolmentHolds: an account asks for a second factor only if its user has
\* shown a code of it, unless two enrolment requests overlapped.
THEOREM EnrolmentAlwaysHolds == Spec => []EnrolmentHolds
  <1>1. Init => CodeInv /\ EnrolInv
    <2> SUFFICES ASSUME Init PROVE CodeInv /\ EnrolInv
        OBVIOUS
    <2>1. PICK n \in {0, 1} :
            /\ user = [enabled |-> n = 1, secret |-> n]
            /\ issued = [secrets |-> n, codes |-> n]
            /\ codes = [c \in Codes |-> IF c <= n THEN "unused" ELSE "none"]
            /\ proven = 1..n
          BY DEF Init
    <2>2. issued.codes = n /\ \A c \in Codes : c > n => codes[c] = "none"
          BY <2>1 DEF Codes
    <2>3. \A c \in Codes : passes[c] = 0  BY DEF Init
    <2>4. \A r \in Requests : work[r].phase # "burn" /\ work[r].op = "none"
          BY NoWorkTyped DEF Init
    <2>5. CodeInv  BY InitCodes
    <2>6. CASE n = 0
      <3>1. user.enabled = FALSE
        <4>1. user.enabled = (n = 1)  BY <2>1
        <4>2. (n = 1) = FALSE  BY <2>6
        <4> QED  BY <4>1, <4>2
      <3>2. \A c \in Codes : codes[c] = "none"  BY <2>2, <2>6 DEF Codes
      <3> QED  BY <2>4, <2>5, <3>1, <3>2 DEF EnrolInv, Enrolment
    <2>7. CASE n = 1
      <3>1. user.enabled = TRUE /\ user.secret = 1 /\ proven = 1..1  BY <2>1, <2>7
      <3>2. user.secret \in proven  BY <3>1
      <3> QED  BY <2>4, <2>5, <3>1, <3>2 DEF EnrolInv, Enrolment
    <2> QED  BY <2>6, <2>7
  <1>2. TypeInv /\ EnrolInv => EnrolmentHolds
    <2>1. TypeInv => clash \in BOOLEAN /\ user.enabled \in BOOLEAN  BY DEF TypeInv
    <2> QED  BY <2>1 DEF EnrolInv, EnrolmentHolds
  <1> QED  BY <1>1, <1>2, InitTyped, StepCodes, StepEnrols, PTL DEF Spec

-----------------------------------------------------------------------------
(* The limiter in front of it. *)

AtCalls == {"incr", "expire"}

\* A request calling Redis has a budget left to pass, and has loaded nothing.
GateInv ==
    /\ gate \in [Requests -> Gate]
    /\ hits \in [Budgets -> Nat] /\ ttl \in [Budgets -> Nat]
    /\ \A r \in Requests :
         /\ gate[r].stage \in AtCalls =>
              gate[r].left # <<>> /\ work[r].phase = "gate"
         /\ work[r].phase = "gate" => work[r].op \notin Enrolment
    /\ EveryCountExpires

LEMMA OutsideTyped ==
    Outside \in Gate /\ Outside.stage = "out" /\ LetThrough \in Gate /\ LetThrough.stage = "in"
  BY DEF Outside, LetThrough, Gate

LEMMA PassedTyped ==
    ASSUME NEW r \in Requests, gate \in [Requests -> Gate], gate[r].left # <<>>
    PROVE  /\ Passed(r) \in Gate /\ Budget(r) \in Budgets
           /\ Passed(r).stage \in {"in", "incr"}
           /\ Passed(r).stage = "incr" => Passed(r).left # <<>>
  <1>1. gate[r].left \in Seq(Budgets)  BY DEF Gate
  <1>2. Tail(gate[r].left) \in Seq(Budgets) /\ Head(gate[r].left) \in Budgets
        BY <1>1
  <1> QED  BY <1>2 DEF Passed, Budget, Gate

\* Where a request may go next, its counters aside.
GateMoves(r) ==
    /\ gate' = [gate EXCEPT ![r] = gate'[r]] /\ gate'[r] \in Gate
    /\ gate'[r].stage \in AtCalls => gate'[r].left # <<>>

\* A step at the gate, by the counter it leaves behind.
LEMMA GateSteps ==
    ASSUME GateInv, NEW r \in Requests, AtGate(r) \/ Killed(r)
    PROVE  /\ GateMoves(r) /\ gate[r].stage \in AtCalls
           /\ hits' \in [Budgets -> Nat] /\ ttl' \in [Budgets -> Nat]
           /\ EveryCountExpires'
  <1>1. gate[r].stage \in AtCalls
        BY DEF AtGate, Incr, Expire, RedisFails, Killed, AtCalls
  <1>2. gate[r].left # <<>> /\ gate[r] \in Gate  BY <1>1 DEF GateInv
  <1>3. /\ Passed(r) \in Gate /\ Budget(r) \in Budgets
        /\ Passed(r).stage \in {"in", "incr"}
        /\ Passed(r).stage = "incr" => Passed(r).left # <<>>
        BY <1>2, PassedTyped DEF GateInv
  <1>4. GateMoves(r)
    <2> DEFINE waiting == [gate[r] EXCEPT !.stage = "expire"]
    <2>1. waiting \in Gate /\ waiting.left = gate[r].left  BY <1>2 DEF Gate
    <2>2. gate'[r] \in {waiting, Outside, LetThrough, Passed(r)}
          BY DEF GateInv, AtGate, Incr, Expire, RedisFails, Killed
    <2>3. gate' = [gate EXCEPT ![r] = gate'[r]]
          BY DEF GateInv, AtGate, Incr, Expire, RedisFails, Killed
    <2> QED  BY <1>2, <1>3, <2>1, <2>2, <2>3, OutsideTyped DEF GateMoves, AtCalls
  <1>5. Counted(Budget(r)) \in Nat /\ Window \in Nat \ {0}
        BY <1>3, LimiterAssumption DEF GateInv, Counted
  <1>6. hits' \in [Budgets -> Nat] /\ ttl' \in [Budgets -> Nat]
        BY <1>3, <1>5 DEF GateInv, AtGate, Incr, Expire, RedisFails, Killed
  <1>7. \A k \in Budgets : k # Budget(r) => hits'[k] = hits[k] /\ ttl'[k] = ttl[k]
        BY DEF GateInv, AtGate, Incr, Expire, RedisFails, Killed
  <1>8. orphaned \subseteq orphaned'
        BY DEF AtGate, Incr, Expire, RedisFails, Killed
  <1>9. \A q \in Requests : q # r => gate'[q] = gate[q]
        BY <1>4 DEF GateMoves, GateInv
  <1>10. ASSUME NEW k \in Budgets, k # Budget(r), hits'[k] > 0
         PROVE  \/ ttl'[k] > 0 \/ k \in orphaned'
                \/ \E q \in Requests : gate'[q].stage = "expire" /\ Head(gate'[q].left) = k
    <2>1. \/ ttl[k] > 0 \/ k \in orphaned
          \/ \E q \in Requests : gate[q].stage = "expire" /\ Budget(q) = k
          BY <1>7, <1>10 DEF GateInv, EveryCountExpires
    <2> QED  BY <1>7, <1>8, <1>9, <1>10, <2>1 DEF Budget
  <1>11. ASSUME hits'[Budget(r)] > 0
         PROVE  \/ ttl'[Budget(r)] > 0 \/ Budget(r) \in orphaned'
                \/ \E q \in Requests :
                     gate'[q].stage = "expire" /\ Head(gate'[q].left) = Budget(r)
    <2> DEFINE k == Budget(r)
    <2>1. CASE Expire(r) \/ Killed(r)
          BY <1>3, <1>5, <2>1 DEF GateInv, Expire, Killed
    <2>2. CASE gate[r].stage = "expire" /\ RedisFails(r)
          BY <1>3, <1>5, <2>2 DEF GateInv, RedisFails
    <2>3. ASSUME gate[r].stage = "incr", hits[k] > 0
          PROVE  \/ ttl[k] > 0 \/ k \in orphaned
                 \/ \E q \in Requests :
                      q # r /\ gate[q].stage = "expire" /\ Head(gate[q].left) = k
          BY <1>3, <2>3 DEF GateInv, EveryCountExpires, Budget
    <2>4. CASE gate[r].stage = "incr" /\ (Incr(r) \/ RedisFails(r)) /\ hits[k] > 0
      <3>1. ttl'[k] = ttl[k]  BY <2>4 DEF Incr, RedisFails
      <3> QED  BY <1>8, <1>9, <2>3, <2>4, <3>1
    <2>5. CASE gate[r].stage = "incr" /\ Incr(r) /\ hits[k] = 0
      <3>1. gate'[r].stage = "expire" /\ gate'[r].left = gate[r].left
            BY <1>2, <2>5 DEF GateInv, Incr, Gate
      <3> QED  BY <3>1 DEF Budget
    <2>6. CASE gate[r].stage = "incr" /\ RedisFails(r) /\ hits[k] = 0
          BY <1>11, <2>6 DEF RedisFails
    <2>7. hits[k] \in Nat  BY <1>3 DEF GateInv
    <2>8. \/ Expire(r) \/ Killed(r)
          \/ gate[r].stage = "expire" /\ RedisFails(r)
          \/ gate[r].stage = "incr" /\ (Incr(r) \/ RedisFails(r))
          BY DEF AtGate, Incr, RedisFails
    <2> QED  BY <2>1, <2>2, <2>4, <2>5, <2>6, <2>7, <2>8
  <1> QED  BY <1>1, <1>4, <1>6, <1>10, <1>11 DEF EveryCountExpires, Budget

\* A request that is not calling Redis moves; the limiter does not.
LEMMA BeyondTheGate ==
    ASSUME GateInv, TypeInv, NEW r \in Requests, gate[r].stage \notin AtCalls,
           UNCHANGED limiterVars, NEW w, work' = [work EXCEPT ![r] = w],
           w.phase # "gate"
    PROVE  GateInv'
  BY DEF GateInv, TypeInv, EveryCountExpires, Budget, limiterVars

\* A request that is not calling Redis ends.
LEMMA FinishKeepsGate ==
    ASSUME GateInv, TypeInv, NEW r \in Requests, gate[r].stage \notin AtCalls, Finish(r)
    PROVE  GateInv'
  <1>1. /\ gate' = [gate EXCEPT ![r] = Outside] /\ work' = [work EXCEPT ![r] = NoWork]
        /\ UNCHANGED <<hits, ttl, orphaned>>
        BY DEF Finish, Leave
  <1>2. gate' \in [Requests -> Gate]  BY <1>1, OutsideTyped DEF GateInv
  <1>3. \A q \in Requests : q # r => gate'[q] = gate[q] /\ work'[q] = work[q]
        BY <1>1 DEF GateInv, TypeInv
  <1>4. gate'[r].stage = "out" /\ work'[r].phase # "gate"
        BY <1>1, OutsideTyped, NoWorkTyped DEF GateInv, TypeInv
  <1>5. EveryCountExpires'
        BY <1>1, <1>3 DEF GateInv, EveryCountExpires, Budget, AtCalls
  <1> QED  BY <1>1, <1>2, <1>3, <1>4, <1>5 DEF GateInv, AtCalls

LEMMA LoadPast ==
    ASSUME GateInv, TypeInv, NEW r \in Requests, gate[r].stage \notin AtCalls,
           UNCHANGED limiterVars, NEW op, NEW phase \in {"burn", "commit"}, NEW code,
           Load(r, op, phase, code)
    PROVE  GateInv'
  <1> DEFINE w == [op |-> op, phase |-> phase, secret |-> user.secret, code |-> code]
  <1>1. work' = [work EXCEPT ![r] = w] /\ w.phase # "gate"  BY DEF Load
  <1> HIDE DEF w
  <1> QED  BY <1>1, BeyondTheGate

LEMMA GateInit == Init => GateInv
  <1> SUFFICES ASSUME Init PROVE GateInv
      OBVIOUS
  <1>1. gate \in [Requests -> Gate] /\ \A r \in Requests : gate[r].stage = "out"
        BY OutsideTyped DEF Init, LimiterInit
  <1>2. \A r \in Requests : work[r].phase = "none"  BY NoWorkTyped DEF Init
  <1>3. /\ hits \in [Budgets -> Nat] /\ ttl \in [Budgets -> Nat]
        /\ \A k \in Budgets : hits[k] = 0
        BY DEF Init, LimiterInit
  <1> QED  BY <1>1, <1>2, <1>3 DEF GateInv, AtCalls, EveryCountExpires

LEMMA TickKeepsGate ==
    ASSUME GateInv, Clock
    PROVE  GateInv'
  <1>1. /\ hits' = [k \in Budgets |-> IF ttl[k] = 1 THEN 0 ELSE hits[k]]
        /\ ttl' = [k \in Budgets |-> IF ttl[k] > 0 THEN ttl[k] - 1 ELSE 0]
        /\ UNCHANGED <<gate, orphaned, work>>
        BY DEF Clock, Tick
  <1>2. hits' \in [Budgets -> Nat] /\ ttl' \in [Budgets -> Nat]
        BY <1>1 DEF GateInv
  <1>3. ASSUME NEW k \in Budgets, hits'[k] > 0
        PROVE  hits[k] > 0 /\ (ttl[k] > 0 => ttl'[k] > 0)
        BY <1>1, <1>3 DEF GateInv
  <1>4. EveryCountExpires'
        BY <1>1, <1>3 DEF GateInv, EveryCountExpires, Budget
  <1> QED  BY <1>1, <1>2, <1>4 DEF GateInv

LEMMA StepGate == TypeInv /\ GateInv /\ [Next]_vars => GateInv'
  <1> SUFFICES ASSUME TypeInv, GateInv, [Next]_vars PROVE GateInv'
      OBVIOUS
  <1>1. ASSUME NEW r \in Requests, Attempt(r) PROVE GateInv'
    <2>1. PICK op \in {"password", "mfa"} :
            /\ work' = [work EXCEPT ![r] =
                 [op |-> op, phase |-> "gate", secret |-> 0, code |-> 0]]
            /\ Enforce(r, IF op = "mfa" THEN <<"ip">> ELSE <<"ip", "email">>)
          BY <1>1 DEF Attempt
    <2> DEFINE budgets == IF op = "mfa" THEN <<"ip">> ELSE <<"ip", "email">>
    <2>2. budgets \in Seq(Budgets) /\ budgets # <<>>  BY SignInAssumption
    <2> HIDE DEF budgets
    <2>3. /\ gate' = [gate EXCEPT ![r] = [left |-> budgets, stage |-> "incr"]]
          /\ gate[r] = Outside /\ UNCHANGED <<hits, ttl, orphaned>>
          BY <2>1 DEF Enforce, budgets
    <2>4. gate' \in [Requests -> Gate]  BY <2>2, <2>3 DEF GateInv, Gate
    <2>5. \A q \in Requests : q # r => gate'[q] = gate[q] /\ work'[q] = work[q]
          BY <2>1, <2>3 DEF GateInv, TypeInv
    <2>6. /\ gate'[r].left = budgets /\ work'[r].phase = "gate"
          /\ work'[r].op \notin Enrolment
          BY <2>1, <2>3 DEF GateInv, TypeInv, Enrolment
    <2>7. EveryCountExpires'
          BY <2>3, <2>5, OutsideTyped DEF GateInv, EveryCountExpires, Budget
    <2> QED  BY <2>2, <2>3, <2>4, <2>5, <2>6, <2>7 DEF GateInv
  <1>2. ASSUME NEW r \in Requests, Enrol(r) PROVE GateInv'
    <2>1. gate[r].stage \notin AtCalls
          BY <1>2, NoWorkTyped DEF Enrol, GateInv
    <2>2. \E op, phase, code : phase \in {"burn", "commit"} /\ Load(r, op, phase, code)
          BY <1>2 DEF Enrol, Setup, Activate, Verify
    <2> QED  BY <1>2, <2>1, <2>2, LoadPast DEF Enrol
  <1>3. ASSUME NEW r \in Requests, Throttle(r) PROVE GateInv'
    <2>1. /\ GateMoves(r) /\ gate[r].stage \in AtCalls
          /\ hits' \in [Budgets -> Nat] /\ ttl' \in [Budgets -> Nat]
          /\ EveryCountExpires'
          BY <1>3, GateSteps DEF Throttle
    <2>2. /\ gate' \in [Requests -> Gate]
          /\ \A q \in Requests : q # r => gate'[q] = gate[q]
          BY <2>1 DEF GateMoves, GateInv
    <2>3. CASE gate'[r] = Outside /\ work' = [work EXCEPT ![r] = NoWork]
      <3>1. gate'[r].stage \notin AtCalls /\ work'[r].phase # "gate"
            BY <2>3, OutsideTyped, NoWorkTyped DEF AtCalls, TypeInv
      <3>2. \A q \in Requests : q # r => work'[q] = work[q]
            BY <2>3 DEF TypeInv
      <3> QED  BY <2>1, <2>2, <3>1, <3>2 DEF GateInv
    <2>4. CASE work' = work
      <3>1. work[r].phase = "gate"  BY <1>3 DEF Throttle
      <3>2. gate'[r].stage \in AtCalls => gate'[r].left # <<>>  BY <2>1 DEF GateMoves
      <3> QED  BY <2>1, <2>2, <2>4, <3>1, <3>2 DEF GateInv
    <2> QED  BY <1>3, <2>3, <2>4 DEF Throttle
  <1>4. ASSUME NEW r \in Requests, Refused(r) PROVE GateInv'
        BY <1>4, FinishKeepsGate DEF Refused, AtCalls
  <1>5. ASSUME NEW r \in Requests, PasswordLogin(r) PROVE GateInv'
    <2>1. gate[r].stage \notin AtCalls  BY <1>5 DEF PasswordLogin, Admitted, AtCalls
    <2>2. \/ Finish(r)
          \/ UNCHANGED limiterVars /\ Load(r, "password", "commit", 0)
          BY <1>5 DEF PasswordLogin
    <2> QED  BY <2>1, <2>2, FinishKeepsGate, LoadPast
  <1>6. ASSUME NEW r \in Requests, MfaLogin(r) PROVE GateInv'
    <2>1. gate[r].stage \notin AtCalls  BY <1>6 DEF MfaLogin, Admitted, AtCalls
    <2>2. \E phase, code : phase \in {"burn", "commit"} /\ Load(r, "mfa", phase, code)
          BY <1>6 DEF MfaLogin, Verify
    <2> QED  BY <1>6, <2>1, <2>2, LoadPast DEF MfaLogin
  <1>7. ASSUME NEW r \in Requests, Burn(r) PROVE GateInv'
    <2>1. gate[r].stage \notin AtCalls  BY <1>7 DEF Burn, GateInv
    <2>2. CASE Finish(r)  BY <2>1, <2>2, FinishKeepsGate
    <2>3. CASE ~Finish(r)
      <3> DEFINE w == [op |-> work[r].op, phase |-> "commit",
                       secret |-> work[r].secret, code |-> 0]
      <3>1. /\ UNCHANGED limiterVars /\ work' = [work EXCEPT ![r] = w]
            /\ w.phase # "gate"
            BY <1>7, <2>3 DEF Burn
      <3> HIDE DEF w
      <3> QED  BY <2>1, <3>1, BeyondTheGate
    <2> QED  BY <2>2, <2>3
  <1>8. ASSUME NEW r \in Requests, CommitEnrolment(r) PROVE GateInv'
    <2>1. work[r].op \in Enrolment /\ Finish(r)
          BY <1>8 DEF CommitEnrolment, CommitSetup, CommitActivate, CommitDisable, Enrolment
    <2>2. gate[r].stage \notin AtCalls  BY <2>1 DEF GateInv
    <2> QED  BY <2>1, <2>2, FinishKeepsGate
  <1>9. ASSUME NEW r \in Requests, OpenSession(r) \/ Fail(r) PROVE GateInv'
    <2>1. gate[r].stage \notin AtCalls /\ Finish(r)
          BY <1>9 DEF OpenSession, Fail, GateInv
    <2> QED  BY <2>1, FinishKeepsGate
  <1>10. CASE Clock  BY <1>10, TickKeepsGate
  <1>11. CASE UNCHANGED vars
         BY <1>11 DEF vars, limiterVars, GateInv, EveryCountExpires, Budget
  <1> QED  BY <1>1, <1>2, <1>3, <1>4, <1>5, <1>6, <1>7, <1>8, <1>9, <1>10, <1>11
           DEF Next, Handle

\* The safety under ThrottleLifts: no budget stays spent for want of an expiry,
\* unless Redis failed or the process stopped before it was set.
THEOREM CountersAlwaysExpire == Spec => []EveryCountExpires
  <1>1. GateInv => EveryCountExpires  BY DEF GateInv
  <1> QED  BY <1>1, InitTyped, InitCodes, StepCodes, GateInit, StepGate, PTL DEF Spec
=============================================================================
