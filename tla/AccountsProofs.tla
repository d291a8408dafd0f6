--------------------------- MODULE AccountsProofs ---------------------------
(***************************************************************************)
(* Theorems about Accounts, for every set of emails, roles and requests,   *)
(* and however the requests overlap.                                       *)
(*                                                                         *)
(* TypeInv says what rows and requests are; InviteInv, FlowInv, CapInv and *)
(* StandingInv what a request relies on between its reads and its commit.  *)
(***************************************************************************)
EXTENDS Accounts, FiniteSetTheorems, TLAPS

AnyRole == {"viewer", "operator", "admin", "none"}
Row == [email : Emails, kind : {"person", "service"}, platform : AnyRole,
        member : AnyRole, invite : Nat]
Invite == [email : Emails, role : Roles, scope : {"workspace", "platform"},
           used : BOOLEAN, expired : BOOLEAN]
Key == [account : Nat, revoked : BOOLEAN]
Ops == {"none", "redeem", "create", "service", "sso", "mint", "revoke", "call"}
Phases == {"none", "insert", "provider", "session", "commit", "stamp", "workspace", "act"}
Job == [op : Ops, phase : Phases, at : Nat, row : Row \cup {<<>>}, role : AnyRole]

\* A request that inserts has a row, one that uses a key or an account has one
\* that exists.
JobOK(j) ==
    /\ j.phase = "insert" => j.row \in Row /\ j.op \in {"redeem", "create", "service", "sso"}
    /\ j.op = "sso" => j.phase \in {"provider", "insert", "session"} /\ j.row \in Row
                       /\ j.at \in 1..MaxFlows
    /\ j.op = "redeem" => j.phase = "insert" /\ j.at \in DOMAIN invites
    /\ j.op \in {"create", "service"} => j.phase = "insert"
    /\ j.op = "mint" => j.phase = "commit" /\ j.at \in DOMAIN accounts
    /\ j.op = "revoke" => j.phase = "commit" /\ j.at \in DOMAIN keys
    /\ j.op = "call" => j.phase \in {"stamp", "workspace", "act"} /\ j.at \in DOMAIN keys
    /\ j.op = "none" => j = Idle

TypeInv ==
    /\ accounts \in Seq(Row) /\ invites \in Seq(Invite)
    /\ keys \in Seq(Key) /\ \A k \in DOMAIN keys : keys[k].account \in DOMAIN accounts
    /\ flows \subseteq 1..MaxFlows /\ opened \in [1..MaxFlows -> Nat]
    /\ work \in [Requests -> Job] /\ \A r \in Requests : JobOK(work[r])

-----------------------------------------------------------------------------
(* Type correctness. *)

LEMMA IdleTyped == /\ Idle \in Job /\ JobOK(Idle)
                   /\ Idle.op = "none" /\ Idle.phase = "none"
  BY DEF Idle, Job, JobOK, Ops, Phases, AnyRole

LEMMA RowTyped ==
    ASSUME NEW e \in Emails, NEW k \in {"person", "service"}, NEW p \in AnyRole,
           NEW m \in AnyRole, NEW i \in Nat
    PROVE  /\ Account(e, k, p, m, i) \in Row
           /\ Account(e, k, p, m, i).email = e /\ Account(e, k, p, m, i).invite = i
           /\ Account(e, k, p, m, i).platform = p /\ Account(e, k, p, m, i).member = m
           /\ Account(e, k, p, m, i).kind = k
  BY DEF Account, Row

LEMMA RoleTyped == Roles \subseteq AnyRole /\ "none" \in AnyRole /\ "viewer" \in AnyRole
                   /\ MaxServiceRole \subseteq AnyRole
  BY AccountsAssumption DEF AnyRole, MaxServiceRole

\* A request that begins leaves the tables alone.
LEMMA BeginTyped ==
    ASSUME TypeInv, NEW r \in Requests, NEW op, NEW phase, NEW at, NEW row, NEW role,
           Begin(r, op, phase, at, row, role),
           UNCHANGED <<accounts, invites, keys, opened>>, flows' \subseteq flows,
           [op |-> op, phase |-> phase, at |-> at, row |-> row, role |-> role] \in Job,
           JobOK([op |-> op, phase |-> phase, at |-> at, row |-> row, role |-> role])
    PROVE  TypeInv'
  <1> DEFINE j == [op |-> op, phase |-> phase, at |-> at, row |-> row, role |-> role]
  <1> HIDE DEF j
  <1>1. work' = [work EXCEPT ![r] = j]  BY DEF Begin, j
  <1>2. j \in Job /\ JobOK(j)  BY DEF j
  <1>3. work' \in [Requests -> Job] /\ \A q \in Requests : work'[q] = j \/ work'[q] = work[q]
        BY <1>1, <1>2 DEF TypeInv
  <1>4. \A q \in Requests : JobOK(work[q])'
    <2>1. \A x : JobOK(x)' <=> JobOK(x)  BY DEF JobOK
    <2> QED  BY <1>2, <1>3, <2>1 DEF TypeInv
  <1> QED  BY <1>3, <1>4 DEF TypeInv

\* Rows and keys are only ever added, and requests that end are idle.
LEMMA FinishTyped ==
    ASSUME TypeInv, NEW r \in Requests, Finish(r),
           DOMAIN accounts \subseteq DOMAIN accounts', DOMAIN keys \subseteq DOMAIN keys',
           DOMAIN invites \subseteq DOMAIN invites'
    PROVE  work' \in [Requests -> Job] /\ \A q \in Requests : JobOK(work[q])'
  <1>1. work' \in [Requests -> Job] /\ \A q \in Requests : work'[q] = Idle \/ work'[q] = work[q]
        BY IdleTyped DEF Finish, TypeInv
  <1>2. \A q \in Requests : JobOK(work[q])'
        BY <1>1, IdleTyped DEF TypeInv, JobOK, Idle
  <1> QED  BY <1>1, <1>2

LEMMA InitTyped == Init => TypeInv
  <1> SUFFICES ASSUME Init PROVE TypeInv
      OBVIOUS
  <1>1. (CHOOSE e \in Emails : TRUE) \in Emails  BY AccountsAssumption
  <1>2. accounts \in Seq(Row) /\ DOMAIN accounts = {1}
    <2> DEFINE row == Account(CHOOSE e \in Emails : TRUE, "service", "none", "operator", 0)
    <2>1. row \in Row  BY <1>1, RowTyped DEF AnyRole
    <2> HIDE DEF row
    <2>2. accounts = <<row>>  BY DEF Init, row
    <2> QED  BY <2>1, <2>2
  <1>3. keys \in Seq(Key) /\ \A k \in DOMAIN keys : keys[k].account = 1
        BY DEF Init, Key
  <1>4. invites \in Seq(Invite) /\ flows \subseteq 1..MaxFlows /\ opened \in [1..MaxFlows -> Nat]
        BY DEF Init
  <1>5. work \in [Requests -> Job] /\ \A r \in Requests : JobOK(work[r])
        BY IdleTyped DEF Init
  <1> QED  BY <1>2, <1>3, <1>4, <1>5 DEF TypeInv

\* Requests that are looking a user up, or acting with a key, go on.
LEMMA OnTyped ==
    ASSUME TypeInv, NEW r \in Requests, NEW j \in Job, JobOK(j),
           work' = [work EXCEPT ![r] = j], UNCHANGED <<stored, history>>
    PROVE  TypeInv'
  <1>1. work' \in [Requests -> Job] /\ \A q \in Requests : work'[q] = j \/ work'[q] = work[q]
        BY DEF TypeInv
  <1>2. \A x : JobOK(x)' <=> JobOK(x)  BY DEF JobOK, stored
  <1>3. \A q \in Requests : JobOK(work[q])'
        BY <1>1, <1>2 DEF TypeInv
  <1> QED  BY <1>1, <1>3 DEF TypeInv, stored, history

LEMMA InvitedTyped ==
    ASSUME TypeInv, NEW i \in DOMAIN invites
    PROVE  /\ i \in Nat /\ invites[i] \in Invite /\ Invited(i) \in Row
           /\ Invited(i).email = invites[i].email /\ Invited(i).invite = i
           /\ Invited(i).kind = "person"
           /\ invites[i].role = IF invites[i].scope = "workspace"
                                  THEN Invited(i).member ELSE Invited(i).platform
  <1> DEFINE v == invites[i]
             p == IF v.scope = "platform" THEN v.role ELSE "none"
             m == IF v.scope = "workspace" THEN v.role ELSE "none"
  <1>1. i \in Nat /\ v \in Invite  BY DEF TypeInv
  <1>2. /\ v.email \in Emails /\ v.role \in AnyRole
        /\ v.scope \in {"workspace", "platform"}
        BY <1>1, RoleTyped DEF Invite
  <1>3. p \in AnyRole /\ m \in AnyRole  BY <1>2, RoleTyped
  <1>4. Invited(i) = Account(v.email, "person", p, m, i)  BY DEF Invited
  <1>5. v.role = IF v.scope = "workspace" THEN m ELSE p  BY <1>2
  <1> HIDE DEF p, m, v
  <1>6. /\ Invited(i) \in Row /\ Invited(i).email = v.email /\ Invited(i).invite = i
        /\ Invited(i).platform = p /\ Invited(i).member = m /\ Invited(i).kind = "person"
        BY <1>1, <1>2, <1>3, <1>4, RowTyped
  <1> QED  BY <1>1, <1>5, <1>6 DEF v

\* What an insert leaves, if its email is not taken.
LEMMA InsertTyped ==
    ASSUME TypeInv, NEW r \in Requests, Insert(r), ~Taken(work[r].row.email)
    PROVE  /\ accounts' = Append(accounts, work[r].row) /\ work[r].row \in Row
           /\ accounts' \in Seq(Row) /\ DOMAIN accounts' = 1..(Len(accounts) + 1)
           /\ accounts'[Len(accounts) + 1] = work[r].row
           /\ DOMAIN accounts = 1..Len(accounts) /\ Len(accounts) \in Nat
           /\ \A a \in DOMAIN accounts : accounts'[a] = accounts[a]
           /\ invites' = IF work[r].op = "redeem"
                           THEN [invites EXCEPT ![work[r].at].used = TRUE] ELSE invites
           /\ Opened(r) /\ Finish(r) /\ work[r].phase = "insert"
           /\ UNCHANGED <<keys, flows, granted>>
  <1>1. /\ accounts' = Append(accounts, work[r].row) /\ Opened(r) /\ Finish(r)
        /\ work[r].phase = "insert" /\ UNCHANGED <<keys, flows, granted>>
        /\ invites' = IF work[r].op = "redeem"
                        THEN [invites EXCEPT ![work[r].at].used = TRUE] ELSE invites
        BY DEF Insert, Inserted
  <1>2. work[r].row \in Row /\ accounts \in Seq(Row)  BY <1>1 DEF TypeInv, JobOK
  <1> QED  BY <1>1, <1>2

LEMMA OpenedTyped ==
    ASSUME TypeInv, NEW r \in Requests, Opened(r)
    PROVE  opened' \in [1..MaxFlows -> Nat]
  <1>1. CASE work[r].op = "sso"
    <2>1. work[r].at \in 1..MaxFlows  BY <1>1 DEF TypeInv, JobOK
    <2>2. opened[work[r].at] + 1 \in Nat  BY <2>1 DEF TypeInv
    <2>3. opened' = [opened EXCEPT ![work[r].at] = opened[work[r].at] + 1]
          BY <1>1 DEF Opened
    <2> QED  BY <2>2, <2>3 DEF TypeInv
  <1>2. CASE work[r].op # "sso"  BY <1>2 DEF Opened, TypeInv
  <1> QED  BY <1>1, <1>2

LEMMA StepTyped == TypeInv /\ [Next]_vars => TypeInv'
  <1> SUFFICES ASSUME TypeInv, [Next]_vars PROVE TypeInv'
      OBVIOUS
  <1> USE DEF Ops, Phases
  <1>1. CASE CreateInvite
    <2>1. PICK e \in Emails, role \in Roles, scope \in {"workspace", "platform"} :
            invites' = Append(invites, [email |-> e, role |-> role, scope |-> scope,
                                        used |-> FALSE, expired |-> FALSE])
          BY <1>1 DEF CreateInvite
    <2>2. invites' \in Seq(Invite) /\ DOMAIN invites \subseteq DOMAIN invites'
          BY <2>1 DEF TypeInv, Invite
    <2> QED  BY <1>1, <2>2 DEF CreateInvite, TypeInv, JobOK, history
  <1>2. CASE Lapse
    <2>1. PICK i \in DOMAIN invites : invites' = [invites EXCEPT ![i].expired = TRUE]
          BY <1>2 DEF Lapse
    <2>2. invites' \in Seq(Invite) /\ DOMAIN invites' = DOMAIN invites
      <3>1. invites[i] \in Invite  BY DEF TypeInv
      <3>2. [invites[i] EXCEPT !.expired = TRUE] \in Invite  BY <3>1 DEF Invite
      <3> QED  BY <2>1, <3>2 DEF TypeInv
    <2> QED  BY <1>2, <2>2 DEF Lapse, TypeInv, JobOK, history
  <1>3. CASE Grant
    <2>1. PICK a \in DOMAIN accounts, role \in Roles \cup {"none"} :
            \/ accounts' = [accounts EXCEPT ![a].platform = role]
            \/ accounts' = [accounts EXCEPT ![a].member = role]
          BY <1>3 DEF Grant
    <2>2. role \in AnyRole  BY RoleTyped
    <2>3. /\ [accounts[a] EXCEPT !.platform = role] \in Row
          /\ [accounts[a] EXCEPT !.member = role] \in Row
      <3>1. accounts[a] \in Row  BY DEF TypeInv
      <3> QED  BY <2>2, <3>1 DEF Row
    <2>4. accounts' \in Seq(Row) /\ DOMAIN accounts' = DOMAIN accounts
      <3>1. PICK row \in Row : accounts' = [accounts EXCEPT ![a] = row]
            BY <2>1, <2>3
      <3> QED  BY <3>1 DEF TypeInv
    <2> QED  BY <1>3, <2>4 DEF Grant, TypeInv, JobOK
  <1>4. CASE BeginSSO
        BY <1>4 DEF BeginSSO, TypeInv, JobOK, history
  <1>5. ASSUME NEW r \in Requests, Redeem(r) PROVE TypeInv'
    <2>1. PICK i \in DOMAIN invites : Begin(r, "redeem", "insert", i, Invited(i), "none")
          BY <1>5 DEF Redeem
    <2>2. i \in Nat /\ Invited(i) \in Row  BY InvitedTyped
    <2> DEFINE j == [op |-> "redeem", phase |-> "insert", at |-> i, row |-> Invited(i),
                     role |-> "none"]
    <2>3. j \in Job /\ JobOK(j)  BY <2>2 DEF Job, JobOK, AnyRole
    <2> QED  BY <1>5, <2>1, <2>3, BeginTyped DEF Redeem, stored, history
  <1>6. ASSUME NEW r \in Requests, CreateUser(r) PROVE TypeInv'
    <2>1. PICK e \in Emails, role \in Roles :
            Begin(r, "create", "insert", 0, Account(e, "person", role, "none", 0), "none")
          BY <1>6 DEF CreateUser
    <2>2. Account(e, "person", role, "none", 0) \in Row  BY RoleTyped, RowTyped
    <2> DEFINE j == [op |-> "create", phase |-> "insert", at |-> 0,
                     row |-> Account(e, "person", role, "none", 0), role |-> "none"]
    <2>3. j \in Job /\ JobOK(j)  BY <2>2 DEF Job, JobOK, AnyRole
    <2> QED  BY <1>6, <2>1, <2>3, BeginTyped DEF CreateUser, stored, history
  <1>7. ASSUME NEW r \in Requests, CreateServiceAccount(r) PROVE TypeInv'
    <2>1. PICK e \in Emails, role \in MaxServiceRole :
            Begin(r, "service", "insert", 0, Account(e, "service", "none", role, 0), "none")
          BY <1>7 DEF CreateServiceAccount
    <2>2. Account(e, "service", "none", role, 0) \in Row  BY RoleTyped, RowTyped
    <2> DEFINE j == [op |-> "service", phase |-> "insert", at |-> 0,
                     row |-> Account(e, "service", "none", role, 0), role |-> "none"]
    <2>3. j \in Job /\ JobOK(j)  BY <2>2 DEF Job, JobOK, AnyRole
    <2> QED  BY <1>7, <2>1, <2>3, BeginTyped DEF CreateServiceAccount, stored, history
  <1>8. ASSUME NEW r \in Requests, Insert(r) PROVE TypeInv'
    <2>1. CASE Taken(work[r].row.email)
          BY <1>8, <2>1, FinishTyped DEF Insert, TypeInv
    <2>2. CASE ~Taken(work[r].row.email)
      <3>1. /\ accounts' \in Seq(Row) /\ DOMAIN accounts \subseteq DOMAIN accounts'
            /\ UNCHANGED <<keys, flows>> /\ Finish(r)
        <4>1. /\ accounts' \in Seq(Row) /\ DOMAIN accounts' = 1..(Len(accounts) + 1)
              /\ DOMAIN accounts = 1..Len(accounts) /\ Len(accounts) \in Nat
              BY <1>8, <2>2, InsertTyped
        <4>2. UNCHANGED <<keys, flows>> /\ Finish(r)  BY <1>8, <2>2, InsertTyped
        <4> QED  BY <4>1, <4>2
      <3>2. invites' \in Seq(Invite) /\ DOMAIN invites' = DOMAIN invites
        <4>1. CASE work[r].op = "redeem"
          <5>1. work[r].at \in DOMAIN invites  BY <4>1 DEF TypeInv, JobOK
          <5>2. invites[work[r].at] \in Invite  BY <5>1 DEF TypeInv
          <5>3. [invites[work[r].at] EXCEPT !.used = TRUE] \in Invite
                BY <5>2 DEF Invite
          <5>4. invites' = [invites EXCEPT ![work[r].at].used = TRUE]
                BY <1>8, <2>2, <4>1, InsertTyped
          <5> QED  BY <5>1, <5>3, <5>4 DEF TypeInv
        <4>2. CASE work[r].op # "redeem"
          <5>1. invites' = invites  BY <1>8, <2>2, <4>2, InsertTyped
          <5> QED  BY <5>1 DEF TypeInv
        <4> QED  BY <4>1, <4>2
      <3>3. opened' \in [1..MaxFlows -> Nat]
        <4>1. Opened(r)  BY <1>8, <2>2, InsertTyped
        <4> QED  BY <4>1, OpenedTyped
      <3> QED  BY <3>1, <3>2, <3>3, FinishTyped DEF TypeInv
    <2> QED  BY <2>1, <2>2
  <1>9. ASSUME NEW r \in Requests, CompleteSSO(r) PROVE TypeInv'
    <2>1. PICK f \in flows, e \in Emails :
            /\ TakeState(f)
            /\ Begin(r, "sso", "provider", f, Account(e, "person", "viewer", "none", 0), "none")
          BY <1>9 DEF CompleteSSO
    <2>2. Account(e, "person", "viewer", "none", 0) \in Row /\ f \in 1..MaxFlows /\ f \in Nat
          BY RoleTyped, RowTyped DEF TypeInv
    <2> DEFINE j == [op |-> "sso", phase |-> "provider", at |-> f,
                     row |-> Account(e, "person", "viewer", "none", 0), role |-> "none"]
    <2>3. j \in Job /\ JobOK(j)  BY <2>2 DEF Job, JobOK, AnyRole
    <2>4. flows' \subseteq flows  BY <2>1 DEF TakeState
    <2> QED  BY <1>9, <2>1, <2>3, <2>4, BeginTyped DEF CompleteSSO, stored, history
  <1>10. ASSUME NEW r \in Requests, Vouched(r) PROVE TypeInv'
    <2> DEFINE p == IF Taken(work[r].row.email) THEN "session" ELSE "insert"
               j == [work[r] EXCEPT !.phase = p]
    <2>1. work[r] \in Job /\ JobOK(work[r]) /\ work[r].op = "sso"
          BY <1>10 DEF Vouched, At, TypeInv
    <2>2. p \in {"session", "insert"}  OBVIOUS
    <2> HIDE DEF p
    <2>3. j \in Job /\ JobOK(j)  BY <2>1, <2>2 DEF Job, JobOK
    <2>4. work' = [work EXCEPT ![r] = j]  BY <1>10 DEF Vouched, p
    <2> HIDE DEF j
    <2> QED  BY <1>10, <2>3, <2>4, OnTyped DEF Vouched
  <1>11. ASSUME NEW r \in Requests, OpenSession(r) PROVE TypeInv'
    <2>1. opened' \in [1..MaxFlows -> Nat]  BY <1>11, OpenedTyped DEF OpenSession
    <2> QED  BY <1>11, <2>1, FinishTyped DEF OpenSession, TypeInv, stored
  <1>12. ASSUME NEW r \in Requests, Mint(r) PROVE TypeInv'
    <2>1. PICK a \in DOMAIN accounts : Begin(r, "mint", "commit", a, <<>>, "none")
          BY <1>12 DEF Mint
    <2>2. a \in Nat  BY DEF TypeInv
    <2> DEFINE j == [op |-> "mint", phase |-> "commit", at |-> a, row |-> <<>>, role |-> "none"]
    <2>3. j \in Job /\ JobOK(j)  BY <2>2 DEF Job, JobOK, AnyRole
    <2> QED  BY <1>12, <2>1, <2>3, BeginTyped DEF Mint, stored, history
  <1>13. ASSUME NEW r \in Requests, CommitMint(r) PROVE TypeInv'
    <2>1. /\ work[r].at \in DOMAIN accounts /\ work[r].at \in Nat
          BY <1>13 DEF CommitMint, At, TypeInv, JobOK, Job
    <2>2. /\ keys' = Append(keys, [account |-> work[r].at, revoked |-> FALSE])
          /\ [account |-> work[r].at, revoked |-> FALSE] \in Key
          BY <1>13, <2>1 DEF CommitMint, Key
    <2>3. /\ keys' \in Seq(Key) /\ DOMAIN keys \subseteq DOMAIN keys'
          /\ \A k \in DOMAIN keys' : keys'[k].account \in DOMAIN accounts
          BY <2>1, <2>2 DEF TypeInv
    <2> QED  BY <1>13, <2>3, FinishTyped DEF CommitMint, TypeInv, history
  <1>14. ASSUME NEW r \in Requests, Revoke(r) PROVE TypeInv'
    <2>1. PICK k \in DOMAIN keys : Begin(r, "revoke", "commit", k, <<>>, "none")
          BY <1>14 DEF Revoke
    <2>2. k \in Nat  BY DEF TypeInv
    <2> DEFINE j == [op |-> "revoke", phase |-> "commit", at |-> k, row |-> <<>>, role |-> "none"]
    <2>3. j \in Job /\ JobOK(j)  BY <2>2 DEF Job, JobOK, AnyRole
    <2> QED  BY <1>14, <2>1, <2>3, BeginTyped DEF Revoke, stored, history
  <1>15. ASSUME NEW r \in Requests, CommitRevoke(r) PROVE TypeInv'
    <2>1. work[r].at \in DOMAIN keys  BY <1>15 DEF CommitRevoke, At, TypeInv, JobOK
    <2>2. /\ [keys[work[r].at] EXCEPT !.revoked = TRUE] \in Key
          /\ [keys[work[r].at] EXCEPT !.revoked = TRUE].account = keys[work[r].at].account
      <3>1. keys[work[r].at] \in Key  BY <2>1 DEF TypeInv
      <3> QED  BY <3>1 DEF Key
    <2>3. /\ keys' \in Seq(Key) /\ DOMAIN keys' = DOMAIN keys
          /\ \A k \in DOMAIN keys : keys'[k].account = keys[k].account
          BY <1>15, <2>1, <2>2 DEF CommitRevoke, TypeInv
    <2> QED  BY <1>15, <2>3, FinishTyped DEF CommitRevoke, TypeInv, history
  <1>16. ASSUME NEW r \in Requests, Authenticate(r) PROVE TypeInv'
    <2>1. PICK k \in DOMAIN keys :
            Begin(r, "call", "stamp", k, <<>>, accounts[keys[k].account].platform)
          BY <1>16 DEF Authenticate
    <2>2. k \in Nat /\ accounts[keys[k].account].platform \in AnyRole
      <3>1. accounts[keys[k].account] \in Row  BY DEF TypeInv
      <3> QED  BY <3>1 DEF TypeInv, Row
    <2> DEFINE j == [op |-> "call", phase |-> "stamp", at |-> k, row |-> <<>>,
                     role |-> accounts[keys[k].account].platform]
    <2>3. j \in Job /\ JobOK(j)  BY <2>2 DEF Job, JobOK
    <2> QED  BY <1>16, <2>1, <2>3, BeginTyped DEF Authenticate, stored, history
  <1>17. ASSUME NEW r \in Requests, Stamp(r) PROVE TypeInv'
    <2> DEFINE j == [work[r] EXCEPT !.phase = "workspace"]
    <2>1. work[r] \in Job /\ JobOK(work[r]) /\ work[r].op = "call"
          BY <1>17 DEF Stamp, At, TypeInv
    <2>2. j \in Job /\ JobOK(j)  BY <2>1 DEF Job, JobOK
    <2>3. work' = [work EXCEPT ![r] = j]  BY <1>17 DEF Stamp
    <2> HIDE DEF j
    <2> QED  BY <1>17, <2>2, <2>3, OnTyped DEF Stamp
  <1>18. ASSUME NEW r \in Requests, Authorise(r) PROVE TypeInv'
    <2>1. PICK role :
            /\ role \in AnyRole
            /\ work' = [work EXCEPT ![r] = [op |-> "call", phase |-> "act", at |-> work[r].at,
                                           row |-> work[r].row, role |-> role]]
      <3>1. work[r].role \in AnyRole  BY DEF TypeInv, Job
      <3>2. \A s : Highest(s) \in AnyRole  BY DEF Highest, AnyRole
      <3> QED  BY <1>18, <3>1, <3>2 DEF Authorise
    <2>2. work[r] \in Job /\ JobOK(work[r]) /\ work[r].op = "call"
          BY <1>18 DEF Authorise, At, TypeInv
    <2> DEFINE j == [op |-> "call", phase |-> "act", at |-> work[r].at, row |-> work[r].row,
                     role |-> role]
    <2>3. j \in Job /\ JobOK(j)  BY <2>1, <2>2 DEF Job, JobOK
    <2> QED  BY <1>18, <2>1, <2>3, OnTyped DEF Authorise
  <1>19. ASSUME NEW r \in Requests, End(r) PROVE TypeInv'
         BY <1>19, FinishTyped DEF End, TypeInv, stored, history
  <1>20. CASE UNCHANGED vars
         BY <1>20 DEF vars, stored, history, TypeInv, JobOK
  <1> QED  BY <1>1, <1>2, <1>3, <1>4, <1>5, <1>6, <1>7, <1>8, <1>9, <1>10, <1>11, <1>12,
              <1>13, <1>14, <1>15, <1>16, <1>17, <1>18, <1>19, <1>20 DEF Next, Handle

\* Rows and what each request carries are always well formed.
THEOREM AccountsTyped == Spec => []TypeInv
  BY InitTyped, StepTyped, PTL DEF Spec

-----------------------------------------------------------------------------
(* Revocation. *)

LEMMA StepRevoked ==
    TypeInv /\ [Next]_vars => \A k \in DOMAIN keys : keys[k].revoked => keys'[k].revoked
  <1> SUFFICES ASSUME TypeInv, [Next]_vars, NEW k \in DOMAIN keys, keys[k].revoked
               PROVE  keys'[k].revoked
      OBVIOUS
  <1>1. CASE keys' = keys  BY <1>1
  <1>2. ASSUME NEW r \in Requests, CommitMint(r) PROVE keys'[k].revoked
        BY <1>2 DEF CommitMint, TypeInv
  <1>3. ASSUME NEW r \in Requests, CommitRevoke(r) PROVE keys'[k].revoked
    <2> DEFINE n == [keys[work[r].at] EXCEPT !.revoked = TRUE]
    <2>1. work[r].at \in DOMAIN keys  BY <1>3 DEF CommitRevoke, At, TypeInv, JobOK
    <2>2. keys[work[r].at] \in Key  BY <2>1 DEF TypeInv
    <2>3. n.revoked  BY <2>2 DEF Key
    <2>4. keys' = [keys EXCEPT ![work[r].at] = n]  BY <1>3 DEF CommitRevoke
    <2> HIDE DEF n
    <2>5. keys'[k] = keys[k] \/ keys'[k] = n  BY <2>4 DEF TypeInv
    <2> QED  BY <2>3, <2>5
  <1>4. ASSUME NEW r \in Requests,
               \/ Redeem(r) \/ CreateUser(r) \/ CreateServiceAccount(r) \/ Insert(r)
               \/ CompleteSSO(r) \/ Vouched(r) \/ OpenSession(r) \/ Mint(r) \/ Revoke(r)
               \/ Authenticate(r) \/ Stamp(r) \/ Authorise(r) \/ End(r)
        PROVE  keys' = keys
        BY <1>4 DEF Redeem, CreateUser, CreateServiceAccount, Insert, CompleteSSO, Vouched,
           OpenSession, Mint, Revoke, Authenticate, Stamp, Authorise, End, stored
  <1>5. CASE CreateInvite \/ Lapse \/ Grant \/ BeginSSO
        BY <1>1, <1>5 DEF CreateInvite, Lapse, Grant, BeginSSO
  <1>6. CASE UNCHANGED vars  BY <1>1, <1>6 DEF vars, stored
  <1> QED  BY <1>1, <1>2, <1>3, <1>4, <1>5, <1>6 DEF Next, Handle

\* RevokedForGood: no call, however long it was under way, brings a revoked
\* key back.
THEOREM RevokedAlwaysForGood == Spec => RevokedForGood
  BY InitTyped, StepTyped, StepRevoked, PTL DEF Spec, RevokedForGood

-----------------------------------------------------------------------------
(* Single sign-on. *)

\* A flow is in Redis, with one request, or over.
FlowInv ==
    /\ FlowOpensOne
    /\ \A f \in flows : opened[f] = 0
    /\ \A r \in Requests : work[r].op = "sso" => opened[work[r].at] = 0 /\ work[r].at \notin flows
    /\ \A r, q \in Requests :
         work[r].op = "sso" /\ work[q].op = "sso" /\ work[r].at = work[q].at => r = q

\* A step that neither begins nor ends a flow.
LEMMA FlowFrame ==
    ASSUME FlowInv, UNCHANGED <<flows, opened>>,
           \A r \in Requests :
             work'[r].op = "sso" => work[r].op = "sso" /\ work'[r].at = work[r].at
    PROVE  FlowInv'
  BY DEF FlowInv, FlowOpensOne

LEMMA FlowEnds ==
    ASSUME TypeInv, FlowInv, NEW r \in Requests, Opened(r), Finish(r), flows' = flows
    PROVE  FlowInv'
  <1>1. /\ work'[r].op = "none" /\ \A q \in Requests \ {r} : work'[q] = work[q]
        BY IdleTyped DEF Finish, TypeInv
  <1>2. CASE work[r].op = "sso"
    <2>1. work[r].at \in 1..MaxFlows /\ opened[work[r].at] = 0 /\ work[r].at \notin flows
          BY <1>2 DEF TypeInv, JobOK, FlowInv
    <2>2. /\ opened'[work[r].at] = 1
          /\ \A f \in 1..MaxFlows \ {work[r].at} : opened'[f] = opened[f]
          BY <1>2, <2>1 DEF Opened, TypeInv
    <2>3. FlowOpensOne'  BY <2>2 DEF FlowInv, FlowOpensOne
    <2>4. \A f \in flows' : opened'[f] = 0
          BY <2>1, <2>2 DEF FlowInv, TypeInv
    <2>5. \A q \in Requests : work'[q].op = "sso" =>
            q # r /\ work'[q] = work[q] /\ work[q].at \in 1..MaxFlows
            /\ work[q].at # work[r].at
          BY <1>1, <1>2 DEF FlowInv, TypeInv, JobOK
    <2> QED  BY <2>2, <2>3, <2>4, <2>5 DEF FlowInv
  <1>3. CASE work[r].op # "sso"
    <2>1. opened' = opened  BY <1>3 DEF Opened
    <2> QED  BY <1>1, <2>1, FlowFrame
  <1> QED  BY <1>2, <1>3

LEMMA StepFlows == TypeInv /\ FlowInv /\ [Next]_vars => FlowInv'
  <1> SUFFICES ASSUME TypeInv, FlowInv, [Next]_vars PROVE FlowInv'
      OBVIOUS
  <1>1. CASE CreateInvite \/ Lapse \/ Grant
        BY <1>1, FlowFrame DEF CreateInvite, Lapse, Grant, history
  <1>2. CASE BeginSSO
    <2>1. PICK f \in 1..MaxFlows :
            /\ opened[f] = 0 /\ \A r \in Requests : ~(work[r].op = "sso" /\ work[r].at = f)
            /\ flows' = flows \cup {f}
          BY <1>2 DEF BeginSSO
    <2>2. UNCHANGED <<work, opened>>  BY <1>2 DEF BeginSSO, history
    <2> QED  BY <2>1, <2>2 DEF FlowInv, FlowOpensOne
  <1>3. ASSUME NEW r \in Requests,
               \/ Redeem(r) \/ CreateUser(r) \/ CreateServiceAccount(r) \/ Mint(r)
               \/ Revoke(r) \/ Authenticate(r)
        PROVE  FlowInv'
    <2>1. \E op, phase, at, row, role :
            op # "sso" /\ Begin(r, op, phase, at, row, role)
          BY <1>3 DEF Redeem, CreateUser, CreateServiceAccount, Mint, Revoke, Authenticate
    <2>2. \A q \in Requests : work'[q].op = "sso" => work'[q] = work[q]
          BY <2>1 DEF Begin, TypeInv
    <2>3. UNCHANGED <<flows, opened>>
          BY <1>3 DEF Redeem, CreateUser, CreateServiceAccount, Mint, Revoke, Authenticate,
             stored, history
    <2> QED  BY <2>2, <2>3, FlowFrame
  <1>4. ASSUME NEW r \in Requests, CompleteSSO(r) PROVE FlowInv'
    <2>1. PICK f \in flows, e \in Emails :
            /\ TakeState(f)
            /\ Begin(r, "sso", "provider", f, Account(e, "person", "viewer", "none", 0), "none")
          BY <1>4 DEF CompleteSSO
    <2>2. /\ flows' = flows \ {f} /\ opened' = opened /\ f \in 1..MaxFlows
          BY <1>4, <2>1 DEF CompleteSSO, TakeState, history, TypeInv
    <2>3. /\ work'[r].op = "sso" /\ work'[r].at = f
          /\ \A q \in Requests \ {r} : work'[q] = work[q]
          BY <2>1 DEF Begin, TypeInv
    <2>4. \A q \in Requests \ {r} : work'[q].op = "sso" => work'[q].at # f
          BY <2>3 DEF FlowInv
    <2> QED  BY <2>2, <2>3, <2>4 DEF FlowInv, FlowOpensOne
  <1>5. ASSUME NEW r \in Requests, Insert(r) PROVE FlowInv'
    <2>1. CASE Taken(work[r].row.email)
      <3>1. UNCHANGED <<flows, opened>> /\ Finish(r)  BY <1>5, <2>1 DEF Insert
      <3> QED  BY <3>1, IdleTyped, FlowFrame DEF Finish, TypeInv
    <2>2. CASE ~Taken(work[r].row.email)
          BY <1>5, <2>2, FlowEnds DEF Insert, Inserted
    <2> QED  BY <2>1, <2>2
  <1>6. ASSUME NEW r \in Requests, OpenSession(r) PROVE FlowInv'
        BY <1>6, FlowEnds DEF OpenSession, stored
  <1>7. ASSUME NEW r \in Requests, Vouched(r) \/ Stamp(r) PROVE FlowInv'
    <2>1. PICK p : work' = [work EXCEPT ![r].phase = p]
          BY <1>7 DEF Vouched, Stamp
    <2>2. \A q \in Requests : work'[q].op = work[q].op /\ work'[q].at = work[q].at
          BY <2>1 DEF TypeInv, Job
    <2>3. UNCHANGED <<flows, opened>>  BY <1>7 DEF Vouched, Stamp, stored, history
    <2> QED  BY <2>2, <2>3, FlowFrame
  <1>8. ASSUME NEW r \in Requests, Authorise(r) PROVE FlowInv'
    <2>1. \A q \in Requests : work'[q].op = "sso" => work'[q] = work[q]
          BY <1>8 DEF Authorise, TypeInv
    <2> QED  BY <1>8, <2>1, FlowFrame DEF Authorise, stored, history
  <1>9. ASSUME NEW r \in Requests, CommitMint(r) \/ CommitRevoke(r) \/ End(r) PROVE FlowInv'
    <2>1. Finish(r) /\ UNCHANGED <<flows, opened>>
          BY <1>9 DEF CommitMint, CommitRevoke, End, stored, history
    <2>2. \A q \in Requests : work'[q].op = "sso" => work'[q] = work[q]
          BY <2>1, IdleTyped DEF Finish, TypeInv
    <2> QED  BY <2>1, <2>2, FlowFrame
  <1>10. CASE UNCHANGED vars
         BY <1>10, FlowFrame DEF vars, stored, history
  <1> QED  BY <1>1, <1>2, <1>3, <1>4, <1>5, <1>6, <1>7, <1>8, <1>9, <1>10 DEF Next, Handle

\* FlowOpensOne: however often its callback is played, and by however many
\* requests at once, a flow opens one session.
THEOREM FlowAlwaysOpensOne == Spec => []FlowOpensOne
  <1>1. Init => FlowInv
        BY IdleTyped DEF Init, FlowInv, FlowOpensOne
  <1>2. TypeInv /\ FlowInv /\ [Next]_vars => FlowInv'  BY StepFlows
  <1>3. FlowInv => FlowOpensOne  BY DEF FlowInv
  <1> QED  BY <1>1, <1>2, <1>3, InitTyped, StepTyped, PTL DEF Spec

-----------------------------------------------------------------------------
(* The standing of a call. *)

\* From its first read a call has found its key live and has held the role it
\* goes by, first the one on the platform, then the one it is authorised with.
StandingInv ==
    \A r \in Requests : work[r].op = "call" => {"live", work[r].role} \subseteq standing[r]

LEMMA StandingKeeps ==
    ASSUME StandingInv, NEW r \in Requests, Witnessed, work'[r].op = "call",
           work[r].op = "call", work'[r].role = work[r].role
    PROVE  {"live", work'[r].role} \subseteq standing'[r]
  BY DEF StandingInv, Witnessed

LEMMA StepStanding == TypeInv /\ StandingInv /\ [Next]_vars => StandingInv'
  <1> SUFFICES ASSUME TypeInv, StandingInv, Next PROVE StandingInv'
    <2>1. CASE UNCHANGED <<vars>>  BY <2>1 DEF vars, StandingInv
    <2> QED  BY <2>1
  <1>0. Witnessed  BY DEF Next
  <1>1. ASSUME \A r \in Requests : work'[r].op = "call" =>
                 work[r].op = "call" /\ work'[r].role = work[r].role
        PROVE  StandingInv'
        BY <1>0, <1>1, StandingKeeps DEF StandingInv
  <1>2. CASE CreateInvite \/ Lapse \/ Grant \/ BeginSSO
        BY <1>1, <1>2 DEF CreateInvite, Lapse, Grant, BeginSSO
  <1>3. ASSUME NEW r \in Requests,
               \/ Redeem(r) \/ CreateUser(r) \/ CreateServiceAccount(r) \/ CompleteSSO(r)
               \/ Mint(r) \/ Revoke(r)
        PROVE  StandingInv'
    <2>1. \E op, phase, at, row, role :
            op # "call" /\ Begin(r, op, phase, at, row, role)
          BY <1>3 DEF Redeem, CreateUser, CreateServiceAccount, CompleteSSO, Mint, Revoke
    <2>2. \A q \in Requests : work'[q].op = "call" => work'[q] = work[q]
          BY <2>1 DEF Begin, TypeInv
    <2> QED  BY <1>1, <2>2
  <1>4. ASSUME NEW r \in Requests,
               \/ Insert(r) \/ OpenSession(r) \/ CommitMint(r) \/ CommitRevoke(r) \/ End(r)
        PROVE  StandingInv'
    <2>1. Finish(r)  BY <1>4 DEF Insert, OpenSession, CommitMint, CommitRevoke, End
    <2>2. \A q \in Requests : work'[q].op = "call" => work'[q] = work[q]
          BY <2>1, IdleTyped DEF Finish, TypeInv
    <2> QED  BY <1>1, <2>2
  <1>5. ASSUME NEW r \in Requests, Vouched(r) \/ Stamp(r) PROVE StandingInv'
    <2>1. PICK p : work' = [work EXCEPT ![r].phase = p]
          BY <1>5 DEF Vouched, Stamp
    <2>2. \A q \in Requests : work'[q].op = work[q].op /\ work'[q].role = work[q].role
          BY <2>1 DEF TypeInv, Job
    <2> QED  BY <1>1, <2>2
  <1>6. ASSUME NEW r \in Requests, Authenticate(r) PROVE StandingInv'
    <2>1. PICK k \in DOMAIN keys :
            /\ ~keys[k].revoked
            /\ Begin(r, "call", "stamp", k, <<>>, accounts[keys[k].account].platform)
          BY <1>6 DEF Authenticate
    <2>2. UNCHANGED <<accounts, keys>>  BY <1>6 DEF Authenticate, stored
    <2>3. /\ work'[r].op = "call" /\ work'[r].at = k
          /\ work'[r].role = accounts[keys[k].account].platform
          /\ \A q \in Requests \ {r} : work'[q] = work[q]
          BY <2>1 DEF Begin, TypeInv
    <2>4. Facts(r)' = {IF keys[k].revoked THEN "revoked" ELSE "live",
                       accounts[keys[k].account].platform, accounts[keys[k].account].member}
          BY <2>2, <2>3 DEF Facts
    <2>5. {"live", work'[r].role} \subseteq Facts(r)'
          BY <2>1, <2>3, <2>4
    <2>6. standing'[r] = standing[r] \cup Facts(r)'  BY <1>0, <2>3 DEF Witnessed
    <2>7. \A q \in Requests \ {r} : work'[q].op = "call" =>
            {"live", work'[q].role} \subseteq standing'[q]
          BY <1>0, <2>3, StandingKeeps
    <2> QED  BY <2>5, <2>6, <2>7 DEF StandingInv
  <1>7. ASSUME NEW r \in Requests, Authorise(r) PROVE StandingInv'
    <2> DEFINE account == accounts[keys[work[r].at].account]
    <2>1. PICK role :
            /\ role # "none" /\ role \in {work[r].role, account.member}
            /\ work' = [work EXCEPT ![r] = [op |-> "call", phase |-> "act", at |-> work[r].at,
                                           row |-> work[r].row, role |-> role]]
      <3>1. \A s : Highest(s) \in s \/ Highest(s) = "none"  BY DEF Highest
      <3> QED  BY <1>7, <3>1 DEF Authorise
    <2>2. work[r].op = "call" /\ UNCHANGED <<accounts, keys>>
          BY <1>7 DEF Authorise, At, stored
    <2>3. /\ work'[r].op = "call" /\ work'[r].at = work[r].at /\ work'[r].role = role
          /\ \A q \in Requests \ {r} : work'[q] = work[q]
          BY <2>1 DEF TypeInv
    <2>4. account.member \in Facts(r)'  BY <2>2, <2>3 DEF Facts
    <2>5. standing'[r] = standing[r] \cup Facts(r)'  BY <1>0, <2>3 DEF Witnessed
    <2>6. {"live", work'[r].role} \subseteq standing'[r]
          BY <2>1, <2>2, <2>3, <2>4, <2>5 DEF StandingInv
    <2>7. \A q \in Requests \ {r} : work'[q].op = "call" =>
            {"live", work'[q].role} \subseteq standing'[q]
          BY <1>0, <2>3, StandingKeeps
    <2> QED  BY <2>6, <2>7 DEF StandingInv
  <1> QED  BY <1>2, <1>3, <1>4, <1>5, <1>6, <1>7 DEF Next, Handle

\* CallsHadStanding: what a call acts with it has held while it lasted, with
\* its key live when it began.
THEOREM CallsAlwaysHadStanding == Spec => []CallsHadStanding
  <1>1. Init => StandingInv  BY IdleTyped DEF Init, StandingInv
  <1>2. TypeInv /\ StandingInv => CallsHadStanding
    <2> SUFFICES ASSUME TypeInv, StandingInv, NEW r \in Requests, work[r].phase = "act"
                 PROVE  {"live", work[r].role} \subseteq standing[r]
        BY DEF CallsHadStanding
    <2>1. work[r] \in Job /\ JobOK(work[r])  BY DEF TypeInv
    <2>2. work[r].op = "call"  BY <2>1, IdleTyped DEF Job, JobOK, Ops
    <2> QED  BY <2>2 DEF StandingInv
  <1> QED  BY <1>1, <1>2, InitTyped, StepTyped, StepStanding, PTL DEF Spec

-----------------------------------------------------------------------------
(* The cap on service accounts. *)

Capped(row) == row.platform = "none" /\ row.member # "admin"

\* The request inserts the row it has, or may yet.
Adds(j) == j.phase = "insert" \/ j.op = "sso"

\* Keys are of service accounts, which administer nothing until an administrator
\* says so; and a call goes by a role its account has had.
CapInv ==
    /\ \A k \in DOMAIN keys : accounts[keys[k].account].kind = "service"
    /\ \A a \in DOMAIN accounts :
         accounts[a].kind = "service" => a \in granted \/ Capped(accounts[a])
    /\ \A r \in Requests :
         /\ Adds(work[r]) /\ work[r].row.kind = "service" => Capped(work[r].row)
         /\ work[r].op = "mint" => accounts[work[r].at].kind = "service"
         /\ work[r].op = "call" /\ work[r].role = "admin" =>
              keys[work[r].at].account \in granted

\* A step that leaves the accounts and the keys alone.
LEMMA CapFrame ==
    ASSUME TypeInv, CapInv, UNCHANGED <<accounts, keys, granted>>,
           \A r \in Requests :
             /\ Adds(work'[r]) /\ work'[r].row.kind = "service" =>
                  \/ Adds(work[r]) /\ work'[r].row = work[r].row
                  \/ Capped(work'[r].row)
             /\ work'[r].op = "mint" =>
                  \/ work[r].op = "mint" /\ work'[r].at = work[r].at
                  \/ accounts[work'[r].at].kind = "service"
             /\ work'[r].op = "call" /\ work'[r].role = "admin" =>
                  \/ /\ work[r].op = "call" /\ work[r].role = "admin"
                     /\ work'[r].at = work[r].at
                  \/ keys[work'[r].at].account \in granted
    PROVE  CapInv'
  BY DEF CapInv, Capped, Adds

\* One that ends, whatever rows it adds.
LEMMA CapEnds ==
    ASSUME TypeInv, CapInv, NEW r \in Requests, Finish(r), granted' = granted,
           \A a \in DOMAIN accounts : a \in DOMAIN accounts' /\ accounts'[a] = accounts[a],
           \A k \in DOMAIN keys : k \in DOMAIN keys' /\ keys'[k].account = keys[k].account,
           \A a \in DOMAIN accounts' \ DOMAIN accounts :
             accounts'[a].kind = "service" => Capped(accounts'[a]),
           \A k \in DOMAIN keys' \ DOMAIN keys :
             keys'[k].account \in DOMAIN accounts /\ accounts[keys'[k].account].kind = "service"
    PROVE  CapInv'
  <1>1. \A q \in Requests : work'[q] = Idle \/ work'[q] = work[q]
        BY DEF Finish, TypeInv
  <1>2. \A k \in DOMAIN keys' : accounts'[keys'[k].account].kind = "service"
        BY DEF CapInv, TypeInv
  <1>3. \A a \in DOMAIN accounts' :
          accounts'[a].kind = "service" => a \in granted' \/ Capped(accounts'[a])
        BY DEF CapInv
  <1>4. \A q \in Requests :
          /\ Adds(work'[q]) /\ work'[q].row.kind = "service" => Capped(work'[q].row)
          /\ work'[q].op = "mint" => accounts'[work'[q].at].kind = "service"
          /\ work'[q].op = "call" /\ work'[q].role = "admin" =>
               keys'[work'[q].at].account \in granted'
    <2> SUFFICES ASSUME NEW q \in Requests
                 PROVE  /\ Adds(work'[q]) /\ work'[q].row.kind = "service" => Capped(work'[q].row)
                        /\ work'[q].op = "mint" => accounts'[work'[q].at].kind = "service"
                        /\ work'[q].op = "call" /\ work'[q].role = "admin" =>
                             keys'[work'[q].at].account \in granted'
        OBVIOUS
    <2>1. CASE work'[q] = Idle  BY <2>1, IdleTyped DEF Adds
    <2>2. CASE work'[q] = work[q]
      <3>1. JobOK(work[q])  BY DEF TypeInv
      <3>2. Adds(work[q]) /\ work[q].row.kind = "service" => Capped(work[q].row)
            BY DEF CapInv
      <3>3. work[q].op = "mint" => accounts'[work[q].at].kind = "service"
            BY <3>1 DEF CapInv, JobOK
      <3>4. work[q].op = "call" /\ work[q].role = "admin" =>
              keys'[work[q].at].account \in granted
            BY <3>1 DEF CapInv, JobOK
      <3> QED  BY <2>2, <3>2, <3>3, <3>4
    <2> QED  BY <1>1, <2>1, <2>2
  <1> QED  BY <1>2, <1>3, <1>4 DEF CapInv, Capped, Adds

LEMMA StepCap == TypeInv /\ CapInv /\ [Next]_vars => CapInv'
  <1> SUFFICES ASSUME TypeInv, CapInv, [Next]_vars PROVE CapInv'
      OBVIOUS
  <1>1. CASE CreateInvite \/ Lapse \/ BeginSSO
        BY <1>1, CapFrame DEF CreateInvite, Lapse, BeginSSO, history
  <1>2. CASE Grant
    <2>1. PICK a \in DOMAIN accounts, role \in Roles \cup {"none"} :
            /\ \/ accounts' = [accounts EXCEPT ![a].platform = role]
               \/ accounts' = [accounts EXCEPT ![a].member = role]
            /\ granted' = granted \cup {a}
          BY <1>2 DEF Grant
    <2>2. UNCHANGED <<keys, work>>  BY <1>2 DEF Grant
    <2>3. accounts[a] \in Row  BY DEF TypeInv
    <2>4. /\ DOMAIN accounts' = DOMAIN accounts /\ accounts'[a].kind = accounts[a].kind
          /\ \A b \in DOMAIN accounts \ {a} : accounts'[b] = accounts[b]
          BY <2>1, <2>3 DEF TypeInv, Row
    <2>5. \A k \in DOMAIN keys : accounts'[keys[k].account].kind = "service"
          BY <2>4 DEF CapInv, TypeInv
    <2>6. \A b \in DOMAIN accounts' :
            accounts'[b].kind = "service" => b \in granted' \/ Capped(accounts'[b])
          BY <2>1, <2>4 DEF CapInv
    <2>7. \A r \in Requests : work[r].op = "mint" => accounts'[work[r].at].kind = "service"
          BY <2>4 DEF CapInv, TypeInv, JobOK
    <2> QED  BY <2>1, <2>2, <2>5, <2>6, <2>7 DEF CapInv, Capped, Adds
  <1>3. ASSUME NEW r \in Requests, Redeem(r) PROVE CapInv'
    <2>1. PICK i \in DOMAIN invites : Begin(r, "redeem", "insert", i, Invited(i), "none")
          BY <1>3 DEF Redeem
    <2>2. /\ work'[r].op = "redeem" /\ work'[r].row = Invited(i)
          /\ \A q \in Requests \ {r} : work'[q] = work[q]
          BY <2>1 DEF Begin, TypeInv
    <2>3. work'[r].row.kind # "service"  BY <2>2, InvitedTyped
    <2> QED  BY <1>3, <2>2, <2>3, CapFrame DEF Redeem, stored, history
  <1>4. ASSUME NEW r \in Requests, CreateUser(r) \/ CompleteSSO(r) PROVE CapInv'
    <2>1. \E op, phase, at, p : \E e \in Emails :
            /\ op \notin {"mint", "call"} /\ p \in AnyRole
            /\ Begin(r, op, phase, at, Account(e, "person", p, "none", 0), "none")
          BY <1>4, RoleTyped DEF CreateUser, CompleteSSO
    <2>2. PICK op, phase, at, p : \E e \in Emails :
            /\ op \notin {"mint", "call"} /\ p \in AnyRole
            /\ Begin(r, op, phase, at, Account(e, "person", p, "none", 0), "none")
          BY <2>1
    <2>3. PICK e \in Emails :
            /\ op \notin {"mint", "call"} /\ p \in AnyRole
            /\ Begin(r, op, phase, at, Account(e, "person", p, "none", 0), "none")
          BY <2>2
    <2>4. /\ work'[r].op = op /\ work'[r].row = Account(e, "person", p, "none", 0)
          /\ \A q \in Requests \ {r} : work'[q] = work[q]
          BY <2>3 DEF Begin, TypeInv
    <2>5. work'[r].row.kind # "service"  BY <2>3, <2>4, RoleTyped, RowTyped
    <2> QED  BY <1>4, <2>3, <2>4, <2>5, CapFrame DEF CreateUser, CompleteSSO, stored, history
  <1>5. ASSUME NEW r \in Requests, CreateServiceAccount(r) PROVE CapInv'
    <2>1. PICK e \in Emails, role \in MaxServiceRole :
            Begin(r, "service", "insert", 0, Account(e, "service", "none", role, 0), "none")
          BY <1>5 DEF CreateServiceAccount
    <2>2. /\ work'[r].op = "service" /\ work'[r].row = Account(e, "service", "none", role, 0)
          /\ \A q \in Requests \ {r} : work'[q] = work[q]
          BY <2>1 DEF Begin, TypeInv
    <2>3. Capped(Account(e, "service", "none", role, 0))
          BY RoleTyped, RowTyped DEF MaxServiceRole, Capped
    <2> QED  BY <1>5, <2>2, <2>3, CapFrame DEF CreateServiceAccount, stored, history
  <1>6. ASSUME NEW r \in Requests, Insert(r) PROVE CapInv'
    <2>1. CASE Taken(work[r].row.email)
          BY <1>6, <2>1, CapEnds DEF Insert
    <2>2. CASE ~Taken(work[r].row.email)
      <3>1. \A a \in DOMAIN accounts' \ DOMAIN accounts : accounts'[a] = work[r].row
        <4>1. /\ DOMAIN accounts' = 1..(Len(accounts) + 1) /\ Len(accounts) \in Nat
              /\ DOMAIN accounts = 1..Len(accounts)
              /\ accounts'[Len(accounts) + 1] = work[r].row
              BY <1>6, <2>2, InsertTyped
        <4> QED  BY <4>1
      <3>2. /\ \A a \in DOMAIN accounts : a \in DOMAIN accounts' /\ accounts'[a] = accounts[a]
            /\ Finish(r) /\ work[r].phase = "insert" /\ UNCHANGED <<keys, granted>>
        <4>1. /\ DOMAIN accounts' = 1..(Len(accounts) + 1) /\ Len(accounts) \in Nat
              /\ DOMAIN accounts = 1..Len(accounts)
              BY <1>6, <2>2, InsertTyped
        <4>2. /\ \A a \in DOMAIN accounts : accounts'[a] = accounts[a]
              /\ Finish(r) /\ work[r].phase = "insert" /\ UNCHANGED <<keys, granted>>
              BY <1>6, <2>2, InsertTyped
        <4> QED  BY <4>1, <4>2
      <3>3. work[r].row.kind = "service" => Capped(work[r].row)
            BY <3>2 DEF CapInv, Adds
      <3> QED  BY <3>1, <3>2, <3>3, CapEnds
    <2> QED  BY <2>1, <2>2
  <1>7. ASSUME NEW r \in Requests, Vouched(r) PROVE CapInv'
    <2> DEFINE p == IF Taken(work[r].row.email) THEN "session" ELSE "insert"
    <2>1. work' = [work EXCEPT ![r].phase = p] /\ work[r].op = "sso"
          BY <1>7 DEF Vouched, At
    <2> HIDE DEF p
    <2>2. /\ work'[r].op = "sso" /\ work'[r].row = work[r].row
          /\ \A q \in Requests \ {r} : work'[q] = work[q]
          BY <2>1 DEF TypeInv, Job
    <2>3. Adds(work[r])  BY <2>1 DEF Adds
    <2> QED  BY <1>7, <2>2, <2>3, CapFrame DEF Vouched, stored, history
  <1>8. ASSUME NEW r \in Requests, OpenSession(r) \/ End(r) PROVE CapInv'
        BY <1>8, CapEnds DEF OpenSession, End, stored, history
  <1>9. ASSUME NEW r \in Requests, Mint(r) PROVE CapInv'
    <2>1. PICK a \in DOMAIN accounts : Serves(a) /\ Begin(r, "mint", "commit", a, <<>>, "none")
          BY <1>9 DEF Mint
    <2>2. /\ work'[r].op = "mint" /\ work'[r].at = a /\ work'[r].phase = "commit"
          /\ \A q \in Requests \ {r} : work'[q] = work[q]
          BY <2>1 DEF Begin, TypeInv
    <2> QED  BY <1>9, <2>1, <2>2, CapFrame DEF Mint, Serves, Adds, stored, history
  <1>10. ASSUME NEW r \in Requests, CommitMint(r) PROVE CapInv'
    <2>1. /\ keys' = Append(keys, [account |-> work[r].at, revoked |-> FALSE])
          /\ work[r].op = "mint" /\ Finish(r) /\ UNCHANGED <<accounts, granted>>
          BY <1>10 DEF CommitMint, At, history
    <2>2. /\ work[r].at \in DOMAIN accounts /\ accounts[work[r].at].kind = "service"
          /\ work[r].at \in Nat
          BY <2>1 DEF TypeInv, JobOK, CapInv, Job
    <2>3. /\ \A k \in DOMAIN keys : k \in DOMAIN keys' /\ keys'[k] = keys[k]
          /\ \A k \in DOMAIN keys' \ DOMAIN keys : keys'[k].account = work[r].at
          BY <2>1, <2>2 DEF TypeInv
    <2> QED  BY <2>1, <2>2, <2>3, CapEnds
  <1>11. ASSUME NEW r \in Requests, Revoke(r) PROVE CapInv'
    <2>1. PICK k : Begin(r, "revoke", "commit", k, <<>>, "none")
          BY <1>11 DEF Revoke
    <2>2. /\ work'[r].op = "revoke" /\ work'[r].phase = "commit"
          /\ \A q \in Requests \ {r} : work'[q] = work[q]
          BY <2>1 DEF Begin, TypeInv
    <2> QED  BY <1>11, <2>2, CapFrame DEF Revoke, Adds, stored, history
  <1>12. ASSUME NEW r \in Requests, CommitRevoke(r) PROVE CapInv'
    <2> DEFINE n == [keys[work[r].at] EXCEPT !.revoked = TRUE]
    <2>1. work[r].at \in DOMAIN keys  BY <1>12 DEF CommitRevoke, At, TypeInv, JobOK
    <2>2. keys[work[r].at] \in Key  BY <2>1 DEF TypeInv
    <2>3. n.account = keys[work[r].at].account  BY <2>2 DEF Key
    <2>4. keys' = [keys EXCEPT ![work[r].at] = n]  BY <1>12 DEF CommitRevoke
    <2> HIDE DEF n
    <2>5. /\ DOMAIN keys' = DOMAIN keys
          /\ \A k \in DOMAIN keys : keys'[k].account = keys[k].account
          BY <2>3, <2>4 DEF TypeInv
    <2> QED  BY <1>12, <2>5, CapEnds DEF CommitRevoke, history
  <1>13. ASSUME NEW r \in Requests, Authenticate(r) PROVE CapInv'
    <2>1. PICK k \in DOMAIN keys :
            Begin(r, "call", "stamp", k, <<>>, accounts[keys[k].account].platform)
          BY <1>13 DEF Authenticate
    <2>2. /\ work'[r].op = "call" /\ work'[r].at = k /\ work'[r].phase = "stamp"
          /\ work'[r].role = accounts[keys[k].account].platform
          /\ \A q \in Requests \ {r} : work'[q] = work[q]
          BY <2>1 DEF Begin, TypeInv
    <2>3. work'[r].role = "admin" => keys[k].account \in granted
          BY <2>2 DEF CapInv, TypeInv, Capped
    <2> QED  BY <1>13, <2>2, <2>3, CapFrame DEF Authenticate, Adds, stored, history
  <1>14. ASSUME NEW r \in Requests, Stamp(r) PROVE CapInv'
    <2>1. /\ work'[r].op = "call" /\ work'[r].at = work[r].at /\ work'[r].role = work[r].role
          /\ work'[r].phase = "workspace" /\ work[r].op = "call"
          /\ \A q \in Requests \ {r} : work'[q] = work[q]
          BY <1>14 DEF Stamp, At, TypeInv, Job
    <2> QED  BY <1>14, <2>1, CapFrame DEF Stamp, Adds, stored, history
  <1>15. ASSUME NEW r \in Requests, Authorise(r) PROVE CapInv'
    <2> DEFINE a == keys[work[r].at].account
    <2>1. PICK role :
            /\ role # "none" /\ role \in {work[r].role, accounts[a].member}
            /\ work' = [work EXCEPT ![r] = [op |-> "call", phase |-> "act", at |-> work[r].at,
                                           row |-> work[r].row, role |-> role]]
      <3>1. \A s : Highest(s) \in s \/ Highest(s) = "none"  BY DEF Highest
      <3> QED  BY <1>15, <3>1 DEF Authorise
    <2>2. /\ work'[r].op = "call" /\ work'[r].at = work[r].at /\ work'[r].role = role
          /\ work'[r].phase = "act"
          /\ \A q \in Requests \ {r} : work'[q] = work[q]
          BY <2>1 DEF TypeInv
    <2>3. work[r].op = "call" /\ work[r].at \in DOMAIN keys
          BY <1>15 DEF Authorise, At, TypeInv, JobOK
    <2>4. role = "admin" => a \in granted
          BY <2>1, <2>3 DEF CapInv, TypeInv, Capped
    <2> QED  BY <1>15, <2>2, <2>4, CapFrame DEF Authorise, Adds, stored, history
  <1>16. CASE UNCHANGED vars
         BY <1>16, CapFrame DEF vars, stored, history
  <1> QED  BY <1>1, <1>2, <1>3, <1>4, <1>5, <1>6, <1>7, <1>8, <1>9, <1>10, <1>11, <1>12,
              <1>13, <1>14, <1>15, <1>16 DEF Next, Handle

\* KeysStayCapped: a key acts as an administrator only after one gave its
\* account a role.
THEOREM KeysAlwaysCapped == Spec => []KeysStayCapped
  <1>1. Init => CapInv
    <2> SUFFICES ASSUME Init PROVE CapInv
        OBVIOUS
    <2>1. (CHOOSE e \in Emails : TRUE) \in Emails  BY AccountsAssumption
    <2>2. /\ DOMAIN accounts = {1} /\ DOMAIN keys = {1} /\ keys[1].account = 1
          /\ accounts[1] = Account(CHOOSE e \in Emails : TRUE, "service", "none", "operator", 0)
          BY DEF Init
    <2>3. accounts[1].kind = "service" /\ Capped(accounts[1])
          BY <2>1, <2>2, RowTyped DEF AnyRole, Capped
    <2> QED  BY <2>2, <2>3, IdleTyped DEF Init, CapInv, Adds
  <1>2. TypeInv /\ CapInv => KeysStayCapped
    <2> SUFFICES ASSUME TypeInv, CapInv, NEW r \in Requests, work[r].phase = "act",
                        work[r].role = "admin"
                 PROVE  keys[work[r].at].account \in granted
        BY DEF KeysStayCapped
    <2>1. work[r] \in Job /\ JobOK(work[r])  BY DEF TypeInv
    <2>2. work[r].op = "call"  BY <2>1, IdleTyped DEF Job, JobOK, Ops
    <2> QED  BY <2>2 DEF CapInv
  <1> QED  BY <1>1, <1>2, InitTyped, StepTyped, StepCap, PTL DEF Spec

-----------------------------------------------------------------------------
(* Invitations. *)

\* The row is for whom the invitation is, with the role it gives.
Offered(row, v) ==
    /\ row.email = v.email
    /\ v.role = IF v.scope = "workspace" THEN row.member ELSE row.platform

\* The row a request is about to insert, if the invitations are vs.
Invites(j, vs) ==
    IF j.op = "redeem"
      THEN j.at \in DOMAIN vs /\ j.row.invite = j.at /\ Offered(j.row, vs[j.at])
      ELSE j.row.invite = 0

\* An account that an invitation made is the one the invitation is for; and no
\* two are for the same email, so an invitation made no other.
InviteInv ==
    /\ \A a, b \in DOMAIN accounts : accounts[a].email = accounts[b].email => a = b
    /\ \A a \in DOMAIN accounts : \A i \in DOMAIN invites :
         accounts[a].invite = i =>
            /\ invites[i].used = TRUE /\ accounts[a].email = invites[i].email
            /\ a \notin granted => Offered(accounts[a], invites[i])
    /\ \A i \in DOMAIN invites :
         invites[i].used = TRUE => \E a \in DOMAIN accounts : accounts[a].invite = i
    /\ \A a \in DOMAIN accounts : accounts[a].invite \in {0} \cup DOMAIN invites
    /\ \A r \in Requests : Adds(work[r]) => Invites(work[r], invites)

\* A step that leaves the accounts and the invitations alone.
LEMMA InviteFrame ==
    ASSUME TypeInv, InviteInv, UNCHANGED <<accounts, invites, granted>>,
           \A r \in Requests : Adds(work'[r]) =>
             \/ /\ Adds(work[r]) /\ work'[r].op = work[r].op /\ work'[r].at = work[r].at
                /\ work'[r].row = work[r].row
             \/ Invites(work'[r], invites)
    PROVE  InviteInv'
  <1>1. \A r \in Requests : Adds(work'[r]) => Invites(work'[r], invites)
        BY DEF InviteInv, Invites
  <1> QED  BY <1>1 DEF InviteInv

\* A request that begins with such a row, or without one.
LEMMA InviteBegins ==
    ASSUME TypeInv, InviteInv, NEW r \in Requests, NEW op, NEW phase, NEW at, NEW row, NEW role,
           Begin(r, op, phase, at, row, role), UNCHANGED <<accounts, invites, granted>>,
           phase = "insert" \/ op = "sso" =>
             IF op = "redeem"
               THEN at \in DOMAIN invites /\ row.invite = at /\ Offered(row, invites[at])
               ELSE row.invite = 0
    PROVE  InviteInv'
  <1> DEFINE j == [op |-> op, phase |-> phase, at |-> at, row |-> row, role |-> role]
  <1>1. Adds(j) => Invites(j, invites)  BY DEF Adds, Invites
  <1> HIDE DEF j
  <1>2. work' = [work EXCEPT ![r] = j]  BY DEF Begin, j
  <1>3. work'[r] = j /\ \A q \in Requests \ {r} : work'[q] = work[q]
        BY <1>2 DEF TypeInv
  <1> QED  BY <1>1, <1>3, InviteFrame

\* The account that is added, and the invitation it burns.
LEMMA InviteInserts ==
    ASSUME TypeInv, InviteInv, NEW r \in Requests, Insert(r), ~Taken(work[r].row.email)
    PROVE  InviteInv'
  <1> DEFINE n == Len(accounts) + 1
             row == work[r].row
             at == work[r].at
  <1>1. /\ DOMAIN accounts = 1..Len(accounts) /\ Len(accounts) \in Nat
        /\ DOMAIN accounts' = 1..n /\ accounts'[n] = row
        /\ \A a \in DOMAIN accounts : accounts'[a] = accounts[a]
        BY InsertTyped
  <1>2. /\ Finish(r) /\ work[r].phase = "insert" /\ granted' = granted
        /\ invites' = IF work[r].op = "redeem"
                        THEN [invites EXCEPT ![at].used = TRUE] ELSE invites
        BY InsertTyped
  <1>3. /\ DOMAIN accounts' = DOMAIN accounts \cup {n} /\ n \notin DOMAIN accounts
        BY <1>1
  <1>4. \A a \in DOMAIN accounts : accounts[a].email # row.email  BY DEF Taken
  <1>5. Adds(work[r]) /\ Invites(work[r], invites)  BY <1>2 DEF Adds, InviteInv
  <1> HIDE DEF n, row
  <1>6. \A a, b \in DOMAIN accounts' : accounts'[a].email = accounts'[b].email => a = b
        BY <1>1, <1>3, <1>4 DEF InviteInv
  <1>7. /\ DOMAIN invites' = DOMAIN invites
        /\ \A i \in DOMAIN invites :
             /\ invites'[i].email = invites[i].email /\ invites'[i].role = invites[i].role
             /\ invites'[i].scope = invites[i].scope
             /\ invites'[i].used = TRUE
                  <=> invites[i].used = TRUE \/ (work[r].op = "redeem" /\ i = at)
    <2>1. CASE work[r].op = "redeem"
      <3>1. at \in DOMAIN invites  BY <1>5, <2>1 DEF Invites
      <3>2. invites[at] \in Invite  BY <3>1 DEF TypeInv
      <3> DEFINE v == [invites[at] EXCEPT !.used = TRUE]
      <3>3. /\ v.email = invites[at].email /\ v.role = invites[at].role
            /\ v.scope = invites[at].scope /\ v.used = TRUE
            BY <3>2 DEF Invite
      <3>4. invites' = [invites EXCEPT ![at] = v]  BY <1>2, <2>1
      <3> HIDE DEF v
      <3>5. /\ DOMAIN invites' = DOMAIN invites /\ invites'[at] = v
            /\ \A i \in DOMAIN invites \ {at} : invites'[i] = invites[i]
            BY <3>1, <3>4 DEF TypeInv
      <3> QED  BY <2>1, <3>3, <3>5
    <2>2. CASE work[r].op # "redeem"  BY <1>2, <2>2
    <2> QED  BY <2>1, <2>2
  <1>8. \A i \in DOMAIN invites : \A x : Offered(x, invites'[i]) <=> Offered(x, invites[i])
        BY <1>7 DEF Offered
  <1>9. \A i \in DOMAIN invites : row.invite = i => work[r].op = "redeem" /\ i = at
    <2>1. 0 \notin DOMAIN invites  BY DEF TypeInv
    <2> QED  BY <1>5, <2>1 DEF Invites, row
  <1>10. \A a \in DOMAIN accounts' : \A i \in DOMAIN invites' :
           accounts'[a].invite = i =>
              /\ invites'[i].used = TRUE /\ accounts'[a].email = invites'[i].email
              /\ a \notin granted' => Offered(accounts'[a], invites'[i])
    <2> SUFFICES ASSUME NEW a \in DOMAIN accounts', NEW i \in DOMAIN invites,
                        accounts'[a].invite = i
                 PROVE  /\ invites'[i].used = TRUE /\ accounts'[a].email = invites'[i].email
                        /\ a \notin granted' => Offered(accounts'[a], invites'[i])
        BY <1>7
    <2>0. /\ invites'[i].email = invites[i].email /\ granted' = granted
          /\ Offered(accounts'[a], invites'[i]) <=> Offered(accounts'[a], invites[i])
          BY <1>2, <1>7, <1>8
    <2>1. CASE a = n
      <3>1. work[r].op = "redeem" /\ i = at  BY <1>1, <1>9, <2>1
      <3>2. Offered(row, invites[i])  BY <1>5, <3>1 DEF Invites, row
      <3> QED  BY <1>1, <1>7, <2>0, <2>1, <3>1, <3>2 DEF Offered
    <2>2. CASE a \in DOMAIN accounts  BY <1>1, <1>7, <2>0, <2>2 DEF InviteInv
    <2> QED  BY <1>3, <2>1, <2>2
  <1>11. \A i \in DOMAIN invites' :
           invites'[i].used = TRUE => \E a \in DOMAIN accounts' : accounts'[a].invite = i
    <2> SUFFICES ASSUME NEW i \in DOMAIN invites, invites'[i].used = TRUE
                 PROVE  \E a \in DOMAIN accounts' : accounts'[a].invite = i
        BY <1>7
    <2>1. CASE invites[i].used = TRUE
      <3>1. PICK a \in DOMAIN accounts : accounts[a].invite = i  BY <2>1 DEF InviteInv
      <3> QED  BY <1>1, <1>3, <3>1
    <2>2. CASE work[r].op = "redeem" /\ i = at
      <3>1. row.invite = i  BY <1>5, <2>2 DEF Invites, row
      <3> QED  BY <1>1, <1>3, <3>1
    <2> QED  BY <1>7, <2>1, <2>2
  <1>12. \A a \in DOMAIN accounts' : accounts'[a].invite \in {0} \cup DOMAIN invites'
    <2>1. row.invite \in {0} \cup DOMAIN invites  BY <1>5 DEF Invites, row
    <2> QED  BY <1>1, <1>3, <1>7, <2>1 DEF InviteInv
  <1>13. \A q \in Requests : Adds(work'[q]) => Invites(work'[q], invites')
    <2> SUFFICES ASSUME NEW q \in Requests, Adds(work'[q])
                 PROVE  Invites(work'[q], invites')
        OBVIOUS
    <2>1. work'[q] = work[q]  BY <1>2, IdleTyped DEF Finish, TypeInv, Adds
    <2>2. Invites(work[q], invites)  BY <2>1 DEF InviteInv
    <2> QED  BY <1>7, <1>8, <2>1, <2>2 DEF Invites
  <1> QED  BY <1>6, <1>10, <1>11, <1>12, <1>13 DEF InviteInv

\* Administrators change the roles of an account and nothing else of it.
LEMMA InviteGrants == ASSUME TypeInv, InviteInv, Grant PROVE InviteInv'
  <1>1. PICK a \in DOMAIN accounts, role \in Roles \cup {"none"} :
          /\ \/ accounts' = [accounts EXCEPT ![a].platform = role]
             \/ accounts' = [accounts EXCEPT ![a].member = role]
          /\ granted' = granted \cup {a}
        BY DEF Grant
  <1>2. UNCHANGED <<invites, work>>  BY DEF Grant
  <1>3. accounts[a] \in Row  BY DEF TypeInv
  <1>4. /\ DOMAIN accounts' = DOMAIN accounts /\ accounts'[a].email = accounts[a].email
        /\ accounts'[a].invite = accounts[a].invite
        /\ \A b \in DOMAIN accounts \ {a} : accounts'[b] = accounts[b]
        BY <1>1, <1>3 DEF TypeInv, Row
  <1>5. /\ \A b \in DOMAIN accounts : accounts'[b].email = accounts[b].email
        /\ \A b \in DOMAIN accounts : accounts'[b].invite = accounts[b].invite
        /\ \A b \in DOMAIN accounts : b \notin granted' =>
             b \notin granted /\ accounts'[b] = accounts[b]
        BY <1>1, <1>4
  <1> QED  BY <1>2, <1>4, <1>5 DEF InviteInv

LEMMA StepInvites == TypeInv /\ InviteInv /\ [Next]_vars => InviteInv'
  <1> SUFFICES ASSUME TypeInv, InviteInv, [Next]_vars PROVE InviteInv'
      OBVIOUS
  <1>1. CASE CreateInvite
    <2>1. PICK v \in Invite : invites' = Append(invites, v) /\ v.used = FALSE
      <3>1. PICK e \in Emails, role \in Roles, scope \in {"workspace", "platform"} :
              invites' = Append(invites, [email |-> e, role |-> role, scope |-> scope,
                                          used |-> FALSE, expired |-> FALSE])
            BY <1>1 DEF CreateInvite
      <3> DEFINE n == [email |-> e, role |-> role, scope |-> scope,
                       used |-> FALSE, expired |-> FALSE]
      <3>2. n \in Invite /\ n.used = FALSE  BY DEF Invite
      <3>3. invites' = Append(invites, n)  BY <3>1
      <3> HIDE DEF n
      <3> QED  BY <3>2, <3>3
    <2>2. UNCHANGED <<accounts, work, granted>>  BY <1>1 DEF CreateInvite, history
    <2>3. /\ DOMAIN invites' = DOMAIN invites \cup {Len(invites) + 1}
          /\ Len(invites) + 1 \notin DOMAIN invites
          /\ invites'[Len(invites) + 1] = v /\ Len(invites) + 1 # 0
          /\ \A i \in DOMAIN invites : invites'[i] = invites[i]
          BY <2>1 DEF TypeInv
    <2>4. \A a \in DOMAIN accounts : accounts[a].invite # Len(invites) + 1
          BY <2>3 DEF InviteInv
    <2>5. \A r \in Requests : Adds(work[r]) => Invites(work[r], invites')
          BY <2>3 DEF InviteInv, Invites
    <2> QED  BY <2>1, <2>2, <2>3, <2>4, <2>5 DEF InviteInv
  <1>2. CASE Lapse
    <2>1. PICK i \in DOMAIN invites : invites' = [invites EXCEPT ![i].expired = TRUE]
          BY <1>2 DEF Lapse
    <2>2. UNCHANGED <<accounts, work, granted>>  BY <1>2 DEF Lapse, history
    <2>3. /\ DOMAIN invites' = DOMAIN invites
          /\ \A k \in DOMAIN invites :
               /\ invites'[k].email = invites[k].email /\ invites'[k].role = invites[k].role
               /\ invites'[k].scope = invites[k].scope /\ invites'[k].used = invites[k].used
      <3> DEFINE v == [invites[i] EXCEPT !.expired = TRUE]
      <3>1. invites[i] \in Invite  BY DEF TypeInv
      <3>2. /\ v.email = invites[i].email /\ v.role = invites[i].role
            /\ v.scope = invites[i].scope /\ v.used = invites[i].used
            BY <3>1 DEF Invite
      <3>3. invites' = [invites EXCEPT ![i] = v]  BY <2>1
      <3> HIDE DEF v
      <3> QED  BY <3>2, <3>3 DEF TypeInv
    <2>4. \A k \in DOMAIN invites : \A x : Offered(x, invites'[k]) <=> Offered(x, invites[k])
          BY <2>3 DEF Offered
    <2>5. \A r \in Requests : Adds(work[r]) => Invites(work[r], invites')
          BY <2>3, <2>4 DEF InviteInv, Invites
    <2> QED  BY <2>2, <2>3, <2>4, <2>5 DEF InviteInv
  <1>3. CASE Grant  BY <1>3, InviteGrants
  <1>4. CASE BeginSSO  BY <1>4, InviteFrame DEF BeginSSO, history
  <1>5. ASSUME NEW r \in Requests, Redeem(r) PROVE InviteInv'
    <2>1. PICK i \in DOMAIN invites : Begin(r, "redeem", "insert", i, Invited(i), "none")
          BY <1>5 DEF Redeem
    <2>2. Offered(Invited(i), invites[i]) /\ Invited(i).invite = i
          BY InvitedTyped DEF Offered
    <2> QED  BY <1>5, <2>1, <2>2, InviteBegins DEF Redeem, stored, history
  <1>6. ASSUME NEW r \in Requests,
               CreateUser(r) \/ CreateServiceAccount(r) \/ CompleteSSO(r)
        PROVE  InviteInv'
    <2>1. \E op, phase, at, row : op # "redeem" /\ row.invite = 0
                                  /\ Begin(r, op, phase, at, row, "none")
          BY <1>6, RoleTyped, RowTyped DEF CreateUser, CreateServiceAccount, CompleteSSO
    <2>2. PICK op, phase, at, row : op # "redeem" /\ row.invite = 0
                                    /\ Begin(r, op, phase, at, row, "none")
          BY <2>1
    <2> QED  BY <1>6, <2>2, InviteBegins
             DEF CreateUser, CreateServiceAccount, CompleteSSO, stored, history
  <1>7. ASSUME NEW r \in Requests, Mint(r) \/ Revoke(r) \/ Authenticate(r) PROVE InviteInv'
    <2>1. \E op, phase, at, role : op # "sso" /\ phase # "insert"
                                   /\ Begin(r, op, phase, at, <<>>, role)
          BY <1>7 DEF Mint, Revoke, Authenticate
    <2>2. PICK op, phase, at, role : op # "sso" /\ phase # "insert"
                                     /\ Begin(r, op, phase, at, <<>>, role)
          BY <2>1
    <2> QED  BY <1>7, <2>2, InviteBegins DEF Mint, Revoke, Authenticate, stored, history
  <1>8. ASSUME NEW r \in Requests, Insert(r) PROVE InviteInv'
    <2>1. CASE Taken(work[r].row.email)
      <3>1. UNCHANGED <<accounts, invites, granted>> /\ Finish(r)  BY <1>8, <2>1 DEF Insert
      <3> QED  BY <3>1, IdleTyped, InviteFrame DEF Finish, TypeInv, Adds
    <2> QED  BY <1>8, <2>1, InviteInserts
  <1>9. ASSUME NEW r \in Requests, Vouched(r) \/ Stamp(r) PROVE InviteInv'
    <2>1. \E p : /\ work' = [work EXCEPT ![r].phase = p]
                 /\ p = "insert" => Adds(work[r])
          BY <1>9 DEF Vouched, Stamp, At, Adds
    <2>2. PICK p : /\ work' = [work EXCEPT ![r].phase = p]
                   /\ p = "insert" => Adds(work[r])
          BY <2>1
    <2>3. /\ work'[r].op = work[r].op /\ work'[r].at = work[r].at
          /\ work'[r].row = work[r].row /\ work'[r].phase = p
          /\ \A q \in Requests \ {r} : work'[q] = work[q]
          BY <2>2 DEF TypeInv, Job
    <2> QED  BY <1>9, <2>2, <2>3, InviteFrame DEF Vouched, Stamp, stored, history, Adds
  <1>10. ASSUME NEW r \in Requests, Authorise(r) PROVE InviteInv'
    <2>1. /\ work'[r].phase = "act" /\ work'[r].op = "call"
          /\ \A q \in Requests \ {r} : work'[q] = work[q]
          BY <1>10 DEF Authorise, TypeInv
    <2> QED  BY <1>10, <2>1, InviteFrame DEF Authorise, stored, history, Adds
  <1>11. ASSUME NEW r \in Requests,
                OpenSession(r) \/ CommitMint(r) \/ CommitRevoke(r) \/ End(r)
         PROVE  InviteInv'
    <2>1. Finish(r) /\ UNCHANGED <<accounts, invites, granted>>
          BY <1>11 DEF OpenSession, CommitMint, CommitRevoke, End, stored, history
    <2> QED  BY <2>1, IdleTyped, InviteFrame DEF Finish, TypeInv, Adds
  <1>12. CASE UNCHANGED vars
         BY <1>12, InviteFrame DEF vars, stored, history
  <1> QED  BY <1>1, <1>2, <1>3, <1>4, <1>5, <1>6, <1>7, <1>8, <1>9, <1>10, <1>11, <1>12
           DEF Next, Handle

\* InviteSpentOnce: an invitation makes one account, the one it is for, however
\* many requests redeem it at once.
THEOREM InvitesAlwaysSpentOnce == Spec => []InviteSpentOnce
  <1>1. Init => InviteInv
    <2> SUFFICES ASSUME Init PROVE InviteInv
        OBVIOUS
    <2>1. (CHOOSE e \in Emails : TRUE) \in Emails  BY AccountsAssumption
    <2>2. /\ DOMAIN accounts = {1} /\ DOMAIN invites = {} /\ work = [r \in Requests |-> Idle]
          /\ accounts[1] = Account(CHOOSE e \in Emails : TRUE, "service", "none", "operator", 0)
          BY DEF Init
    <2>3. accounts[1].invite = 0  BY <2>1, <2>2, RowTyped DEF AnyRole
    <2> QED  BY <2>2, <2>3, IdleTyped DEF InviteInv, Adds
  <1>2. TypeInv /\ InviteInv => InviteSpentOnce
    <2> SUFFICES ASSUME TypeInv, InviteInv, NEW i \in DOMAIN invites
                 PROVE  LET made == {a \in DOMAIN accounts : accounts[a].invite = i} IN
                        /\ Cardinality(made) = IF invites[i].used THEN 1 ELSE 0
                        /\ \A a \in made : accounts[a].email = invites[i].email
                        /\ \A a \in made \ granted :
                             invites[i].role = IF invites[i].scope = "workspace"
                                                 THEN accounts[a].member ELSE accounts[a].platform
        BY DEF InviteSpentOnce
    <2> DEFINE made == {a \in DOMAIN accounts : accounts[a].invite = i}
    <2>1. \A a \in made : accounts[a].email = invites[i].email /\ invites[i].used = TRUE
          BY DEF InviteInv
    <2>2. \A a \in made \ granted : Offered(accounts[a], invites[i])
          BY DEF InviteInv
    <2>3. \A a, b \in made : a = b  BY <2>1 DEF InviteInv
    <2>4. invites[i].used = TRUE => made # {}  BY DEF InviteInv
    <2>5. invites[i].used \in BOOLEAN
      <3>1. invites[i] \in Invite  BY DEF TypeInv
      <3> QED  BY <3>1 DEF Invite
    <2> HIDE DEF made
    <2>6. CASE invites[i].used = TRUE
      <3>1. PICK a : made = {a}  BY <2>3, <2>4, <2>6
      <3>2. Cardinality(made) = 1  BY <3>1, FS_Singleton
      <3> QED  BY <2>1, <2>2, <2>6, <3>2 DEF Offered, made
    <2>7. CASE invites[i].used = FALSE
      <3>1. made = {}  BY <2>1, <2>7
      <3>2. Cardinality(made) = 0  BY <3>1, FS_EmptySet
      <3> QED  BY <2>1, <2>2, <2>7, <3>2 DEF Offered, made
    <2> QED  BY <2>5, <2>6, <2>7
  <1> QED  BY <1>1, <1>2, InitTyped, StepTyped, StepInvites, PTL DEF Spec
=============================================================================
