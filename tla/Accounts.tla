------------------------------ MODULE Accounts ------------------------------
(***************************************************************************)
(* How accounts come to be, and programs that act as one: InviteService,   *)
(* UserService.create, ServiceAccountService, ApiKeyService and the        *)
(* provisioning of SSOService, with the guards of api/deps.py that an API  *)
(* key passes.  A request reads in one step and commits in another; the    *)
(* unique index on the email decides between two that insert.              *)
(*                                                                         *)
(* There is one workspace.  Those who administer it and the platform are   *)
(* AdminLockout's; here any of them may ask for anything at any time, and  *)
(* their membership changes take one step.  A token, a key or a state is   *)
(* the index of the thing it opens: its hash is found by those who hold it *)
(* and nobody else.  Custom roles are CustomRoles'.                        *)
(***************************************************************************)
EXTENDS Naturals, FiniteSets, Sequences

CONSTANTS
    Emails,        \* emails are compared in lower case
    Roles,         \* the roles that are given
    Requests,      \* requests the server may be working on at once
    AutoProvision, \* oidc_auto_provision
    MaxAccounts, MaxInvites, MaxKeys, MaxFlows, \* bounds: rows ever inserted
    MaxBegun,      \* bound: requests that get past their first reads
    MaxGrants      \* bound: changes of a role or a membership

ASSUME AccountsAssumption ==
    /\ AutoProvision \in BOOLEAN /\ Emails # {}
    /\ Roles \subseteq {"viewer", "operator", "admin"}
    /\ {MaxAccounts, MaxInvites, MaxKeys, MaxFlows, MaxBegun, MaxGrants} \subseteq Nat

VARIABLES
    accounts, \* users in order of insertion, with the role each has where
    invites,  \* invitations, whether burned and whether out of date
    keys,     \* API keys, the account of each and whether revoked
    flows,    \* SSO states Redis still holds
    work,     \* what each request has read
    begun,    \* number of requests past their first reads
    changes,  \* number of role and membership changes
    granted,  \* history: accounts an administrator has given a role since
    opened,   \* history: sessions each SSO flow has opened
    standing  \* history: what has been true of a call's key since it began

stored == <<accounts, invites, keys, flows>>
history == <<granted, opened>>
vars == <<stored, work, begun, changes, history, standing>>

MaxServiceRole == Roles \ {"admin"}   \* SERVICE_ACCOUNT_MAX_ROLE
Highest(rs) ==
    IF "admin" \in rs THEN "admin" ELSE
    IF "operator" \in rs THEN "operator" ELSE IF "viewer" \in rs THEN "viewer" ELSE "none"

Account(email, kind, platform, member, invite) ==
    [email |-> email, kind |-> kind, platform |-> platform, member |-> member,
     invite |-> invite]
Taken(email) == \E a \in DOMAIN accounts : accounts[a].email = email
Idle == [op |-> "none", phase |-> "none", at |-> 0, row |-> <<>>, role |-> "none"]

\* There is a service account already, and it has a key.
Init ==
    /\ accounts = <<Account(CHOOSE e \in Emails : TRUE, "service", "none", "operator", 0)>>
    /\ keys = <<[account |-> 1, revoked |-> FALSE]>>
    /\ invites = <<>> /\ flows = {}
    /\ work = [r \in Requests |-> Idle]
    /\ begun = 0 /\ changes = 0
    /\ granted = {} /\ opened = [f \in 1..MaxFlows |-> 0]
    /\ standing = [r \in Requests |-> {}]

\* Request r has made its first reads: it is about the row numbered at, or
\* about to insert row.
Begin(r, op, phase, at, row, role) ==
    /\ begun < MaxBegun /\ work[r] = Idle
    /\ begun' = begun + 1
    /\ work' = [work EXCEPT ![r] =
         [op |-> op, phase |-> phase, at |-> at, row |-> row, role |-> role]]

Finish(r) == work' = [work EXCEPT ![r] = Idle] /\ UNCHANGED begun
At(r, op, phase) == work[r].op = op /\ work[r].phase = phase
-----------------------------------------------------------------------------
(* Invitations. *)

\* create, by an administrator of the workspace or of the platform.
CreateInvite ==
    /\ Len(invites) < MaxInvites
    /\ \E e \in Emails, role \in Roles, scope \in {"workspace", "platform"} :
         invites' = Append(invites, [email |-> e, role |-> role, scope |-> scope,
                                     used |-> FALSE, expired |-> FALSE])
    /\ UNCHANGED <<accounts, keys, flows, work, begun, changes, history>>

\* Its time runs out.
Lapse ==
    /\ \E i \in DOMAIN invites :
         /\ ~invites[i].expired /\ ~invites[i].used
         /\ invites' = [invites EXCEPT ![i].expired = TRUE]
    /\ UNCHANGED <<accounts, keys, flows, work, begun, changes, history>>

\* A workspace invite grants a role there and none on the platform.
Invited(i) ==
    LET v == invites[i] IN
    Account(v.email, "person", IF v.scope = "platform" THEN v.role ELSE "none",
            IF v.scope = "workspace" THEN v.role ELSE "none", i)

\* redeem, up to the invite and the email it looks up.
Redeem(r) ==
    /\ \E i \in DOMAIN invites :
         /\ ~invites[i].used /\ ~invites[i].expired
         /\ ~Taken(invites[i].email)
         /\ Begin(r, "redeem", "insert", i, Invited(i), "none")
    /\ UNCHANGED <<stored, changes, history>>
-----------------------------------------------------------------------------
(* Accounts made by an administrator. *)

\* UserService.create.
CreateUser(r) ==
    /\ \E e \in Emails, role \in Roles :
         /\ ~Taken(e)
         /\ Begin(r, "create", "insert", 0, Account(e, "person", role, "none", 0), "none")
    /\ UNCHANGED <<stored, changes, history>>

\* Seeded fault: the role is not capped.
CreateUncapped(r) ==
    /\ \E e \in Emails, role \in Roles :
         /\ ~Taken(e)
         /\ Begin(r, "service", "insert", 0, Account(e, "service", "none", role, 0), "none")
    /\ UNCHANGED <<stored, changes, history>>

\* ServiceAccountService.create, for the workspace.
CreateServiceAccount(r) ==
    /\ \E e \in Emails, role \in MaxServiceRole :
         /\ ~Taken(e)
         /\ Begin(r, "service", "insert", 0, Account(e, "service", "none", role, 0), "none")
    /\ UNCHANGED <<stored, changes, history>>

\* An SSO flow ends in a session.
Opened(r) ==
    opened' = IF work[r].op = "sso" THEN [opened EXCEPT ![work[r].at] = @ + 1] ELSE opened

\* What the commit of an insert leaves: the invite is burned with it.
Inserted(r) ==
    /\ accounts' = Append(accounts, work[r].row)
    /\ invites' = IF work[r].op = "redeem"
                    THEN [invites EXCEPT ![work[r].at].used = TRUE] ELSE invites
    /\ Opened(r)

\* Seeded fault: the email is not unique.
InsertAnyway(r) ==
    /\ work[r].phase = "insert" /\ Len(accounts) < MaxAccounts
    /\ Inserted(r)
    /\ Finish(r)
    /\ UNCHANGED <<keys, flows, changes, granted>>

\* The insert: an email that has appeared meanwhile rolls everything back.
Insert(r) ==
    /\ work[r].phase = "insert" /\ Len(accounts) < MaxAccounts
    /\ IF Taken(work[r].row.email)
         THEN UNCHANGED <<accounts, invites, opened>>
         ELSE Inserted(r)
    /\ Finish(r)
    /\ UNCHANGED <<keys, flows, changes, granted>>

\* The roles an administrator gives an account that exists: set_roles on the
\* platform; add_member, set_member_role or remove_member in the workspace.
Grant ==
    /\ changes < MaxGrants /\ changes' = changes + 1
    /\ \E a \in DOMAIN accounts, role \in Roles \cup {"none"} :
         /\ \/ accounts' = [accounts EXCEPT ![a].platform = role]
            \/ accounts' = [accounts EXCEPT ![a].member = role]
         /\ granted' = granted \cup {a}
    /\ UNCHANGED <<invites, keys, flows, work, begun, opened>>
-----------------------------------------------------------------------------
(* Single sign-on. *)

\* begin stores the state of a new flow.
BeginSSO ==
    /\ \E f \in 1..MaxFlows :
         /\ opened[f] = 0 /\ \A r \in Requests : ~(work[r].op = "sso" /\ work[r].at = f)
         /\ f \notin flows /\ flows' = flows \cup {f}
    /\ UNCHANGED <<accounts, invites, keys, work, begun, changes, history>>

\* Seeded fault: GET in place of GETDEL.
TakeStateKeeps(f) == f \in flows /\ flows' = flows

\* complete takes the state; a second use of it, or a late one, finds nothing.
TakeState(f) == f \in flows /\ flows' = flows \ {f}

CompleteSSO(r) ==
    /\ \E f \in flows, e \in Emails :
         /\ TakeState(f)
         /\ Begin(r, "sso", "provider", f, Account(e, "person", "viewer", "none", 0), "none")
    /\ UNCHANGED <<accounts, invites, keys, changes, history>>

\* The provider has vouched for the email, and the user is looked up: an
\* unknown one is inserted, if accounts are provisioned, or refused.
Vouched(r) ==
    /\ At(r, "sso", "provider")
    /\ Taken(work[r].row.email) \/ AutoProvision
    /\ work' = [work EXCEPT ![r].phase =
                  IF Taken(work[r].row.email) THEN "session" ELSE "insert"]
    /\ UNCHANGED <<stored, begun, changes, history>>

OpenSession(r) ==
    /\ At(r, "sso", "session")
    /\ Opened(r)
    /\ Finish(r)
    /\ UNCHANGED <<stored, changes, granted>>
-----------------------------------------------------------------------------
(* API keys. *)

\* _require_ws_service_account: the account serves, and is of the workspace.
Serves(a) == accounts[a].kind = "service" /\ accounts[a].member # "none"

Mint(r) ==
    /\ \E a \in DOMAIN accounts : Serves(a) /\ Begin(r, "mint", "commit", a, <<>>, "none")
    /\ UNCHANGED <<stored, changes, history>>

CommitMint(r) ==
    /\ At(r, "mint", "commit") /\ Len(keys) < MaxKeys
    /\ keys' = Append(keys, [account |-> work[r].at, revoked |-> FALSE])
    /\ Finish(r)
    /\ UNCHANGED <<accounts, invites, flows, changes, history>>

\* revoke: only a key of an account that is still of the workspace.
Revoke(r) ==
    /\ \E k \in DOMAIN keys :
         /\ ~keys[k].revoked /\ Serves(keys[k].account)
         /\ Begin(r, "revoke", "commit", k, <<>>, "none")
    /\ UNCHANGED <<stored, changes, history>>

CommitRevoke(r) ==
    /\ At(r, "revoke", "commit")
    /\ keys' = [keys EXCEPT ![work[r].at].revoked = TRUE]
    /\ Finish(r)
    /\ UNCHANGED <<accounts, invites, flows, changes, history>>

\* Seeded fault: a revoked key is still found.
AuthenticateAny(r) ==
    /\ \E k \in DOMAIN keys :
         Begin(r, "call", "stamp", k, <<>>, accounts[keys[k].account].platform)
    /\ UNCHANGED <<stored, changes, history>>

\* authenticate: the key, then its account with the platform roles.
Authenticate(r) ==
    /\ \E k \in DOMAIN keys :
         /\ ~keys[k].revoked
         /\ Begin(r, "call", "stamp", k, <<>>, accounts[keys[k].account].platform)
    /\ UNCHANGED <<stored, changes, history>>

\* Seeded fault: the commit writes the whole row back.
StampRow(r) ==
    /\ At(r, "call", "stamp")
    /\ keys' = [keys EXCEPT ![work[r].at].revoked = FALSE]
    /\ work' = [work EXCEPT ![r].phase = "workspace"]
    /\ UNCHANGED <<accounts, invites, flows, begun, changes, history>>

\* last_used_at is committed, and no other column.
Stamp(r) ==
    /\ At(r, "call", "stamp")
    /\ work' = [work EXCEPT ![r].phase = "workspace"]
    /\ UNCHANGED <<stored, begun, changes, history>>

\* get_workspace and require_permission: the platform roles are those
\* authenticate loaded; the membership is read once, if a header asks for the
\* workspace, and an administrator of the platform needs none.
Authorise(r) ==
    LET member == accounts[keys[work[r].at].account].member
        platform == work[r].role IN
    /\ At(r, "call", "workspace")
    /\ \E header \in BOOLEAN :
         LET role == IF header THEN Highest({platform, member}) ELSE platform IN
         /\ role # "none"
         /\ work' = [work EXCEPT ![r] =
              [op |-> "call", phase |-> "act", at |-> @.at, row |-> @.row, role |-> role]]
    /\ UNCHANGED <<stored, begun, changes, history>>

\* The request acts, or any request is refused or fails before its commit.
End(r) ==
    /\ work[r] # Idle
    /\ Finish(r)
    /\ UNCHANGED <<stored, changes, history>>
-----------------------------------------------------------------------------
\* What is true of the call of r in the present state, and has been since it
\* began: its key is live, its account holds these roles.
Facts(r) ==
    LET k == keys[work[r].at] IN
    {IF k.revoked THEN "revoked" ELSE "live",
     accounts[k.account].platform, accounts[k.account].member}
Witnessed ==
    standing' = [r \in Requests |->
        IF work'[r].op = "call" THEN standing[r] \cup Facts(r)' ELSE {}]

Handle(r) ==
    \/ Redeem(r) \/ CreateUser(r) \/ CreateServiceAccount(r) \/ Insert(r)
    \/ CompleteSSO(r) \/ Vouched(r) \/ OpenSession(r)
    \/ Mint(r) \/ CommitMint(r) \/ Revoke(r) \/ CommitRevoke(r)
    \/ Authenticate(r) \/ Stamp(r) \/ Authorise(r) \/ End(r)

Next ==
    /\ CreateInvite \/ Lapse \/ Grant \/ BeginSSO \/ \E r \in Requests : Handle(r)
    /\ Witnessed

Spec == Init /\ [][Next]_vars
-----------------------------------------------------------------------------
(***************************************************************************)
(* Properties.                                                             *)
(***************************************************************************)

\* "Invites are single-use: used_at is set before the account is created,
\* inside the same transaction" (models/access.py): an invite is burned by
\* exactly the account it made, which has its email and, until somebody
\* grants another, its role, there where the invite is for.
InviteSpentOnce ==
    \A i \in DOMAIN invites :
        LET made == {a \in DOMAIN accounts : accounts[a].invite = i} IN
        /\ Cardinality(made) = IF invites[i].used THEN 1 ELSE 0
        /\ \A a \in made : accounts[a].email = invites[i].email
        /\ \A a \in made \ granted :
             invites[i].role = IF invites[i].scope = "workspace"
                                 THEN accounts[a].member ELSE accounts[a].platform

\* complete "gets and deletes" the state (sso.py): a flow opens one session,
\* however often and however late its callback is played.
FlowOpensOne == \A f \in 1..MaxFlows : opened[f] <= 1

\* A call made with a key commits last_used_at after it has looked at
\* revoked_at (apikeys.py): it never brings a revoked key back.
RevokedForGood ==
    [][\A k \in DOMAIN keys : keys[k].revoked => keys'[k].revoked]_vars

\* What a key may do is decided by three reads (deps.py): a call that is let
\* act began with the key live, and its account has held the role it acts
\* with while the call lasted, so none outlives a revocation, a removal or a
\* demotion by more than the call that was in flight.
CallsHadStanding ==
    \A r \in Requests :
        work[r].phase = "act" => {"live", work[r].role} \subseteq standing[r]

\* "Their role is capped at OPERATOR" (apikeys.py), when they are created: a
\* key acts with more only after an administrator gave its account a role.
KeysStayCapped ==
    \A r \in Requests :
        work[r].phase = "act" /\ work[r].role = "admin"
            => keys[work[r].at].account \in granted
=============================================================================
