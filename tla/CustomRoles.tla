---------------------------- MODULE CustomRoles ----------------------------
(***************************************************************************)
(* Custom roles of one workspace and the approval of those that contain a  *)
(* sensitive permission (services/rbac.py), beside the membership changes  *)
(* of AdminLockout.  A request authorises its actor and loads its rows in  *)
(* one step and commits in another, and anything may happen in between.    *)
(*                                                                         *)
(* A role is never edited or deleted, so it is named by its slug, which is *)
(* unique in the workspace; so is its approval request.                    *)
(***************************************************************************)
EXTENDS AdminLockout

CONSTANTS
    Slugs,        \* slugs of custom roles
    Permissions,  \* the permission catalog
    Sensitive,    \* SENSITIVE_PERMISSIONS
    Bundles,      \* permission sets the chosen groups may resolve to
    RoleRequests, \* requests about custom roles that may be in progress
    MaxBusy,      \* bound: requests of both kinds in progress at once
    None          \* no row, or SQL NULL

ASSUME RolesAssumption ==
    /\ Sensitive \subseteq Permissions
    /\ Bundles \subseteq SUBSET Permissions
    /\ None \notin Slugs /\ None \notin Users
    /\ MaxBusy \in Nat

VARIABLES
    roles,     \* rows of custom_roles
    approvals, \* rows of approval_requests, by the slug of their subject
    custom,    \* custom_role_id of every membership
    job,       \* what each request has loaded and is about to commit
    overruled  \* history: slugs decided a second time

roleVars == <<roles, approvals, custom, job, overruled>>
allVars  == <<vars, roleVars>>

CustomRole == [status: {"pending", "active", "rejected"},
               permissions: SUBSET Permissions]

ApprovalRequest == [status: {"pending", "approved", "rejected"},
                    requested_by: Users, decided_by: Users \cup {None}]

ASSUME RowAssumption == None \notin CustomRole /\ None \notin ApprovalRequest

NoJob == [op |-> "none", actor |-> None, slug |-> None, user |-> None,
          permissions |-> {}, was |-> None, approve |-> FALSE]

Job == [op: {"none", "create", "assign", "unassign", "decide"},
        actor: Users \cup {None}, slug: Slugs \cup {None},
        user: Users \cup {None}, permissions: SUBSET Permissions,
        was: Slugs \cup {None}, approve: BOOLEAN]

RolesInit ==
    /\ Init
    /\ roles = [s \in Slugs |-> None]
    /\ approvals = [s \in Slugs |-> None]
    /\ custom = [u \in Users |-> None]
    /\ job = [q \in RoleRequests |-> NoJob]
    /\ overruled = {}

NeedsApproval(p) == p \cap Sensitive # {}

\* A request by an admin starts; nothing is written before its commit.
Start(q, j) ==
    /\ job[q] = NoJob
    /\ job' = [job EXCEPT ![q] = j]
    /\ UNCHANGED <<vars, roles, approvals, custom, overruled>>

Finish(q) == job' = [job EXCEPT ![q] = NoJob]
-----------------------------------------------------------------------------
\* CustomRoleService.create, up to its check of the slug.
Create(q) ==
    \E a \in Users, s \in Slugs, p \in Bundles \ {{}} :
        /\ ActsAsAdmin(a) /\ roles[s] = None
        /\ Start(q, [NoJob EXCEPT !.op = "create", !.actor = a, !.slug = s,
                                  !.permissions = p])

\* Seeded fault: every new role is active.
CommitCreateActive(q) ==
    LET j == job[q] IN
    /\ j.op = "create" /\ roles[j.slug] = None
    /\ roles' = [roles EXCEPT ![j.slug] =
                   [status |-> "active", permissions |-> j.permissions]]
    /\ approvals' = [approvals EXCEPT ![j.slug] =
         IF NeedsApproval(j.permissions)
           THEN [status |-> "pending", requested_by |-> j.actor,
                 decided_by |-> None]
           ELSE None]
    /\ Finish(q)
    /\ UNCHANGED <<vars, custom, overruled>>

\* Its commit: a sensitive role is pending and comes with its request.  A
\* slug taken meanwhile is a unique violation.
CommitCreate(q) ==
    LET j == job[q] IN
    /\ j.op = "create" /\ roles[j.slug] = None
    /\ roles' = [roles EXCEPT ![j.slug] =
         [status |-> IF NeedsApproval(j.permissions) THEN "pending" ELSE "active",
          permissions |-> j.permissions]]
    /\ approvals' = [approvals EXCEPT ![j.slug] =
         IF NeedsApproval(j.permissions)
           THEN [status |-> "pending", requested_by |-> j.actor,
                 decided_by |-> None]
           ELSE None]
    /\ Finish(q)
    /\ UNCHANGED <<vars, custom, overruled>>

\* Seeded fault: the requester may decide.
DecideAnyone(q) ==
    \E a \in Users, s \in Slugs, yes \in BOOLEAN :
        /\ ActsAsAdmin(a) /\ approvals[s] # None
        /\ approvals[s].status = "pending"
        /\ Start(q, [NoJob EXCEPT !.op = "decide", !.actor = a, !.slug = s,
                                  !.approve = yes])

\* ApprovalService.decide, up to its checks: the request is pending, and
\* the actor is not the one who made it.
Decide(q) ==
    \E a \in Users, s \in Slugs, yes \in BOOLEAN :
        /\ ActsAsAdmin(a) /\ approvals[s] # None
        /\ approvals[s].status = "pending" /\ approvals[s].requested_by # a
        /\ Start(q, [NoJob EXCEPT !.op = "decide", !.actor = a, !.slug = s,
                                  !.approve = yes])

\* Its writes and commit.  The request row is flushed before the role is
\* loaded and stays locked until the commit, so both rows change together.
\* A request decided meanwhile is decided again.
CommitDecide(q) ==
    LET j == job[q] IN
    /\ j.op = "decide"
    /\ approvals' = [approvals EXCEPT
         ![j.slug].status = IF j.approve THEN "approved" ELSE "rejected",
         ![j.slug].decided_by = j.actor]
    /\ roles' = [roles EXCEPT
         ![j.slug].status = IF j.approve THEN "active" ELSE "rejected"]
    /\ overruled' = IF approvals[j.slug].status = "pending" THEN overruled
                    ELSE overruled \cup {j.slug}
    /\ Finish(q)
    /\ UNCHANGED <<vars, custom>>

\* Seeded fault: a role is assignable in any status.
AssignUnchecked(q) ==
    \E u \in Users, s \in Slugs :
        /\ \E a \in Users : ActsAsAdmin(a)
        /\ roles[s] # None /\ role[u] # "none"
        /\ Start(q, [NoJob EXCEPT !.op = "assign", !.user = u, !.slug = s,
                                  !.was = custom[u]])

\* assign and unassign, up to the membership they load.
Assign(q) ==
    \E u \in Users, s \in Slugs :
        /\ \E a \in Users : ActsAsAdmin(a)
        /\ roles[s] # None /\ roles[s].status = "active"
        /\ role[u] # "none"
        /\ Start(q, [NoJob EXCEPT !.op = "assign", !.user = u, !.slug = s,
                                  !.was = custom[u]])

Unassign(q) ==
    \E u \in Users :
        /\ \E a \in Users : ActsAsAdmin(a)
        /\ role[u] # "none"
        /\ Start(q, [NoJob EXCEPT !.op = "unassign", !.user = u,
                                  !.was = custom[u]])

\* Their commit.  custom_role_id is written only if it differs from the one
\* loaded, and a membership that is gone by then is an error.
CommitAssignment(q) ==
    LET j == job[q] IN
    /\ j.op \in {"assign", "unassign"}
    /\ custom' = IF j.slug = j.was \/ role[j.user] = "none" THEN custom
                 ELSE [custom EXCEPT ![j.user] = j.slug]
    /\ Finish(q)
    /\ UNCHANGED <<vars, roles, approvals, overruled>>

\* A request fails before its commit.
AbortRole(q) ==
    /\ job[q] # NoJob
    /\ Finish(q)
    /\ UNCHANGED <<vars, roles, approvals, custom, overruled>>

\* The steps of AdminLockout; a removed membership takes its custom_role_id
\* with it, a new one has none.
Membership ==
    /\ Next
    /\ custom' = [u \in Users |-> IF role'[u] = "none" THEN None ELSE custom[u]]
    /\ UNCHANGED <<roles, approvals, job, overruled>>

RoleHandler(q) ==
    \/ Create(q) \/ CommitCreate(q)
    \/ Decide(q) \/ CommitDecide(q)
    \/ Assign(q) \/ Unassign(q) \/ CommitAssignment(q)
    \/ AbortRole(q)

Busy ==
    Cardinality({r \in Requests : req[r] # Idle})
      + Cardinality({q \in RoleRequests : job[q] # NoJob})

RolesNext ==
    /\ Membership \/ \E q \in RoleRequests : RoleHandler(q)
    /\ Busy' <= MaxBusy

RolesSpec == RolesInit /\ [][RolesNext]_allVars
-----------------------------------------------------------------------------
\* effective_custom_permissions: what a member's custom role confers.
Confers(u) ==
    IF custom[u] = None \/ roles[custom[u]].status # "active" THEN {}
    ELSE roles[custom[u]].permissions

\* Types.
RolesTypeOK ==
    /\ roles \in [Slugs -> CustomRole \cup {None}]
    /\ approvals \in [Slugs -> ApprovalRequest \cup {None}]
    /\ custom \in [Users -> Slugs \cup {None}]
    /\ job \in [RoleRequests -> Job]
    /\ overruled \subseteq Slugs

\* "Roles that include sensitive permissions activate only after a second
\* workspace admin approves" (models/rbac.py): however requests overlap, a
\* sensitive permission conferred by a custom role was approved by another
\* person than the one who asked for it.
TwoPersonRule ==
    \A u \in Users : Confers(u) \cap Sensitive # {} =>
        /\ approvals[custom[u]] # None
        /\ approvals[custom[u]].status = "approved"
        /\ approvals[custom[u]].decided_by \notin
             {None, approvals[custom[u]].requested_by}

\* A role and its approval request never disagree, whatever decisions
\* overlap: the role is active if and only if the last decision says so.
DecisionGoverns ==
    \A s \in Slugs : roles[s] # None =>
        IF NeedsApproval(roles[s].permissions)
          THEN /\ approvals[s] # None
               /\ <<approvals[s].status, roles[s].status>> \in
                    {<<"pending", "pending">>, <<"approved", "active">>,
                     <<"rejected", "rejected">>}
          ELSE approvals[s] = None /\ roles[s].status = "active"

\* "Pending and rejected roles are unassignable" (ADR-0014): who holds a role
\* is a member, and the role is active.  The one exception is a decision that
\* overlapped another: committed second, it rejects a role that the first
\* made active and that somebody was given since (ApprovalService.decide does
\* not look again, assign does not either); even then it is not pending.
HeldRolesActive ==
    \A u \in Users : custom[u] # None =>
        /\ role[u] # "none"
        /\ roles[custom[u]] # None
        /\ \/ roles[custom[u]].status = "active"
           \/ custom[u] \in overruled /\ roles[custom[u]].status = "rejected"

(***************************************************************************)
(* The inductive invariant.                                                *)
(***************************************************************************)
\* What a request has loaded stays true as far as its commit relies on it:
\* a role that was active is so unless it was decided on again, and the one
\* who asked for an approval stays the one who asked.
JobsSound ==
    \A q \in RoleRequests :
        LET j == job[q] IN
        /\ j.op = "create" =>
             j.actor \in Users /\ j.slug \in Slugs /\ j.permissions # {}
        /\ j.op = "decide" =>
             /\ j.slug \in Slugs /\ j.actor \in Users
             /\ roles[j.slug] # None /\ approvals[j.slug] # None
             /\ approvals[j.slug].requested_by # j.actor
        /\ j.op \in {"assign", "unassign"} => j.user \in Users
        /\ j.op = "assign" =>
             /\ j.slug \in Slugs
             /\ roles[j.slug] # None
             /\ \/ roles[j.slug].status = "active"
                \/ j.slug \in overruled /\ roles[j.slug].status = "rejected"
        /\ j.op = "unassign" => j.slug = None

DecidedByAnother ==
    \A s \in Slugs :
        approvals[s] # None /\ approvals[s].status # "pending" =>
            approvals[s].decided_by \notin {None, approvals[s].requested_by}

\* Nobody is asked to approve a role that does not exist.
RequestsHaveRoles == \A s \in Slugs : approvals[s] # None => roles[s] # None

RolesInv ==
    /\ RolesTypeOK /\ DecisionGoverns /\ HeldRolesActive
    /\ JobsSound /\ DecidedByAnother /\ RequestsHaveRoles
=============================================================================
