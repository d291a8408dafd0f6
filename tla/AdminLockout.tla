---------------------------- MODULE AdminLockout ----------------------------
(***************************************************************************)
(* Who administers a workspace and the platform: WorkspaceService's        *)
(* membership operations (services/workspaces.py) on one workspace, and    *)
(* UserService.set_roles (services/users.py).  Each request authorises its *)
(* actor and reads the row it is about, then counts the admins if it is    *)
(* about to take an admin away, then commits: three steps, and another     *)
(* request may run between any two of them.                                *)
(***************************************************************************)
EXTENDS Naturals, FiniteSets

CONSTANTS
    Users,
    Founder,  \* creates the workspace; the first platform admin
    Requests  \* requests the server may be working on at once

ASSUME AdminAssumption == IsFiniteSet(Users) /\ Founder \in Users

VARIABLES
    role,     \* role[u]: u's role in the workspace, "none" for no membership
    platform, \* users holding the platform role admin
    req,      \* what each request is about to do, and the role it has read
    overtaken \* history: requests about to commit that another overtook

vars == <<role, platform, req, overtaken>>

Roles == {"admin", "operator", "viewer", "none"}
Ops   == {"set_member_role", "remove_member", "set_roles"}
Idle  == [phase |-> "idle", op |-> "set_roles", user |-> Founder,
          was |-> "none", to |-> "none"]
Request == [phase: {"idle", "count", "commit"}, op: Ops, user: Users,
            was: Roles, to: Roles]

Admins == {u \in Users : role[u] = "admin"}

Init ==
    /\ role = [u \in Users |-> IF u = Founder THEN "admin" ELSE "none"]
    /\ platform = {Founder}
    /\ req = [r \in Requests |-> Idle]
    /\ overtaken = {}

\* A request that takes an admin away counts them first.
Enter(r, op, u, was, to) ==
    /\ req[r] = Idle
    /\ req' = [req EXCEPT ![r] =
         [phase |-> IF was = "admin" /\ to # "admin" THEN "count" ELSE "commit",
          op |-> op, user |-> u, was |-> was, to |-> to]]
    /\ UNCHANGED <<role, platform, overtaken>>

\* Request r is over.  If its commit changed a row, it overtook those of its
\* kind that are past their count when it took an admin away or wrote the row
\* that they are about.
Leave(r, changed, adminLost) ==
    /\ req' = [req EXCEPT ![r] = Idle]
    /\ overtaken' = (overtaken \ {r}) \cup
         {s \in Requests \ {r} :
            /\ req[s].phase = "commit"
            /\ (req[s].op = "set_roles") = (req[r].op = "set_roles")
            /\ adminLost \/ (changed /\ req[s].user = req[r].user)}

\* _require_ws_admin: an admin of the workspace or of the platform.
ActsAsAdmin(a) == a \in Admins \cup platform
-----------------------------------------------------------------------------
\* add_member: a user joins; a concurrent insert is a primary-key violation.
AddMember ==
    /\ \E a \in Users : ActsAsAdmin(a)
    /\ \E u \in Users, to \in Roles \ {"none"} :
         /\ role[u] = "none"
         /\ role' = [role EXCEPT ![u] = to]
    /\ UNCHANGED <<platform, req, overtaken>>

\* set_member_role and remove_member, up to the membership they load.
\* Nobody demotes himself; an admin may remove himself.
SetMemberRole(r) ==
    \E a, u \in Users, to \in Roles \ {"none"} :
        /\ ActsAsAdmin(a) /\ role[u] # "none"
        /\ ~(a = u /\ role[u] = "admin" /\ to # "admin")
        /\ Enter(r, "set_member_role", u, role[u], to)

RemoveMember(r) ==
    \E a, u \in Users :
        /\ ActsAsAdmin(a) /\ role[u] # "none"
        /\ Enter(r, "remove_member", u, role[u], "none")

\* set_roles, by a platform admin, up to the roles it loads.
SetRoles(r) ==
    /\ platform # {}
    /\ \E u \in Users, to \in {"admin", "none"} :
         Enter(r, "set_roles", u,
               IF u \in platform THEN "admin" ELSE "none", to)

\* Seeded fault: a guard that lets the last admin go.
CountZero(r) ==
    /\ req[r].phase = "count"
    /\ IF Cardinality(IF req[r].op = "set_roles" THEN platform ELSE Admins) < 1
         THEN req' = [req EXCEPT ![r] = Idle]
         ELSE req' = [req EXCEPT ![r].phase = "commit"]
    /\ UNCHANGED <<role, platform, overtaken>>

\* _admin_count: the request is refused when it would take the last admin.
Count(r) ==
    /\ req[r].phase = "count"
    /\ IF Cardinality(IF req[r].op = "set_roles" THEN platform ELSE Admins) <= 1
         THEN req' = [req EXCEPT ![r] = Idle]
         ELSE req' = [req EXCEPT ![r].phase = "commit"]
    /\ UNCHANGED <<role, platform, overtaken>>

\* The commit of a workspace request.  Deleting a row that is gone changes
\* nothing; updating one is an error that rolls back; the ORM writes a role
\* only if it differs from the one it loaded.
CommitMember(r) ==
    LET q == req[r] IN
    /\ q.phase = "commit" /\ q.op # "set_roles"
    /\ role' = IF role[q.user] = "none" \/ q.to = q.was THEN role
               ELSE [role EXCEPT ![q.user] = q.to]
    /\ Leave(r, role' # role, ~(Admins \subseteq Admins'))
    /\ UNCHANGED platform

\* The commit of set_roles: the assignments the request loaded are replaced.
\* An admin row that it keeps but is gone by now, or that it inserts but
\* has appeared by now, is an error that rolls back.
CommitRoles(r) ==
    LET q == req[r] IN
    /\ q.phase = "commit" /\ q.op = "set_roles"
    /\ platform' = IF q.to = "admin" /\ q.was = "none" THEN platform \cup {q.user}
                   ELSE IF q.to = "none" /\ q.was = "admin" THEN platform \ {q.user}
                   ELSE platform
    /\ Leave(r, platform' # platform, ~(platform \subseteq platform'))
    /\ UNCHANGED role

\* The request fails before its commit.
Abort(r) ==
    /\ req[r] # Idle
    /\ Leave(r, FALSE, FALSE)
    /\ UNCHANGED <<role, platform>>

Handle(r) ==
    \/ SetMemberRole(r) \/ RemoveMember(r) \/ SetRoles(r)
    \/ Count(r) \/ CommitMember(r) \/ CommitRoles(r) \/ Abort(r)

Next == AddMember \/ \E r \in Requests : Handle(r)

Spec == Init /\ [][Next]_vars
-----------------------------------------------------------------------------
(***************************************************************************)
(* Properties.                                                             *)
(***************************************************************************)

\* Types; only a request that takes an admin away counts them.
TypeOK ==
    /\ role \in [Users -> Roles] /\ platform \subseteq Users
    /\ req \in [Requests -> Request]
    /\ \A r \in Requests :
         /\ req[r].phase = "idle" => req[r] = Idle
         /\ req[r].phase = "count" => req[r].was = "admin" /\ req[r].to # "admin"
    /\ overtaken \subseteq {r \in Requests : req[r].phase = "commit"}

\* "The last workspace admin cannot be removed or demoted" (workspaces.py):
\* the workspace always has an admin.  The code does not see to it.
WorkspaceKeepsAdmin == Admins # {}

\* What it does see to: the request that leaves the workspace without an admin
\* is one that had counted, or found nothing to count, and was overtaken by
\* another before its commit (set_member_role, remove_member).
WorkspaceGuardHolds ==
    [][Admins # {} /\ Admins' = {} =>
         \E r \in overtaken : req[r].op # "set_roles" /\ req'[r] = Idle]_vars

\* "The last platform admin cannot be stripped of the role by anyone"
\* (users.py), unless by a set_roles that another one overtook between its
\* count and its commit.
PlatformGuardHolds ==
    [][platform # {} /\ platform' = {} =>
         \E r \in overtaken : req[r].op = "set_roles" /\ req'[r] = Idle]_vars

(***************************************************************************)
(* Why they hold: as long as nobody overtakes a request, what it has found *)
(* out is still so when it commits.                                        *)
(***************************************************************************)
TakesAdmin(q) == q.was = "admin" /\ q.to # "admin"

\* What it takes away is not the last of its kind; and a membership that was
\* not an admin's is as it was.
GuardInv ==
    \A r \in Requests \ overtaken : req[r].phase = "commit" =>
        /\ TakesAdmin(req[r]) =>
             Cardinality(IF req[r].op = "set_roles" THEN platform ELSE Admins) > 1
        /\ req[r].op # "set_roles" /\ req[r].was # "admin" =>
             role[req[r].user] = req[r].was /\ req[r].was # "none"

IInv == TypeOK /\ GuardInv
=============================================================================
