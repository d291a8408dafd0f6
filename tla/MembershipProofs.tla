-------------------------- MODULE MembershipProofs --------------------------
(***************************************************************************)
(* Theorems about AdminLockout and CustomRoles, for every set of users,    *)
(* slugs and requests.                                                     *)
(*                                                                         *)
(* AdminLockout, however the requests overlap: the one that leaves the     *)
(* workspace or the platform without an admin was overtaken by another,    *)
(* since what a request has counted stays true until somebody does so      *)
(* (GuardInv).                                                             *)
(*                                                                         *)
(* CustomRoles, however the requests overlap: RolesInv is inductive, since *)
(* what a request has loaded stays true as far as its commit relies on it  *)
(* (JobsSound): a role leaves "pending" for good, only a second decision   *)
(* takes "active" from it, and the one who asked for an approval never     *)
(* changes.                                                                *)
(***************************************************************************)
EXTENDS CustomRoles, FiniteSetTheorems, TLAPS

\* Taking one element out of a set of more than one leaves some.
LEMMA RemoveOne ==
    ASSUME NEW S, IsFiniteSet(S), NEW x, Cardinality(S) > 1
    PROVE  S \ {x} # {}
  <1>1. Cardinality(S) \in Nat  BY FS_CardinalityType
  <1>2. IsFiniteSet(S \ {x}) /\ Cardinality(S \ {x}) >= Cardinality(S) - 1
        BY <1>1, FS_RemoveElement
  <1>3. Cardinality(S \ {x}) # 0
    <2>1. Cardinality(S \ {x}) \in Nat  BY <1>2, FS_CardinalityType
    <2> QED  BY <1>1, <1>2, <2>1
  <1> QED  BY <1>3, FS_EmptySet

\* The admins of the workspace and of the platform are finitely many.
LEMMA FinitelyMany ==
    ASSUME TypeOK
    PROVE  IsFiniteSet(Admins) /\ IsFiniteSet(platform)
  BY AdminAssumption, FS_Subset DEF TypeOK, Admins

\* A set that is not empty and does not have one element at most has two.
LEMMA MoreThanOne ==
    ASSUME NEW S, IsFiniteSet(S), ~(Cardinality(S) <= 1)
    PROVE  Cardinality(S) > 1
  <1>1. Cardinality(S) \in Nat  BY FS_CardinalityType
  <1> QED  BY <1>1

\* The empty server satisfies the invariant.
LEMMA StartsSafe == Init => IInv
  <1> SUFFICES ASSUME Init PROVE IInv
      OBVIOUS
  <1>1. TypeOK
        BY AdminAssumption DEF Init, TypeOK, Roles, Request, Idle, Ops
  <1>2. GuardInv  BY DEF Init, GuardInv, Idle
  <1> QED  BY <1>1, <1>2 DEF IInv

\* What GuardInv says of one request.
Secure(s) ==
    /\ TakesAdmin(req[s]) =>
         Cardinality(IF req[s].op = "set_roles" THEN platform ELSE Admins) > 1
    /\ req[s].op # "set_roles" /\ req[s].was # "admin" =>
         role[req[s].user] = req[s].was /\ req[s].was # "none"

\* A set of more than one element that only grows keeps more than one.
LEMMA GrowsPastOne ==
    ASSUME NEW S, NEW T, IsFiniteSet(T), S \subseteq T, Cardinality(S) > 1
    PROVE  Cardinality(T) > 1
  <1>1. IsFiniteSet(S) /\ Cardinality(S) <= Cardinality(T)  BY FS_Subset
  <1>2. Cardinality(S) \in Nat /\ Cardinality(T) \in Nat
        BY <1>1, FS_CardinalityType
  <1> QED  BY <1>1, <1>2

\* A request that waits to commit stays secure over a step that takes no
\* admin of its kind away and does not write the row that it is about.
LEMMA StaysSecure ==
    ASSUME TypeOK, TypeOK', NEW s \in Requests, Secure(s), req'[s] = req[s],
           req[s].op = "set_roles" => platform \subseteq platform',
           req[s].op # "set_roles" =>
             /\ Admins \subseteq Admins'
             /\ \/ role'[req[s].user] = role[req[s].user]
                \/ role[req[s].user] = "none"
    PROVE  Secure(s)'
  <1>1. IsFiniteSet(Admins') /\ IsFiniteSet(platform')
        BY AdminAssumption, FS_Subset DEF TypeOK, Admins
  <1>2. CASE req[s].op = "set_roles"
    <2>1. TakesAdmin(req[s]) => Cardinality(platform') > 1
          BY <1>1, <1>2, GrowsPastOne DEF Secure
    <2> QED  BY <1>2, <2>1 DEF Secure
  <1>3. CASE req[s].op # "set_roles"
    <2>1. TakesAdmin(req[s]) => Cardinality(Admins') > 1
          BY <1>1, <1>3, GrowsPastOne DEF Secure
    <2>2. req[s].was # "admin" =>
             role'[req[s].user] = req[s].was /\ req[s].was # "none"
          BY <1>3 DEF Secure
    <2> QED  BY <1>3, <2>1, <2>2 DEF Secure
  <1> QED  BY <1>2, <1>3

\* A request that enters: what it has read is what the tables say.
LEMMA EnterSafe ==
    ASSUME IInv, NEW r \in Requests, NEW op \in Ops, NEW u \in Users,
           NEW was \in Roles, NEW to \in Roles,
           Enter(r, op, u, was, to),
           op # "set_roles" => was = role[u] /\ was # "none"
    PROVE  IInv'
  <1> DEFINE q == [phase |-> IF was = "admin" /\ to # "admin" THEN "count" ELSE "commit",
                   op |-> op, user |-> u, was |-> was, to |-> to]
  <1>1. /\ req' = [req EXCEPT ![r] = q] /\ req[r] = Idle
        /\ role' = role /\ platform' = platform /\ overtaken' = overtaken
        BY DEF Enter
  <1>2. q \in Request /\ q.phase # "idle"  BY DEF Request
  <1>3. /\ req'[r] = q
        /\ \A s \in Requests : s # r => req'[s] = req[s]
        BY <1>1 DEF IInv, TypeOK
  <1> HIDE DEF q
  <1>4. q = [phase |-> IF was = "admin" /\ to # "admin" THEN "count" ELSE "commit",
             op |-> op, user |-> u, was |-> was, to |-> to]
        BY DEF q
  <1>5. r \notin overtaken  BY <1>1 DEF IInv, TypeOK, Idle
  <1>6. TypeOK'
    <2>1. req' \in [Requests -> Request]  BY <1>1, <1>2 DEF IInv, TypeOK
    <2>2. \A s \in Requests : req'[s].phase = "idle" => req'[s] = Idle
          BY <1>2, <1>3 DEF IInv, TypeOK
    <2>3. \A s \in Requests : req'[s].phase = "count" =>
              req'[s].was = "admin" /\ req'[s].to # "admin"
          BY <1>3, <1>4 DEF IInv, TypeOK
    <2>4. overtaken' \subseteq {s \in Requests : req'[s].phase = "commit"}
          BY <1>1, <1>3, <1>5 DEF IInv, TypeOK
    <2> QED  BY <2>1, <2>2, <2>3, <2>4, <1>1 DEF IInv, TypeOK
  <1>7. GuardInv'
    <2> SUFFICES ASSUME NEW s \in Requests, s \notin overtaken',
                        req'[s].phase = "commit"
                 PROVE  Secure(s)'
        BY DEF GuardInv, Secure
    <2>1. CASE s = r
          BY <1>1, <1>3, <1>4, <2>1 DEF Secure, TakesAdmin
    <2>2. CASE s # r
      <3>1. Secure(s)  BY <1>1, <1>3, <2>2 DEF IInv, GuardInv, Secure
      <3>2. Admins' = Admins  BY <1>1 DEF Admins
      <3> QED  BY <1>1, <1>3, <1>6, <2>2, <3>1, <3>2, StaysSecure DEF IInv
    <2> QED  BY <2>1, <2>2
  <1> QED  BY <1>6, <1>7 DEF IInv

\* A request leaves: those it does not overtake stay secure.
LEMMA LeaveSafe ==
    ASSUME IInv, NEW r \in Requests, NEW changed, NEW adminLost,
           Leave(r, changed, adminLost), req[r] # Idle,
           role' \in [Users -> Roles], platform' \subseteq Users,
           \A s \in Requests \ {r} :
             (req[s].op = "set_roles") = (req[r].op = "set_roles") =>
               \/ adminLost
               \/ changed /\ req[s].user = req[r].user
               \/ /\ platform \subseteq platform' /\ Admins \subseteq Admins'
                  /\ role'[req[s].user] = role[req[s].user],
           req[r].op = "set_roles" => role' = role,
           req[r].op # "set_roles" => platform' = platform
    PROVE  IInv'
  <1>1. /\ req'[r] = Idle
        /\ \A s \in Requests : s # r => req'[s] = req[s]
        /\ req' = [req EXCEPT ![r] = Idle]
        BY DEF Leave, IInv, TypeOK
  <1>2. Idle \in Request /\ Idle.phase = "idle"
        BY AdminAssumption DEF Idle, Request, Ops, Roles
  <1>3. TypeOK'
    <2>1. req' \in [Requests -> Request]  BY <1>1, <1>2 DEF IInv, TypeOK
    <2>2. \A s \in Requests :
            /\ req'[s].phase = "idle" => req'[s] = Idle
            /\ req'[s].phase = "count" => req'[s].was = "admin" /\ req'[s].to # "admin"
          BY <1>1, <1>2 DEF IInv, TypeOK
    <2>3. overtaken' \subseteq {s \in Requests : req'[s].phase = "commit"}
          BY <1>1 DEF IInv, TypeOK, Leave
    <2> QED  BY <2>1, <2>2, <2>3 DEF TypeOK
  <1>4. GuardInv'
    <2> SUFFICES ASSUME NEW s \in Requests, s \notin overtaken',
                        req'[s].phase = "commit"
                 PROVE  Secure(s)'
        BY DEF GuardInv, Secure
    <2>1. s # r /\ req'[s] = req[s] /\ req[s].phase = "commit"
          BY <1>1, <1>2
    <2>2. s \notin overtaken  BY <2>1 DEF Leave
    <2>3. Secure(s)  BY <2>1, <2>2 DEF IInv, GuardInv, Secure
    <2>4. CASE (req[s].op = "set_roles") = (req[r].op = "set_roles")
      <3>1. /\ platform \subseteq platform' /\ Admins \subseteq Admins'
            /\ role'[req[s].user] = role[req[s].user]
            BY <2>1, <2>4 DEF Leave
      <3> QED  BY <1>3, <2>1, <2>3, <3>1, StaysSecure DEF IInv
    <2>5. CASE (req[s].op = "set_roles") # (req[r].op = "set_roles")
      <3>1. CASE req[s].op = "set_roles"
            BY <1>3, <2>1, <2>3, <2>5, <3>1, StaysSecure DEF IInv
      <3>2. CASE req[s].op # "set_roles"
        <4>1. Admins' = Admins /\ role' = role  BY <2>5, <3>2 DEF Admins
        <4> QED  BY <1>3, <2>1, <2>3, <3>2, <4>1, StaysSecure DEF IInv
      <3> QED  BY <3>1, <3>2
    <2> QED  BY <2>4, <2>5
  <1> QED  BY <1>3, <1>4 DEF IInv

\* Only a row that is not there is inserted.
LEMMA AddMemberSafe ==
    ASSUME IInv, AddMember
    PROVE  IInv' /\ Admins \subseteq Admins' /\ platform' = platform
  <1>1. PICK u \in Users, to \in Roles \ {"none"} :
            role[u] = "none" /\ role' = [role EXCEPT ![u] = to]
        BY DEF AddMember
  <1>2. platform' = platform /\ req' = req /\ overtaken' = overtaken
        BY DEF AddMember
  <1>3. TypeOK'  BY <1>1, <1>2 DEF IInv, TypeOK
  <1>4. \A v \in Users : role'[v] = role[v] \/ role[v] = "none"
        BY <1>1 DEF IInv, TypeOK
  <1>5. Admins \subseteq Admins'  BY <1>4 DEF Admins
  <1>6. \A r \in Requests : req[r].user \in Users
        BY DEF IInv, TypeOK, Request
  <1>7. GuardInv'
    <2> SUFFICES ASSUME NEW s \in Requests, s \notin overtaken',
                        req'[s].phase = "commit"
                 PROVE  Secure(s)'
        BY DEF GuardInv, Secure
    <2>1. Secure(s)  BY <1>2 DEF IInv, GuardInv, Secure
    <2> QED  BY <1>2, <1>3, <1>4, <1>5, <1>6, <2>1, StaysSecure DEF IInv
  <1> QED  BY <1>2, <1>3, <1>5, <1>7 DEF IInv

\* The count lets a request pass only if its admin is not the last.
LEMMA CountSafe ==
    ASSUME IInv, NEW r \in Requests, Count(r)
    PROVE  IInv' /\ role' = role /\ platform' = platform
  <1> DEFINE S == IF req[r].op = "set_roles" THEN platform ELSE Admins
  <1>1. /\ req[r].phase = "count" /\ role' = role /\ platform' = platform
        /\ overtaken' = overtaken
        BY DEF Count
  <1>2. req[r] \in Request /\ req \in [Requests -> Request]
        BY DEF IInv, TypeOK
  <1>3. Admins' = Admins  BY <1>1 DEF Admins
  <1>4. r \notin overtaken  BY <1>1 DEF IInv, TypeOK
  <1>5. \A s \in Requests : s # r => req'[s] = req[s]
        BY <1>2 DEF Count
  <1>6. /\ req'[r] \in Request /\ req'[r].phase # "count"
        /\ req'[r].phase = "idle" => req'[r] = Idle
        /\ req'[r].phase = "commit" =>
             /\ Cardinality(S) > 1
             /\ req'[r].op = req[r].op /\ req'[r].was = req[r].was
    <2>1. CASE Cardinality(S) <= 1
      <3>1. req'[r] = Idle  BY <1>2, <2>1 DEF Count
      <3>2. Idle \in Request /\ Idle.phase = "idle"
            BY AdminAssumption DEF Idle, Request, Ops, Roles
      <3> QED  BY <3>1, <3>2
    <2>2. CASE ~(Cardinality(S) <= 1)
      <3>1. req'[r] = [req[r] EXCEPT !.phase = "commit"]
            BY <1>2, <2>2 DEF Count
      <3>2. Cardinality(S) > 1
            BY <2>2, FinitelyMany, MoreThanOne DEF IInv
      <3> HIDE DEF S
      <3> QED  BY <1>2, <3>1, <3>2 DEF Request
    <2> QED  BY <2>1, <2>2
  <1> HIDE DEF S
  <1>7. TypeOK'
    <2>1. req' \in [Requests -> Request]
          BY <1>2, <1>6 DEF Count
    <2> QED  BY <1>1, <1>4, <1>5, <1>6, <2>1 DEF IInv, TypeOK
  <1>8. GuardInv'
    <2> SUFFICES ASSUME NEW s \in Requests, s \notin overtaken',
                        req'[s].phase = "commit"
                 PROVE  Secure(s)'
        BY DEF GuardInv, Secure
    <2>1. CASE s = r
      <3>1. req[r].was = "admin"  BY <1>1 DEF IInv, TypeOK
      <3>2. Cardinality(IF req'[r].op = "set_roles" THEN platform' ELSE Admins') > 1
            BY <1>1, <1>3, <1>6, <2>1 DEF S
      <3> QED  BY <1>6, <2>1, <3>1, <3>2 DEF Secure
    <2>2. CASE s # r
      <3>1. Secure(s)  BY <1>1, <1>5, <2>2 DEF IInv, GuardInv, Secure
      <3> QED  BY <1>1, <1>3, <1>5, <1>7, <2>2, <3>1, StaysSecure DEF IInv
    <2> QED  BY <2>1, <2>2
  <1> QED  BY <1>1, <1>7, <1>8 DEF IInv

\* A workspace request commits: it may leave no admin only if overtaken.
LEMMA CommitMemberSafe ==
    ASSUME IInv, NEW r \in Requests, CommitMember(r)
    PROVE  /\ IInv' /\ platform' = platform /\ req'[r] = Idle
           /\ Admins # {} /\ Admins' = {} =>
                r \in overtaken /\ req[r].op # "set_roles"
  <1> DEFINE q == req[r]
  <1>0. /\ req[r] # Idle /\ q.phase = "commit" /\ q.op # "set_roles"
        /\ platform' = platform
        BY DEF CommitMember, Idle
  <1>1. Leave(r, role' # role, ~(Admins \subseteq Admins'))  BY DEF CommitMember
  <1>2. /\ \A s \in Requests : req[s].user \in Users
        /\ q.to \in Roles /\ role \in [Users -> Roles]
        BY DEF IInv, TypeOK, Request
  <1>3. /\ role' \in [Users -> Roles]
        /\ \A v \in Users : v # q.user => role'[v] = role[v]
        BY <1>2 DEF CommitMember
  <1>4. req'[r] = Idle  BY <1>1 DEF Leave, IInv, TypeOK
  <1>5. IInv'
    <2>1. platform' \subseteq Users  BY <1>0 DEF IInv, TypeOK
    <2>2. \A s \in Requests \ {r} :
             (req[s].op = "set_roles") = (req[r].op = "set_roles") =>
               \/ ~(Admins \subseteq Admins')
               \/ role' # role /\ req[s].user = req[r].user
               \/ /\ platform \subseteq platform' /\ Admins \subseteq Admins'
                  /\ role'[req[s].user] = role[req[s].user]
          BY <1>0, <1>2, <1>3
    <2> QED  BY <1>0, <1>1, <1>3, <2>1, <2>2, LeaveSafe
  <1>6. ASSUME Admins # {}, Admins' = {}, r \notin overtaken
        PROVE  FALSE
    <2>1. Secure(r)  BY <1>0, <1>6 DEF IInv, GuardInv, Secure
    <2>2. role' = [role EXCEPT ![q.user] = q.to] /\ q.to # q.was
          BY <1>6 DEF CommitMember, Admins
    <2>3. role'[q.user] = q.to  BY <2>2, <1>2
    <2>4. q.to # "admin"  BY <1>2, <1>6, <2>3 DEF Admins
    <2>5. CASE q.was = "admin"
      <3>1. Cardinality(Admins) > 1
            BY <1>0, <2>1, <2>4, <2>5 DEF Secure, TakesAdmin
      <3>2. Admins \ {q.user} # {}
            BY <3>1, FinitelyMany, RemoveOne DEF IInv
      <3>3. Admins \ {q.user} \subseteq Admins'  BY <1>3 DEF Admins
      <3> QED  BY <1>6, <3>2, <3>3
    <2>6. CASE q.was # "admin"
      <3>1. role[q.user] # "admin"  BY <1>0, <2>1, <2>6 DEF Secure
      <3> QED  BY <1>3, <1>6, <3>1 DEF Admins
    <2> QED  BY <2>5, <2>6
  <1> QED  BY <1>0, <1>4, <1>5, <1>6

\* A set_roles commits: it may leave no admin only if overtaken.
LEMMA CommitRolesSafe ==
    ASSUME IInv, NEW r \in Requests, CommitRoles(r)
    PROVE  /\ IInv' /\ role' = role /\ req'[r] = Idle
           /\ platform # {} /\ platform' = {} =>
                r \in overtaken /\ req[r].op = "set_roles"
  <1> DEFINE q == req[r]
  <1>0. /\ req[r] # Idle /\ q.phase = "commit" /\ q.op = "set_roles"
        /\ role' = role
        BY DEF CommitRoles, Idle
  <1>1. Leave(r, platform' # platform, ~(platform \subseteq platform'))
        BY DEF CommitRoles
  <1>2. q.user \in Users  BY DEF IInv, TypeOK, Request
  <1>3. platform' \subseteq Users
        BY <1>2 DEF CommitRoles, IInv, TypeOK
  <1>4. req'[r] = Idle  BY <1>1 DEF Leave, IInv, TypeOK
  <1>5. IInv'
    <2>1. role' \in [Users -> Roles] /\ Admins' = Admins
          BY <1>0 DEF IInv, TypeOK, Admins
    <2> QED  BY <1>0, <1>1, <1>3, <2>1, LeaveSafe
  <1>6. ASSUME platform # {}, platform' = {}, r \notin overtaken
        PROVE  FALSE
    <2>1. Secure(r)  BY <1>0, <1>6 DEF IInv, GuardInv, Secure
    <2>2. /\ q.to = "none" /\ q.was = "admin"
          /\ platform' = platform \ {q.user}
          BY <1>6 DEF CommitRoles
    <2>3. Cardinality(platform) > 1
          BY <1>0, <2>1, <2>2 DEF Secure, TakesAdmin
    <2> QED  BY <1>6, <2>2, <2>3, FinitelyMany, RemoveOne DEF IInv
  <1> QED  BY <1>0, <1>4, <1>5, <1>6

\* What one step of the server does to the invariant and to the admins.
LEMMA StepSafe ==
    ASSUME IInv, [Next]_vars
    PROVE  /\ IInv'
           /\ Admins # {} /\ Admins' = {} =>
                \E r \in overtaken : req[r].op # "set_roles" /\ req'[r] = Idle
           /\ platform # {} /\ platform' = {} =>
                \E r \in overtaken : req[r].op = "set_roles" /\ req'[r] = Idle
  <1> DEFINE Goal ==
        /\ IInv'
        /\ Admins # {} /\ Admins' = {} =>
             \E r \in overtaken : req[r].op # "set_roles" /\ req'[r] = Idle
        /\ platform # {} /\ platform' = {} =>
             \E r \in overtaken : req[r].op = "set_roles" /\ req'[r] = Idle
  <1>0. ASSUME IInv', role' = role, platform' = platform PROVE Goal
        BY <1>0 DEF Admins
  <1>1. CASE AddMember  BY <1>1, AddMemberSafe
  <1>2. CASE \E r \in Requests : Handle(r)
    <2>1. PICK r \in Requests : Handle(r)  BY <1>2
    <2>2. CASE SetMemberRole(r)
      <3>1. PICK u \in Users, to \in Roles \ {"none"} :
                role[u] # "none" /\ Enter(r, "set_member_role", u, role[u], to)
            BY <2>2 DEF SetMemberRole
      <3>2. role[u] \in Roles /\ "set_member_role" \in Ops
            BY DEF IInv, TypeOK, Ops
      <3>3. IInv'  BY <3>1, <3>2, EnterSafe
      <3> QED  BY <1>0, <3>1, <3>3 DEF Enter
    <2>3. CASE RemoveMember(r)
      <3>1. PICK u \in Users :
                role[u] # "none" /\ Enter(r, "remove_member", u, role[u], "none")
            BY <2>3 DEF RemoveMember
      <3>2. role[u] \in Roles /\ "remove_member" \in Ops /\ "none" \in Roles
            BY DEF IInv, TypeOK, Ops, Roles
      <3>3. IInv'  BY <3>1, <3>2, EnterSafe
      <3> QED  BY <1>0, <3>1, <3>3 DEF Enter
    <2>4. CASE SetRoles(r)
      <3>1. PICK u \in Users, to \in {"admin", "none"} :
                Enter(r, "set_roles", u,
                      IF u \in platform THEN "admin" ELSE "none", to)
            BY <2>4 DEF SetRoles
      <3> DEFINE was == IF u \in platform THEN "admin" ELSE "none"
      <3>2. was \in Roles /\ to \in Roles /\ "set_roles" \in Ops
            BY DEF Roles, Ops
      <3>3. was = IF u \in platform THEN "admin" ELSE "none"  OBVIOUS
      <3> HIDE DEF was
      <3>4. Enter(r, "set_roles", u, was, to)  BY <3>1, <3>3
      <3>5. IInv'  BY <3>2, <3>4, EnterSafe
      <3> QED  BY <1>0, <3>1, <3>5 DEF Enter
    <2>5. CASE Count(r)  BY <1>0, <2>5, CountSafe
    <2>6. CASE CommitMember(r)  BY <2>6, CommitMemberSafe
    <2>7. CASE CommitRoles(r)
      <3>1. Admins' = Admins  BY <2>7, CommitRolesSafe DEF Admins
      <3> QED  BY <2>7, <3>1, CommitRolesSafe
    <2>8. CASE Abort(r)
      <3>1. /\ req[r] # Idle /\ Leave(r, FALSE, FALSE)
            /\ role' = role /\ platform' = platform
            BY <2>8 DEF Abort
      <3>2. /\ role' \in [Users -> Roles] /\ platform' \subseteq Users
            /\ Admins' = Admins
            BY <3>1 DEF IInv, TypeOK, Admins
      <3>3. IInv'  BY <3>1, <3>2, LeaveSafe
      <3> QED  BY <1>0, <3>1, <3>3
    <2> QED
        BY <2>1, <2>2, <2>3, <2>4, <2>5, <2>6, <2>7, <2>8 DEF Handle
  <1>3. CASE UNCHANGED vars
    <2>1. /\ role' = role /\ platform' = platform /\ req' = req
          /\ overtaken' = overtaken
          BY <1>3 DEF vars
    <2>2. IInv'  BY <2>1 DEF IInv, TypeOK, GuardInv, Admins
    <2> QED  BY <1>0, <2>1, <2>2
  <1> QED  BY <1>1, <1>2, <1>3 DEF Next

-----------------------------------------------------------------------------
\* The inductive invariant, for any number of overlapping requests: what a
\* request has counted is still true when it commits unless it was overtaken.
THEOREM AdminInvariance == Spec => []IInv
  <1>1. IInv /\ [Next]_vars => IInv'  BY StepSafe
  <1> QED  BY <1>1, StartsSafe, PTL DEF Spec

\* However requests overlap, the one that leaves a workspace without an admin
\* was overtaken between its count and its commit (WorkspaceService.
\* set_member_role, remove_member).
THEOREM WorkspaceGuarded == Spec => WorkspaceGuardHolds
  <1>1. IInv /\ [Next]_vars => IInv'  BY StepSafe
  <1>2. IInv /\ [Next]_vars =>
          (Admins # {} /\ Admins' = {} =>
             \E r \in overtaken : req[r].op # "set_roles" /\ req'[r] = Idle)
        BY StepSafe
  <1> QED  BY <1>1, <1>2, StartsSafe, PTL DEF Spec, WorkspaceGuardHolds

\* ... and so it is with the platform's last admin (UserService.set_roles).
THEOREM PlatformGuarded == Spec => PlatformGuardHolds
  <1>1. IInv /\ [Next]_vars => IInv'  BY StepSafe
  <1>2. IInv /\ [Next]_vars =>
          (platform # {} /\ platform' = {} =>
             \E r \in overtaken : req[r].op = "set_roles" /\ req'[r] = Idle)
        BY StepSafe
  <1> QED  BY <1>1, <1>2, StartsSafe, PTL DEF Spec, PlatformGuardHolds
-----------------------------------------------------------------------------
(* Custom roles. *)
LEMMA NoJobTyped ==
    /\ NoJob \in Job
    /\ NoJob.op = "none"
  BY DEF NoJob, Job

\* The empty workspace satisfies the invariant (RolesInit).
LEMMA RolesStartSafe == RolesInit => RolesInv
  <1> SUFFICES ASSUME RolesInit PROVE RolesInv
      OBVIOUS
  <1>1. RolesTypeOK  BY NoJobTyped DEF RolesInit, RolesTypeOK
  <1>2. JobsSound  BY NoJobTyped DEF RolesInit, JobsSound
  <1>3. /\ DecisionGoverns /\ HeldRolesActive
        /\ DecidedByAnother /\ RequestsHaveRoles
        BY DEF RolesInit, DecisionGoverns, HeldRolesActive, DecidedByAnother,
               RequestsHaveRoles
  <1> QED  BY <1>1, <1>2, <1>3 DEF RolesInv

\* A request that changes no table keeps the invariant if the job it leaves
\* behind is sound.
Sound(j) ==
    /\ j.op = "create" =>
         j.actor \in Users /\ j.slug \in Slugs /\ j.permissions # {}
    /\ j.op = "decide" =>
         /\ j.slug \in Slugs /\ j.actor \in Users
         /\ roles[j.slug] # None /\ approvals[j.slug] # None
         /\ approvals[j.slug].requested_by # j.actor
    /\ j.op \in {"assign", "unassign"} => j.user \in Users
    /\ j.op = "assign" =>
         /\ j.slug \in Slugs
         /\ roles[j.slug] # None
         /\ \/ roles[j.slug].status = "active"
            \/ j.slug \in overruled /\ roles[j.slug].status = "rejected"
    /\ j.op = "unassign" => j.slug = None

\* A role that somebody may hold, or be about to be given.
Holdable(s) ==
    /\ roles[s] # None
    /\ \/ roles[s].status = "active"
       \/ s \in overruled /\ roles[s].status = "rejected"

LEMMA StartKeeps ==
    ASSUME RolesInv, NEW q \in RoleRequests, NEW j \in Job, Sound(j),
           Start(q, j)
    PROVE  RolesInv'
  <1>1. /\ UNCHANGED <<roles, approvals, custom, overruled, role>>
        /\ job' = [job EXCEPT ![q] = j]
        BY DEF Start, vars
  <1>2. /\ job' \in [RoleRequests -> Job] /\ job'[q] = j
        /\ \A r \in RoleRequests : r # q => job'[r] = job[r]
        BY <1>1 DEF RolesInv, RolesTypeOK
  <1>3. RolesTypeOK'  BY <1>1, <1>2 DEF RolesInv, RolesTypeOK
  <1>4. JobsSound'
    <2>1. \A r \in RoleRequests : Sound(job'[r])
          BY <1>2 DEF RolesInv, JobsSound, Sound
    <2> QED  BY <1>1, <2>1 DEF JobsSound, Sound
  <1>5. /\ DecisionGoverns' /\ HeldRolesActive'
        /\ DecidedByAnother' /\ RequestsHaveRoles'
        BY <1>1 DEF RolesInv, DecisionGoverns, HeldRolesActive,
                    DecidedByAnother, RequestsHaveRoles
  <1> QED  BY <1>3, <1>4, <1>5 DEF RolesInv

\* After a commit request q is idle, and every other job is as sound as the
\* new rows leave it.
LEMMA FinishJobs ==
    ASSUME RolesInv, NEW q \in RoleRequests, Finish(q)
    PROVE  /\ job' \in [RoleRequests -> Job]
           /\ job'[q] = NoJob
           /\ \A r \in RoleRequests : r # q => job'[r] = job[r]
  BY NoJobTyped DEF Finish, RolesInv, RolesTypeOK

\* What the jobs rely on survives a step after which rows that exist still
\* exist, a role that may be held still may and requesters are the same.
LEMMA JobsStaySound ==
    ASSUME RolesInv, NEW q \in RoleRequests, Finish(q),
           \A s \in Slugs : roles[s] # None => roles'[s] # None,
           \A s \in Slugs : Holdable(s) => Holdable(s)',
           \A s \in Slugs : approvals[s] # None =>
              /\ approvals'[s] # None
              /\ approvals'[s].requested_by = approvals[s].requested_by
    PROVE  JobsSound'
  <1>1. /\ job'[q] = NoJob
        /\ \A r \in RoleRequests : r # q => job'[r] = job[r]
        BY FinishJobs
  <1> SUFFICES ASSUME NEW r \in RoleRequests
               PROVE  Sound(job[r])'
      BY DEF JobsSound, Sound
  <1>2. CASE r = q  BY <1>1, <1>2, NoJobTyped DEF Sound
  <1>3. CASE r # q
    <2>1. job'[r] = job[r]  BY <1>1, <1>3
    <2>2. Sound(job[r])  BY DEF RolesInv, JobsSound, Sound
    <2> QED  BY <2>1, <2>2 DEF Sound, Holdable
  <1> QED  BY <1>2, <1>3

\* CustomRoleService.create commits.
LEMMA CreateKeeps ==
    ASSUME RolesInv, NEW q \in RoleRequests, CommitCreate(q)
    PROVE  RolesInv'
  <1> DEFINE j == job[q]
             s == j.slug
             sensitive == NeedsApproval(j.permissions)
             row == [status |-> IF sensitive THEN "pending" ELSE "active",
                     permissions |-> j.permissions]
             request == IF sensitive
                          THEN [status |-> "pending", requested_by |-> j.actor,
                                decided_by |-> None]
                          ELSE None
  <1>1. /\ j \in Job /\ j.actor \in Users /\ s \in Slugs
        /\ roles \in [Slugs -> CustomRole \cup {None}]
        /\ approvals \in [Slugs -> ApprovalRequest \cup {None}]
        BY DEF CommitCreate, RolesInv, RolesTypeOK, JobsSound
  <1>2. /\ roles[s] = None /\ Finish(q)
        /\ roles' = [roles EXCEPT ![s] = row]
        /\ approvals' = [approvals EXCEPT ![s] = request]
        /\ custom' = custom /\ role' = role /\ overruled' = overruled
        BY DEF CommitCreate, vars
  <1>3. row \in CustomRole /\ request \in ApprovalRequest \cup {None}
        BY <1>1 DEF CustomRole, ApprovalRequest, Job
  <1>4. /\ roles'[s] = row /\ approvals'[s] = request
        /\ \A t \in Slugs : t # s => roles'[t] = roles[t]
                                     /\ approvals'[t] = approvals[t]
        BY <1>1, <1>2
  <1>5. approvals[s] = None
        BY <1>1, <1>2 DEF RolesInv, RequestsHaveRoles
  <1>6. /\ row # None /\ row.permissions = j.permissions
        /\ IF sensitive
             THEN /\ row.status = "pending" /\ request # None
                  /\ request.status = "pending"
             ELSE row.status = "active" /\ request = None
        BY RowAssumption, <1>1, <1>3 DEF CustomRole, ApprovalRequest, Job
  <1> HIDE DEF s, row, request, sensitive
  <1>7. RolesTypeOK'
        BY <1>1, <1>2, <1>3, FinishJobs DEF RolesInv, RolesTypeOK
  <1>8. JobsSound'
    <2>1. \A t \in Slugs : roles[t] # None => t # s  BY <1>2
    <2> QED  BY <1>1, <1>2, <1>4, <1>5, <2>1, JobsStaySound DEF Holdable
  <1>9. DecisionGoverns'
        BY <1>4, <1>6 DEF RolesInv, DecisionGoverns, NeedsApproval, sensitive
  <1>10. HeldRolesActive'
    <2>1. \A u \in Users : custom[u] # None => custom[u] \in Slugs /\ custom[u] # s
          BY <1>2 DEF RolesInv, RolesTypeOK, HeldRolesActive
    <2> QED  BY <1>2, <1>4, <2>1 DEF RolesInv, HeldRolesActive
  <1>11. DecidedByAnother' /\ RequestsHaveRoles'
         BY <1>4, <1>6 DEF RolesInv, DecidedByAnother, RequestsHaveRoles
  <1> QED  BY <1>7, <1>8, <1>9, <1>10, <1>11 DEF RolesInv

\* ApprovalService.decide commits: the request is decided by another person
\* than the one who asked, and the role follows.
LEMMA DecideKeeps ==
    ASSUME RolesInv, NEW q \in RoleRequests, CommitDecide(q)
    PROVE  RolesInv'
  <1> DEFINE j == job[q]
             s == j.slug
  <1>1. /\ j \in Job /\ j.actor \in Users /\ s \in Slugs
        /\ roles[s] # None /\ approvals[s] # None
        /\ approvals[s].requested_by # j.actor
        /\ roles \in [Slugs -> CustomRole \cup {None}]
        /\ approvals \in [Slugs -> ApprovalRequest \cup {None}]
        BY DEF CommitDecide, RolesInv, RolesTypeOK, JobsSound
  <1>2. roles[s] \in CustomRole /\ approvals[s] \in ApprovalRequest
        BY <1>1
  <1> DEFINE row == [roles[s] EXCEPT
                       !.status = IF j.approve THEN "active" ELSE "rejected"]
             request == [approvals[s] EXCEPT
                           !.status = IF j.approve THEN "approved" ELSE "rejected",
                           !.decided_by = j.actor]
  <1>3. /\ Finish(q) /\ custom' = custom /\ role' = role
        /\ roles' = [roles EXCEPT ![s] = row]
        /\ approvals' = [approvals EXCEPT ![s] = request]
        /\ overruled' = IF approvals[s].status = "pending" THEN overruled
                        ELSE overruled \cup {s}
        BY <1>1 DEF CommitDecide, vars
  <1>4. /\ row \in CustomRole /\ request \in ApprovalRequest
        /\ row # None /\ request # None
        /\ row.permissions = roles[s].permissions
        /\ <<request.status, row.status>> \in
             {<<"approved", "active">>, <<"rejected", "rejected">>}
        /\ request.requested_by = approvals[s].requested_by
        /\ request.decided_by = j.actor
        BY <1>1, <1>2, RowAssumption DEF CustomRole, ApprovalRequest
  <1>5. /\ roles'[s] = row /\ approvals'[s] = request
        /\ \A t \in Slugs : t # s => roles'[t] = roles[t]
                                     /\ approvals'[t] = approvals[t]
        BY <1>1, <1>3
  <1> HIDE DEF row, request
  <1>6. RolesTypeOK'
        BY <1>1, <1>3, <1>4, FinishJobs DEF RolesInv, RolesTypeOK
  <1>11. \A t \in Slugs : Holdable(t) => Holdable(t)'
    <2> SUFFICES ASSUME NEW t \in Slugs, Holdable(t)
                 PROVE  Holdable(t)'
        OBVIOUS
    <2>1. CASE t # s  BY <1>3, <1>5, <2>1 DEF Holdable
    <2>2. CASE t = s
      <3>1. roles[s].status # "pending"  BY <2>2 DEF Holdable
      <3>2. approvals[s].status # "pending"
            BY <1>1, <3>1 DEF RolesInv, DecisionGoverns
      <3> QED  BY <1>3, <1>4, <1>5, <2>2, <3>2 DEF Holdable
    <2> QED  BY <2>1, <2>2
  <1>7. JobsSound'
    <2>2. \A t \in Slugs : roles[t] # None => roles'[t] # None
          BY <1>4, <1>5
    <2>3. \A t \in Slugs : approvals[t] # None =>
              /\ approvals'[t] # None
              /\ approvals'[t].requested_by = approvals[t].requested_by
          BY <1>4, <1>5
    <2> QED  BY <1>3, <1>11, <2>2, <2>3, JobsStaySound
  <1>8. DecisionGoverns'
    <2>1. NeedsApproval(roles[s].permissions)
          BY <1>1 DEF RolesInv, DecisionGoverns
    <2>2. NeedsApproval(row.permissions)  BY <1>4, <2>1
    <2> QED  BY <1>4, <1>5, <2>2 DEF RolesInv, DecisionGoverns, NeedsApproval
  <1>9. HeldRolesActive'
        BY <1>3, <1>11 DEF RolesInv, RolesTypeOK, HeldRolesActive, Holdable
  <1>10. DecidedByAnother' /\ RequestsHaveRoles'
         BY <1>1, <1>4, <1>5, RolesAssumption
            DEF RolesInv, DecidedByAnother, RequestsHaveRoles
  <1> QED  BY <1>6, <1>7, <1>8, <1>9, <1>10 DEF RolesInv

\* Steps that touch neither roles nor approvals: the rest of the invariant
\* is about memberships.
LEMMA MembershipsKeep ==
    ASSUME RolesInv, UNCHANGED <<roles, approvals, overruled>>,
           custom' \in [Users -> Slugs \cup {None}],
           job' \in [RoleRequests -> Job], JobsSound',
           HeldRolesActive'
    PROVE  RolesInv'
  BY DEF RolesInv, RolesTypeOK, DecisionGoverns, DecidedByAnother,
         RequestsHaveRoles

\* CustomRoleService.assign and unassign commit: what was active when it
\* was loaded is decided, and only a member gets it.
LEMMA AssignKeeps ==
    ASSUME RolesInv, NEW q \in RoleRequests, CommitAssignment(q)
    PROVE  RolesInv'
  <1> DEFINE j == job[q]
  <1>1. /\ Finish(q) /\ roles' = roles /\ approvals' = approvals /\ role' = role
        /\ overruled' = overruled /\ j.op \in {"assign", "unassign"}
        BY DEF CommitAssignment, vars
  <1>2. /\ j.user \in Users /\ j.slug \in Slugs \cup {None}
        /\ j.slug # None => Holdable(j.slug)
        BY <1>1 DEF RolesInv, RolesTypeOK, JobsSound, Job, Holdable
  <1>3. custom \in [Users -> Slugs \cup {None}] /\ HeldRolesActive
        BY DEF RolesInv, RolesTypeOK
  <1>4. JobsSound'  BY <1>1, JobsStaySound DEF Holdable
  <1>5. CASE custom' = custom
        BY <1>1, <1>3, <1>4, <1>5, FinishJobs, MembershipsKeep
           DEF HeldRolesActive
  <1>6. CASE role[j.user] # "none" /\ custom' = [custom EXCEPT ![j.user] = j.slug]
    <2>1. custom' \in [Users -> Slugs \cup {None}]  BY <1>2, <1>3, <1>6
    <2>2. HeldRolesActive'
          BY <1>1, <1>2, <1>3, <1>6 DEF HeldRolesActive, Holdable
    <2> QED  BY <1>1, <1>4, <2>1, <2>2, FinishJobs, MembershipsKeep
  <1> QED  BY <1>5, <1>6 DEF CommitAssignment

\* A membership changes: a custom role goes with the membership.
LEMMA MembershipKeeps ==
    ASSUME RolesInv, Membership
    PROVE  RolesInv'
  <1>1. /\ roles' = roles /\ approvals' = approvals /\ job' = job
        /\ overruled' = overruled
        /\ custom' = [u \in Users |-> IF role'[u] = "none" THEN None ELSE custom[u]]
        BY DEF Membership
  <1>2. custom' \in [Users -> Slugs \cup {None}]
        BY <1>1 DEF RolesInv, RolesTypeOK
  <1>3. JobsSound'  BY <1>1 DEF RolesInv, JobsSound
  <1>4. HeldRolesActive'  BY <1>1 DEF RolesInv, HeldRolesActive
  <1>5. job' \in [RoleRequests -> Job]  BY <1>1 DEF RolesInv, RolesTypeOK
  <1> QED  BY <1>1, <1>2, <1>3, <1>4, <1>5, MembershipsKeep

\* A request fails.
LEMMA AbortKeeps ==
    ASSUME RolesInv, NEW q \in RoleRequests, AbortRole(q)
    PROVE  RolesInv'
  <1>1. /\ Finish(q) /\ roles' = roles /\ approvals' = approvals
        /\ custom' = custom /\ role' = role /\ overruled' = overruled
        BY DEF AbortRole, vars
  <1>2. JobsSound'  BY <1>1, JobsStaySound DEF Holdable
  <1>3. custom' \in [Users -> Slugs \cup {None}] /\ HeldRolesActive'
        BY <1>1 DEF RolesInv, RolesTypeOK, HeldRolesActive
  <1> QED  BY <1>1, <1>2, <1>3, FinishJobs, MembershipsKeep

\* A request has loaded what it is about: its job is sound.
LEMMA LoadKeeps ==
    ASSUME RolesInv, NEW q \in RoleRequests,
           Create(q) \/ Decide(q) \/ Assign(q) \/ Unassign(q)
    PROVE  RolesInv'
  <1>1. CASE Create(q)
    <2>1. PICK a \in Users, s \in Slugs, p \in Bundles \ {{}} :
              Start(q, [NoJob EXCEPT !.op = "create", !.actor = a, !.slug = s,
                                     !.permissions = p])
          BY <1>1 DEF Create
    <2> DEFINE j == [NoJob EXCEPT !.op = "create", !.actor = a, !.slug = s,
                                  !.permissions = p]
    <2>2. j \in Job  BY RolesAssumption DEF NoJob, Job
    <2>3. Sound(j)  BY DEF NoJob, Sound
    <2> QED  BY <2>1, <2>2, <2>3, StartKeeps
  <1>2. CASE Decide(q)
    <2>1. PICK a \in Users, s \in Slugs, yes \in BOOLEAN :
              /\ approvals[s] # None /\ approvals[s].requested_by # a
              /\ Start(q, [NoJob EXCEPT !.op = "decide", !.actor = a, !.slug = s,
                                        !.approve = yes])
          BY <1>2 DEF Decide
    <2> DEFINE j == [NoJob EXCEPT !.op = "decide", !.actor = a, !.slug = s,
                                  !.approve = yes]
    <2>2. j \in Job  BY DEF NoJob, Job
    <2>3. roles[s] # None  BY <2>1 DEF RolesInv, RequestsHaveRoles
    <2>4. Sound(j)  BY <2>1, <2>3 DEF NoJob, Sound
    <2> QED  BY <2>1, <2>2, <2>4, StartKeeps
  <1>3. CASE Assign(q)
    <2>1. PICK u \in Users, s \in Slugs :
              /\ roles[s] # None /\ roles[s].status = "active"
              /\ Start(q, [NoJob EXCEPT !.op = "assign", !.user = u, !.slug = s,
                                        !.was = custom[u]])
          BY <1>3 DEF Assign
    <2> DEFINE j == [NoJob EXCEPT !.op = "assign", !.user = u, !.slug = s,
                                  !.was = custom[u]]
    <2>2. j \in Job  BY DEF NoJob, Job, RolesInv, RolesTypeOK
    <2>3. Sound(j)  BY <2>1 DEF NoJob, Sound
    <2> QED  BY <2>1, <2>2, <2>3, StartKeeps
  <1>4. CASE Unassign(q)
    <2>1. PICK u \in Users :
              Start(q, [NoJob EXCEPT !.op = "unassign", !.user = u,
                                     !.was = custom[u]])
          BY <1>4 DEF Unassign
    <2> DEFINE j == [NoJob EXCEPT !.op = "unassign", !.user = u,
                                  !.was = custom[u]]
    <2>2. j \in Job  BY DEF NoJob, Job, RolesInv, RolesTypeOK
    <2>3. Sound(j)  BY <2>1 DEF NoJob, Sound
    <2> QED  BY <2>1, <2>2, <2>3, StartKeeps
  <1> QED  BY <1>1, <1>2, <1>3, <1>4

\* Every step keeps the invariant.
LEMMA RolesStepKeeps == RolesInv /\ [RolesNext]_allVars => RolesInv'
  <1> SUFFICES ASSUME RolesInv, [RolesNext]_allVars PROVE RolesInv'
      OBVIOUS
  <1>1. CASE Membership  BY <1>1, MembershipKeeps
  <1>2. CASE \E q \in RoleRequests : RoleHandler(q)
    <2>1. PICK q \in RoleRequests : RoleHandler(q)  BY <1>2
    <2> QED  BY <2>1, LoadKeeps, CreateKeeps, DecideKeeps, AssignKeeps,
                AbortKeeps DEF RoleHandler
  <1>3. CASE UNCHANGED allVars
    <2>1. /\ roles' = roles /\ approvals' = approvals
          /\ custom' = custom /\ job' = job /\ role' = role
          /\ overruled' = overruled
          BY <1>3 DEF allVars, roleVars, vars
    <2> QED  BY <2>1 DEF RolesInv, RolesTypeOK, DecisionGoverns,
             HeldRolesActive, JobsSound, DecidedByAnother, RequestsHaveRoles
  <1> QED  BY <1>1, <1>2, <1>3 DEF RolesNext

-----------------------------------------------------------------------------
\* The inductive invariant, for any number of overlapping requests.
THEOREM RolesInvariance == RolesSpec => []RolesInv
  <1> QED  BY RolesStartSafe, RolesStepKeeps, PTL DEF RolesSpec

\* Whatever overlaps, a sensitive permission a custom role confers was
\* approved by somebody else than the one who asked (CustomRoleService,
\* ApprovalService.decide).
THEOREM SensitiveNeedsTwo == RolesSpec => []TwoPersonRule
  <1>1. RolesInv => TwoPersonRule
    <2> SUFFICES ASSUME RolesInv, NEW u \in Users,
                        Confers(u) \cap Sensitive # {}
                 PROVE  /\ approvals[custom[u]] # None
                        /\ approvals[custom[u]].status = "approved"
                        /\ approvals[custom[u]].decided_by \notin
                             {None, approvals[custom[u]].requested_by}
        BY DEF TwoPersonRule
    <2> DEFINE s == custom[u]
    <2>1. /\ s \in Slugs /\ roles[s] # None /\ roles[s].status = "active"
          /\ roles[s].permissions \cap Sensitive # {}
          BY DEF Confers, RolesInv, RolesTypeOK, HeldRolesActive
    <2>2. approvals[s] # None /\ approvals[s].status = "approved"
          BY <2>1 DEF RolesInv, DecisionGoverns, NeedsApproval
    <2> QED  BY <2>1, <2>2 DEF RolesInv, DecidedByAnother
  <1> QED  BY <1>1, RolesInvariance, PTL

\* A role is active exactly as the last decision about it says.
THEOREM DecisionsGovern == RolesSpec => []DecisionGoverns
  <1>1. RolesInv => DecisionGoverns  BY DEF RolesInv
  <1> QED  BY <1>1, RolesInvariance, PTL

\* Who holds a role is a member and the role is active, unless a second
\* decision has rejected it.
THEOREM HeldMeansActive == RolesSpec => []HeldRolesActive
  <1>1. RolesInv => HeldRolesActive  BY DEF RolesInv
  <1> QED  BY <1>1, RolesInvariance, PTL

\* Requests about custom roles change no membership: seen from the
\* memberships, the composed system is AdminLockout.
THEOREM RolesImplementMembership == RolesSpec => Spec
  <1>1. RolesInit => Init  BY DEF RolesInit
  <1>2. [RolesNext]_allVars => [Next]_vars
    <2> SUFFICES ASSUME [RolesNext]_allVars PROVE [Next]_vars
        OBVIOUS
    <2>1. CASE Membership  BY <2>1 DEF Membership
    <2>2. CASE \E q \in RoleRequests : RoleHandler(q)
          BY <2>2 DEF RoleHandler, Create, Decide, Assign, Unassign, Start,
                      CommitCreate, CommitDecide, CommitAssignment, AbortRole
    <2>3. CASE UNCHANGED allVars  BY <2>3 DEF allVars
    <2> QED  BY <2>1, <2>2, <2>3 DEF RolesNext
  <1> QED  BY <1>1, <1>2, PTL DEF RolesSpec, Spec

\* ... so the guards of the last admin hold in it as they do there.
THEOREM RolesGuardAdmins ==
    RolesSpec => WorkspaceGuardHolds /\ PlatformGuardHolds
  BY RolesImplementMembership, WorkspaceGuarded, PlatformGuarded, PTL
=============================================================================
