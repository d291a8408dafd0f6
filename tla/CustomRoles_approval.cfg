\* Two overlapping requests about custom roles, beside two overlapping
\* requests about memberships, any two of them at a time.  Without an
\* administrator of the workspace or the platform the system may stop.
SPECIFICATION RolesSpec
CONSTANTS
    u1 = u1  u2 = u2  u3 = u3
    Users = {u1, u2}
    Founder = u1
    Requests = {r1, r2}
    Slugs = {s1}
    read = read  audit = audit
    Permissions = {read, audit}
    Sensitive = {audit}
    Bundles <- MCBundles
    RoleRequests = {q1, q2}
    MaxBusy = 2
    None = None
SYMMETRY Symmetric
INVARIANTS
    TwoPersonRule
    DecisionGoverns
    HeldRolesActive
PROPERTIES
    WorkspaceGuardHolds
    PlatformGuardHolds
CHECK_DEADLOCK FALSE
