\* Two requests that overlap, in one workspace.
SPECIFICATION Spec
CONSTANTS
    u1 = u1  u2 = u2  u3 = u3
    Users = {u1, u2}
    Founder = u1
    Requests = {r1, r2}
INVARIANT WorkspaceKeepsAdmin
