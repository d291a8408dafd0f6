\* Two emails, two requests at a time, and an administrator's changes.
SPECIFICATION Spec
CONSTANTS
    Emails = {e1, e2}
    Roles = {"operator", "admin"}
    Requests = {r1, r2}
    AutoProvision = TRUE
    MaxAccounts = 3
    MaxInvites = 1
    MaxKeys = 2
    MaxFlows = 1
    MaxBegun = 3
    MaxGrants = 1
INVARIANTS
    InviteSpentOnce
    FlowOpensOne
    CallsHadStanding
    KeysStayCapped
PROPERTY RevokedForGood
CHECK_DEADLOCK FALSE
