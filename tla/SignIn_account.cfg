\* One account, two requests at a time, any of them about to fail.
SPECIFICATION Spec
CONSTANTS
    Requests = {r1, r2}
    Budgets = {"ip", "email"}
    Limit = 1
    Window = 2
    MaxSecrets = 2
    MaxCodes = 2
    MaxOps = 3
INVARIANTS
    EnrolmentHolds
    RecoveryOnce
PROPERTY ThrottleLifts
