\* Every client against a source that answers, stalls, refuses or lets the
\* session expire.
SPECIFICATION ClientSpec
CONSTANTS
    Kinds = {"plain", "spacetrack", "socrates", "sentinel"}
    MaxRetries = 3
    MinInterval = 3
    Outcomes = {"ok", "malformed", "transient", "refused", "expired"}
    LoginOutcomes = {"ok", "unreachable", "busy", "refused"}
INVARIANTS
    PatientWithOutages
    FailuresAreDeclared
    ReauthOncePerAttempt
PROPERTIES
    SpacedAttempts
    CallEnds
