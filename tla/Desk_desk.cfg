\* Two users, two requests at a time.
SPECIFICATION Spec
CONSTANTS
    Users = {u1, u2}
    Requests = {r1, r2}
    Statuses = {"open", "resolved"}
    Fields = {"status", "incident"}
    PageLimit = 1
    MaxAlerts = 2
    MaxReports = 1
    MaxStarted = 3
INVARIANTS
    TimelineTellsStatus
    ListenersAreTold
    QuietReportAgrees
PROPERTY UnsetFieldsKept
SYMMETRY Alike
CHECK_DEADLOCK FALSE
