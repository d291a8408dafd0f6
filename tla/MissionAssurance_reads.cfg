\* Summaries and simulations overlapped by up to two writes.
SPECIFICATION Spec
CONSTANTS
    m1 = m1  m2 = m2  m3 = m3  a1 = a1  a2 = a2
    Missions = {m1, m2, m3}
    Assets = {a1, a2}
    Scenarios <- MCScenarios
    InitialStates <- MCInitialStates
    PageLimit = 2
    MaxWrites = 2
    MaxAlerts = 4
    None = None
INVARIANTS
    QuietRunIsLive
    DamageNeverHelps
    RemovalNeverLowers
    FailureHasCause
