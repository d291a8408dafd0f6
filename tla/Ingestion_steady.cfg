\* Liveness: a weather loop and two conjunction loops on two processes, none stopped.
SPECIFICATION SteadySpec
CONSTANTS
    h1 = h1  h2 = h2  c1 = c1  c2 = c2  cat = cat  w1 = w1
    k1 = k1  k2 = k2  k3 = k3  o1 = o1  o2 = o2
    None = None
    Hosts = {h1, h2}
    Loops = {c1, c2, w1}
    Keys = {k1, k2, k3}
    Objects = {o1, o2}
    Operators = {}
    Host <- MCHost
    Kind <- MCKind
    Pair <- MCPair
    Feed <- FeedByKind
    CatalogBatches <- Downloads
    MaxManual = 0
    MaxStops = 0
PROPERTIES
    EscalationRule
    EveryRecordRaised
