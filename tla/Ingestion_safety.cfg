\* Two conjunction loops, a catalog loop that makes objects tracked, an
\* operator who edits alerts and opens an incident, and one stop.
SPECIFICATION Spec
CONSTANTS
    h1 = h1  h2 = h2  c1 = c1  c2 = c2  cat = cat  w1 = w1
    k1 = k1  k2 = k2  k3 = k3  o1 = o1  o2 = o2
    None = None
    Hosts = {h1, h2}
    Loops = {c1, c2, cat}
    Keys = {k1, k2}
    Objects = {o1, o2}
    Operators = {op}
    Host <- MCHost
    Kind <- MCKind
    Pair <- MCPair
    Feed <- FeedMixed
    CatalogBatches <- Downloads
    MaxManual = 1
    MaxStops = 1
INVARIANTS
    AutoIncidentJustified
    OneAutoIncidentPerAlert
PROPERTY KeepsPromise
