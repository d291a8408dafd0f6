\* Two requests at a time, upserts and correlations, beside edits of the assets; two of the three indicators have the same text.
SPECIFICATION Spec
CONSTANTS
    Indicators = {i1, i2, i3}
    i1 = i1  i2 = i2  i3 = i3  t1 = t1  t2 = t2
    Texts = {t1, t2}
    Text <- Texts3
    Assets = {1, 2}
    Contents <- Contents2
    AssetLimit = 1
    Levels = {1, 2, 3}
    Feeds <- FeedsMixed
    Requests = {q1, q2}
    None = None
SYMMETRY Symmetric
INVARIANTS
    OneAlertPerPair
PROPERTIES
    CorrelationComplete
    ConfidenceNeverFalls
