\* Two API calls at a time, and the refresh endpoint may fail.
SPECIFICATION WebSpec
CONSTANTS
    Requests = {c1, c2}
    MaxTokens = 3
    Faults = {"loss", "error"}
INVARIANTS
    StoredTokenLive
PROPERTIES
    KeepsSessionUnlessUnlucky
    CallReturns
\* Tokens run out at the bound.
CHECK_DEADLOCK FALSE
