SPECIFICATION TokenSpec
CONSTANTS
    Requests = {r1, r2, r3}
    MaxTokens = 4
INVARIANTS
    RotationChain
    OneLiveToken
    EndedStaysEnded
SYMMETRY Symmetry
