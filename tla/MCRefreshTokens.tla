--------------------------- MODULE MCRefreshTokens ---------------------------
\* RefreshTokens for TLC: requests are interchangeable.
EXTENDS RefreshTokens, TLC

Symmetry == Permutations(Requests)
=============================================================================
