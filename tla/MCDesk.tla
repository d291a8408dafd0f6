------------------------------- MODULE MCDesk -------------------------------
\* An instance of Desk: users are alike, and so are requests.
EXTENDS Desk, TLC

Alike == Permutations(Users) \cup Permutations(Requests)
=============================================================================
