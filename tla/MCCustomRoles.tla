--------------------------- MODULE MCCustomRoles ---------------------------
(* Small instances of CustomRoles, and with it AdminLockout, for TLC. *)
EXTENDS CustomRoles, TLC

CONSTANTS u1, u2, u3, read, audit

\* A harmless role and one that needs approval.
MCBundles == {{read}, {read, audit}}

\* Users other than the founder are interchangeable, and so are requests.
Symmetric ==
    Permutations(Users \ {Founder}) \cup Permutations(RoleRequests)
      \cup Permutations(Requests)
=============================================================================
