--------------------------- MODULE MCAdminLockout ---------------------------
(* Small instances of AdminLockout for TLC. *)
EXTENDS AdminLockout

CONSTANTS u1, u2, u3
=============================================================================
