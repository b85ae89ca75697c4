----------------------------- MODULE MCUserCache -----------------------------
(* Instances of UserCache for TLC.                                         *)
EXTENDS UserCache

CONSTANTS r1, r2
=============================================================================
