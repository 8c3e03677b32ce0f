---------------------------- MODULE MCTeamAccess ----------------------------
(* Instances of TeamAccess for TLC. *)
EXTENDS TeamAccess

CONSTANTS u1, x1, t1, t2, c1, a1, a2, h1, h2

=============================================================================
