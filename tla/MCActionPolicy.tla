--------------------------- MODULE MCActionPolicy ---------------------------
(* Instances of ActionPolicy for TLC. *)
EXTENDS ActionPolicy

CONSTANTS a1, r1, p1, u1
=============================================================================
