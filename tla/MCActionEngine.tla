--------------------------- MODULE MCActionEngine ---------------------------
(* Instances of ActionEngine for TLC. *)
EXTENDS ActionEngine

CONSTANTS a1, a2, a3, r1, r2
=============================================================================
