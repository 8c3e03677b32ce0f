--------------------------- MODULE MCAgentActions ---------------------------
(* Instances of AgentActions for TLC. *)
EXTENDS AgentActions

CONSTANTS r1, s1, s2, p1, p2

=============================================================================
