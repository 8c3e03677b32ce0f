------------------------- MODULE MCPolicyApprovals --------------------------
(* Instances of PolicyApprovals for TLC. *)
EXTENDS PolicyApprovals, TLC

CONSTANTS p1, p2, u1, u2, u3

Symmetry == Permutations(Approvals) \cup Permutations(Users)
=============================================================================
