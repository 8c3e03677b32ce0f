------------------------- MODULE MCApprovalWorkflow -------------------------
(* Instances of ApprovalWorkflow for TLC. *)
EXTENDS ApprovalWorkflow

CONSTANTS p1, h1, h2, h3

=============================================================================
