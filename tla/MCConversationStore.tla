------------------------ MODULE MCConversationStore ------------------------
(* Instances of ConversationStore for TLC. *)
EXTENDS ConversationStore

CONSTANTS c1, q1, q2, k1

=============================================================================
