---------------------------- MODULE ActionPolicy ----------------------------
(***************************************************************************)
(* The action engine and the policy engine together: the two HTTP calls the *)
(* action engine makes (validate_with_policy_engine and                     *)
(* validate_execution_permissions in services/action-engine/main.py) meet   *)
(* the handlers that answer them (check_policy and validate_execution in    *)
(* services/policy-engine/main.py), and either process may stop and start.  *)
(***************************************************************************)
EXTENDS ActionEngine

CONSTANTS
    Approvals,      \* approvals of the policy engine
    Users           \* who approves

VARIABLES
    policy_up,      \* whether the policy engine answers
    action_id,      \* ApprovalResponse.action_id
    approval_status, approval_action, approvers, approval_records

policyVars == <<approval_status, approval_action, approvers, approval_records>>
allVars == <<vars, policy_up, action_id, policyVars>>

Policy == INSTANCE PolicyApprovals WITH
    ActionNames <- {"deploy"},
    status      <- approval_status,
    action      <- approval_action,
    records     <- approval_records

SystemInit ==
    /\ Init
    /\ policy_up = TRUE
    /\ action_id \in [Approvals -> Actions]
    /\ Policy!Init

-----------------------------------------------------------------------------
(* The calls. *)

(* check_policy: the answer carries what rbac_manager.requires_approval says, *)
(* which is always False; what check_resource_policies says about it is not   *)
(* looked at.  A policy engine that cannot be reached counts as an answer     *)
(* that requires approval.                                                    *)
PolicyCheck(a) == [allowed |-> TRUE, requires_approval |-> ~policy_up]

(* validate_execution allows everyone, but it takes action_id and user_id     *)
(* from the query string while the caller sends one JSON object: the request  *)
(* is answered 422, which the caller takes for a refusal.                     *)
QueryOfCaller   == {}
QueryOfHandler  == {"action_id", "user_id"}
MayExecute      == policy_up /\ QueryOfHandler \subseteq QueryOfCaller

EngineStep ==
    /\ \/ \E a \in Actions :
            \/ DryRun(a) /\ requires_approval'[a] = PolicyCheck(a).requires_approval
            \/ Rollback(a)
       \/ \E r \in Requests, a \in Actions : Execute(r, a)
       \/ \E r \in Requests :
            \/ MayExecute /\ PermissionGranted(r)
            \/ ~MayExecute /\ PermissionDenied(r)
            \/ CommandEnds(r)
       \/ Restart
    /\ UNCHANGED <<policy_up, action_id, policyVars>>

(* Approvals are created through the API: no code of the action engine does.  *)
PolicyStep ==
    /\ policy_up
    /\ \/ \E p \in Approvals : Policy!CreateApproval(p)
       \/ \E p \in Approvals, u \in Users : Policy!Approve(p, u) \/ Policy!Reject(p, u)
    /\ UNCHANGED <<vars, policy_up, action_id>>

PolicyStops ==
    /\ policy_up
    /\ policy_up' = FALSE
    /\ Policy!Restart
    /\ UNCHANGED <<vars, action_id>>

PolicyStarts ==
    /\ ~policy_up
    /\ policy_up' = TRUE
    /\ UNCHANGED <<vars, action_id, policyVars>>

SystemNext == EngineStep \/ PolicyStep \/ PolicyStops \/ PolicyStarts

SystemSpec == SystemInit /\ [][SystemNext]_allVars

(* A policy engine that stopped is started again, and the HTTP client has a   *)
(* timeout, so a permission request is answered.                              *)
FairSystemSpec ==
    /\ SystemSpec
    /\ WF_allVars(PolicyStarts)
    /\ \A r \in Requests :
         WF_allVars(EngineStep /\ (PermissionDenied(r) \/ PermissionGranted(r)))
-----------------------------------------------------------------------------
(* What the repository says and the code does not do. *)

(* Docstring of approve_action, "Approve a pending action": an action that    *)
(* waits and is approved gets out of the waiting.                             *)
ApprovalReleasesAction ==
    \A p \in Approvals, a \in Actions :
        status[a] = "pending_approval" /\ action_id[p] = a /\ approval_status[p] = "approved"
            ~> status[a] # "pending_approval"
=============================================================================
