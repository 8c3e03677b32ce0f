--------------------------- MODULE PolicyApprovals --------------------------
(***************************************************************************)
(* The approvals of the policy engine (services/policy-engine): the         *)
(* in-memory approval_store with its create, approve and reject handlers    *)
(* (main.py), and the approval chains that say how many approvals an        *)
(* action needs (approval_chain.py).                                        *)
(*                                                                          *)
(* Each handler reads and writes the store before its only await, the call  *)
(* to the audit service, after which it only answers: it is one step.       *)
(***************************************************************************)
EXTENDS Naturals, Sequences

CONSTANTS
    Approvals,      \* approval identifiers (uuid4, never reused)
    Users,          \* user identifiers
    ActionNames     \* the actions approvals are asked for

VARIABLES
    status,         \* ApprovalResponse.status, "absent" or "lost"
    action,         \* ApprovalResponse.action
    approvers,      \* ApprovalResponse.approvers
    records         \* ApprovalChainManager.approval_records

request == <<action, approvers>>
vars    == <<status, request, records>>

ApprovalStatus == {"pending", "approved", "rejected"}
Decided        == {"approved", "rejected"}

TypeOK ==
    /\ status \in [Approvals -> ApprovalStatus \cup {"absent", "lost"}]
    /\ action \in [Approvals -> ActionNames]
    /\ approvers \in [Approvals -> SUBSET Users]
    /\ records \in [Approvals -> Seq(Users)]

(* What will be asked for is arbitrary, and fixed before it is. *)
Init ==
    /\ status = [p \in Approvals |-> "absent"]
    /\ action \in [Approvals -> ActionNames]
    /\ approvers \in [Approvals -> SUBSET Users]
    /\ records = [p \in Approvals |-> <<>>]

-----------------------------------------------------------------------------
(* ApprovalChainManager. *)

(* The approvals of all the levels of the chain that applies: the production *)
(* deployment chain has two levels of one, the destructive chain one level of *)
(* two.  _find_applicable_chain looks at the action only, so a deployment to  *)
(* staging waits for both levels as well.                                     *)
Required(name) ==
    CASE name \in {"deploy", "scale"}              -> 1 + 1
      [] name \in {"delete", "terminate", "remove"} -> 2
      [] OTHER                                      -> 0

(* Mutant: one approval too many is waited for. *)
MoreNeededOffByOne(p, n) == n <= Required(action[p])

(* get_remaining_approvals after the n-th record: max(0, required - n) > 0.   *)
MoreNeeded(p, n) == n < Required(action[p])

(* Mutant: nobody is asked who they are. *)
CanApproveAnyone(p, u) == TRUE

(* is_authorized: can_approve only looks at the list of approvers again, and  *)
(* the approver roles that the list of pending approvals goes by count here   *)
(* for nothing.                                                               *)
CanApprove(p, u) == u \in approvers[p]

-----------------------------------------------------------------------------
(* POST /approvals *)
CreateApproval(p) ==
    /\ status[p] = "absent"
    /\ status' = [status EXCEPT ![p] = "pending"]
    /\ UNCHANGED <<request, records>>

(* Mutant: the status is not checked. *)
ApproveAgain(p, u) ==
    /\ status[p] \in ApprovalStatus
    /\ CanApprove(p, u)
    /\ records' = [records EXCEPT ![p] = Append(@, u)]
    /\ status' = [status EXCEPT ![p] =
                    IF MoreNeeded(p, Len(records[p]) + 1) THEN "pending" ELSE "approved"]
    /\ UNCHANGED request

(* Mutant: the status of an action instead of that of an approval. *)
ApproveOtherStatus(p, u) ==
    /\ status[p] = "pending"
    /\ CanApprove(p, u)
    /\ records' = [records EXCEPT ![p] = Append(@, u)]
    /\ status' = [status EXCEPT ![p] =
                    IF MoreNeeded(p, Len(records[p]) + 1) THEN "pending_approval" ELSE "approved"]
    /\ UNCHANGED request

(* POST /approvals/{id}/approve: the approval is recorded, and the status goes *)
(* back to pending while the chain needs more.                                 *)
Approve(p, u) ==
    /\ status[p] = "pending"
    /\ CanApprove(p, u)
    /\ records' = [records EXCEPT ![p] = Append(@, u)]
    /\ status' = [status EXCEPT ![p] =
                    IF MoreNeeded(p, Len(records[p]) + 1) THEN "pending" ELSE "approved"]
    /\ UNCHANGED request

(* POST /approvals/{id}/reject *)
Reject(p, u) ==
    /\ status[p] = "pending"
    /\ CanApprove(p, u)
    /\ status' = [status EXCEPT ![p] = "rejected"]
    /\ UNCHANGED <<request, records>>

(* The process restarts with empty stores. *)
Restart ==
    /\ status' = [p \in Approvals |-> IF status[p] \in ApprovalStatus THEN "lost" ELSE status[p]]
    /\ records' = [p \in Approvals |-> <<>>]
    /\ UNCHANGED request

Next ==
    \/ \E p \in Approvals : CreateApproval(p)
    \/ \E p \in Approvals, u \in Users : Approve(p, u) \/ Reject(p, u)
    \/ Restart

Spec == Init /\ [][Next]_vars
-----------------------------------------------------------------------------
(* What holds. *)

Quorum(p) == IF Required(action[p]) = 0 THEN 1 ELSE Required(action[p])

(* The status agrees with the records, which are kept by another object: an   *)
(* approval is approved exactly when its quorum has been recorded, it is open *)
(* below it, a rejection always came below it, and nothing is recorded beyond. *)
QuorumDecides ==
    \A p \in Approvals :
        /\ status[p] \in {"pending", "rejected"} => Len(records[p]) < Quorum(p)
        /\ status[p] = "approved" => Len(records[p]) = Quorum(p)
        /\ status[p] \in {"absent", "lost"} => records[p] = <<>>

(* Only approvers of the approval are behind a decision.                      *)
RecordedByApprovers ==
    \A p \in Approvals : \A i \in DOMAIN records[p] : records[p][i] \in approvers[p]

(* A decision is final until the process restarts: neither a late approval    *)
(* nor a late rejection changes it, or what was recorded for it.              *)
DecisionIsFinal ==
    [][\A p \in Approvals :
         status[p] \in Decided =>
             \/ status'[p] = status[p] /\ records'[p] = records[p]
             \/ status'[p] = "lost"]_vars

-----------------------------------------------------------------------------
(* What the repository says and the code does not do. *)

(* "Multi-level approval for production deployments": the approvals of two    *)
(* levels are those of two people.                                            *)
ApprovedByDifferentPeople ==
    \A p \in Approvals : \A i, j \in DOMAIN records[p] :
        records[p][i] = records[p][j] => i = j

=============================================================================
