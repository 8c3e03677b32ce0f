----------------------- MODULE PolicyApprovals_proofs -----------------------
(***************************************************************************)
(* Proofs about PolicyApprovals, for any approvals, users and action names: *)
(* the status of an approval follows from its records, only approvers are   *)
(* recorded, and a decision is final until a restart.                       *)
(***************************************************************************)
EXTENDS PolicyApprovals, SequenceTheorems, TLAPS

(* The quorum of an approval, and when it is reached.                         *)
LEMMA QuorumProperties ==
    ASSUME NEW p \in Approvals
    PROVE  /\ Quorum(p) \in Nat \ {0}
           /\ \A n \in Nat : n > 0 => (MoreNeeded(p, n) <=> n < Quorum(p))
<1>1. Required(action[p]) \in Nat
  BY DEF Required
<1>2. QED
  BY <1>1 DEF Quorum, MoreNeeded

IInv == TypeOK /\ QuorumDecides /\ RecordedByApprovers

LEMMA InitIInv == Init => IInv
<1> SUFFICES ASSUME Init
             PROVE  IInv
  OBVIOUS
<1>1. TypeOK
  BY EmptySeq DEF Init, TypeOK
<1>2. QuorumDecides
  BY DEF Init, QuorumDecides
<1>3. RecordedByApprovers
  BY DEF Init, RecordedByApprovers
<1>4. QED
  BY <1>1, <1>2, <1>3 DEF IInv

LEMMA NextTypeOK == ASSUME TypeOK, [Next]_vars PROVE TypeOK'
<1> USE DEF TypeOK, ApprovalStatus
<1>1. ASSUME NEW p \in Approvals, CreateApproval(p)
      PROVE  TypeOK'
  BY <1>1 DEF CreateApproval, request
<1>2. ASSUME NEW p \in Approvals, NEW u \in Users, Approve(p, u)
      PROVE  TypeOK'
  <2>1. Append(records[p], u) \in Seq(Users)
    BY AppendProperties
  <2>2. QED
    BY <1>2, <2>1 DEF Approve, request
<1>3. ASSUME NEW p \in Approvals, NEW u \in Users, Reject(p, u)
      PROVE  TypeOK'
  BY <1>3 DEF Reject, request
<1>4. CASE Restart
  BY <1>4, EmptySeq DEF Restart, request
<1>5. CASE UNCHANGED vars
  BY <1>5 DEF vars, request
<1>6. QED
  BY <1>1, <1>2, <1>3, <1>4, <1>5 DEF Next

LEMMA NextQuorumDecides == ASSUME TypeOK, QuorumDecides, [Next]_vars PROVE QuorumDecides'
<1> USE DEF TypeOK, ApprovalStatus
<1> SUFFICES ASSUME NEW p \in Approvals
             PROVE  /\ status'[p] \in {"pending", "rejected"} => Len(records'[p]) < Quorum(p)'
                    /\ status'[p] = "approved" => Len(records'[p]) = Quorum(p)'
                    /\ status'[p] \in {"absent", "lost"} => records'[p] = <<>>
  BY DEF QuorumDecides
<1>1. Quorum(p) \in Nat \ {0} /\ Len(records[p]) \in Nat
  BY QuorumProperties, LenProperties
<1>2. action' = action /\ Quorum(p)' = Quorum(p)
  BY DEF Next, CreateApproval, Approve, Reject, Restart, vars, request, Quorum
<1>3. CASE status'[p] = status[p] /\ records'[p] = records[p]
  BY <1>2, <1>3 DEF QuorumDecides
<1>4. ASSUME CreateApproval(p)
      PROVE  status'[p] = "pending" /\ records'[p] = <<>>
  BY <1>4 DEF CreateApproval, QuorumDecides
<1>5. ASSUME NEW u \in Users, Approve(p, u)
      PROVE  \/ status'[p] = "pending" /\ Len(records'[p]) < Quorum(p)
             \/ status'[p] = "approved" /\ Len(records'[p]) = Quorum(p)
  <2>1. Len(records[p]) < Quorum(p)
    BY <1>5 DEF Approve, QuorumDecides
  <2>2. records'[p] = Append(records[p], u) /\ Len(records'[p]) = Len(records[p]) + 1
    BY <1>5, AppendProperties DEF Approve
  <2>3. status'[p] = IF MoreNeeded(p, Len(records[p]) + 1) THEN "pending" ELSE "approved"
    BY <1>5 DEF Approve
  <2>4. MoreNeeded(p, Len(records[p]) + 1) <=> Len(records[p]) + 1 < Quorum(p)
    BY <1>1, QuorumProperties
  <2>5. QED
    BY <1>1, <2>1, <2>2, <2>3, <2>4
<1>6. ASSUME NEW u \in Users, Reject(p, u)
      PROVE  status'[p] = "rejected" /\ Len(records'[p]) < Quorum(p)
  BY <1>6 DEF Reject, QuorumDecides
<1>7. CASE Restart
  BY <1>7 DEF Restart, QuorumDecides
<1>8. \/ status'[p] = status[p] /\ records'[p] = records[p]
      \/ CreateApproval(p)
      \/ \E u \in Users : Approve(p, u) \/ Reject(p, u)
      \/ Restart
  BY DEF Next, CreateApproval, Approve, Reject, vars
<1>9. Len(<<>>) = 0
  BY EmptySeq
<1>10. QED
  BY <1>1, <1>2, <1>3, <1>4, <1>5, <1>6, <1>7, <1>8, <1>9

LEMMA NextRecordedByApprovers ==
    ASSUME TypeOK, RecordedByApprovers, [Next]_vars
    PROVE  RecordedByApprovers'
<1> USE DEF TypeOK
<1>1. CASE UNCHANGED <<records, approvers>>
  BY <1>1 DEF RecordedByApprovers
<1>2. ASSUME NEW p \in Approvals, NEW u \in Users, Approve(p, u)
      PROVE  RecordedByApprovers'
  <2> SUFFICES ASSUME NEW q \in Approvals, NEW i \in DOMAIN records'[q]
               PROVE  records'[q][i] \in approvers[q]
    BY <1>2 DEF RecordedByApprovers, Approve, request
  <2>1. CASE q # p
    BY <1>2, <2>1 DEF Approve, RecordedByApprovers
  <2>2. CASE q = p
    <3>1. records'[q] = Append(records[q], u) /\ u \in approvers[q]
      BY <1>2, <2>2 DEF Approve, CanApprove
    <3>2. /\ Len(records[q]) \in Nat /\ DOMAIN records[q] = 1..Len(records[q])
          /\ DOMAIN records'[q] = 1..(Len(records[q]) + 1)
          /\ \A j \in 1..Len(records[q]) : records'[q][j] = records[q][j]
          /\ records'[q][Len(records[q]) + 1] = u
      BY <3>1, AppendProperties, LenProperties
    <3>3. i \in 1..Len(records[q]) \/ i = Len(records[q]) + 1
      BY <3>2
    <3>4. QED
      BY <3>1, <3>2, <3>3 DEF RecordedByApprovers
  <2>3. QED
    BY <2>1, <2>2
<1>3. CASE Restart
  BY <1>3 DEF Restart, RecordedByApprovers
<1>4. QED
  BY <1>1, <1>2, <1>3 DEF Next, CreateApproval, Reject, vars, request

LEMMA InvariantIInv == Spec => []IInv
<1>1. IInv /\ [Next]_vars => IInv'
  BY NextTypeOK, NextQuorumDecides, NextRecordedByApprovers DEF IInv
<1>2. QED
  BY InitIInv, <1>1, PTL DEF Spec

-----------------------------------------------------------------------------
(* Every reachable state has the declared types.                              *)
THEOREM TypeCorrect == Spec => []TypeOK
<1>1. IInv => TypeOK
  BY DEF IInv
<1>2. QED
  BY InvariantIInv, <1>1, PTL

(* An approval is approved exactly when the quorum of its chain is recorded.  *)
THEOREM QuorumIsDecisive == Spec => []QuorumDecides
<1>1. IInv => QuorumDecides
  BY DEF IInv
<1>2. QED
  BY InvariantIInv, <1>1, PTL

(* Nobody outside the list of approvers is behind an approval.                *)
THEOREM RecordsAreOfApprovers == Spec => []RecordedByApprovers
<1>1. IInv => RecordedByApprovers
  BY DEF IInv
<1>2. QED
  BY InvariantIInv, <1>1, PTL

(* No step of any user changes a decision.                                    *)
THEOREM DecisionsAreFinal == Spec => DecisionIsFinal
<1>1. ASSUME TypeOK, [Next]_vars, NEW p \in Approvals, status[p] \in Decided
      PROVE  \/ status'[p] = status[p] /\ records'[p] = records[p]
             \/ status'[p] = "lost"
  <2> USE <1>1 DEF TypeOK, Decided, ApprovalStatus
  <2>1. CASE Restart
    BY <2>1 DEF Restart
  <2>2. CASE ~Restart
    BY <2>2 DEF Next, CreateApproval, Approve, Reject, vars
  <2>3. QED
    BY <2>1, <2>2
<1>2. TypeOK /\ [Next]_vars =>
        [\A p \in Approvals :
           status[p] \in Decided =>
             \/ status'[p] = status[p] /\ records'[p] = records[p]
             \/ status'[p] = "lost"]_vars
  BY <1>1
<1>3. QED
  BY TypeCorrect, <1>2, PTL DEF Spec, DecisionIsFinal
=============================================================================
