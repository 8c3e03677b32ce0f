------------------------ MODULE ActionEngine_proofs -------------------------
(***************************************************************************)
(* Proofs about ActionEngine, for any number of actions, of execute         *)
(* requests and of rollback points: the type invariant, the safety          *)
(* invariants, that the engine implements ActionLifecycle, what it does     *)
(* with one request at a time, and that all of it carries over to the       *)
(* engine together with the policy engine (ActionPolicy).                   *)
(***************************************************************************)
EXTENDS ActionPolicy, SequenceTheorems, FiniteSetTheorems, TLAPS

Distinct(s) == \A i, j \in DOMAIN s : s[i] = s[j] => i = j
Entries(s)  == {s[i] : i \in DOMAIN s}

-----------------------------------------------------------------------------
(* Lemmas about the rollback points. *)

(* Dropping the k-th of distinct points leaves distinct points without it.    *)
LEMMA DropAt ==
    ASSUME NEW s \in Seq(Actions), NEW k \in 1..Len(s), Distinct(s),
           NEW w, w = [i \in 1..(Len(s) - 1) |-> s[IF i < k THEN i ELSE i + 1]]
    PROVE  /\ w \in Seq(Actions)
           /\ Distinct(w)
           /\ \A i \in DOMAIN w : w[i] # s[k]
           /\ Entries(w) = Entries(s) \ {s[k]}
<1>1. Len(s) \in Nat /\ DOMAIN s = 1..Len(s) /\ \A i \in 1..Len(s) : s[i] \in Actions
  BY ElementOfSeq, LenProperties
<1>2. \A i \in 1..(Len(s) - 1) :
         (IF i < k THEN i ELSE i + 1) \in (1..Len(s)) \ {k}
  BY <1>1
<1>3. w \in [1..(Len(s) - 1) -> Actions]
  BY <1>1, <1>2
<1>4. w \in Seq(Actions)
  BY <1>1, <1>3
<1>5. ASSUME NEW i \in 1..(Len(s) - 1)
      PROVE  w[i] # s[k]
  BY <1>1, <1>2 DEF Distinct
<1>6. ASSUME NEW i \in 1..(Len(s) - 1), NEW j \in 1..(Len(s) - 1), w[i] = w[j]
      PROVE  i = j
  <2>1. (IF i < k THEN i ELSE i + 1) = (IF j < k THEN j ELSE j + 1)
    BY <1>1, <1>2, <1>6 DEF Distinct
  <2>2. QED
    BY <1>1, <2>1
<1>7. Entries(w) \subseteq Entries(s) \ {s[k]}
  BY <1>1, <1>2, <1>3, <1>5 DEF Entries
<1>8. ASSUME NEW i \in 1..Len(s), s[i] # s[k]
      PROVE  s[i] \in Entries(w)
  <2>1. CASE i < k
    <3>1. i \in 1..(Len(s) - 1) /\ w[i] = s[i]
      BY <1>1, <2>1
    <3>2. QED
      BY <1>3, <3>1 DEF Entries
  <2>2. CASE i > k
    <3>1. i - 1 \in 1..(Len(s) - 1) /\ ~(i - 1 < k) /\ (i - 1) + 1 = i
      BY <1>1, <2>2
    <3>2. w[i - 1] = s[i]
      BY <3>1
    <3>3. QED
      BY <1>3, <3>1, <3>2 DEF Entries
  <2>3. QED
    BY <1>1, <1>8, <2>1, <2>2
<1>9. Entries(s) \ {s[k]} \subseteq Entries(w)
  BY <1>1, <1>8 DEF Entries
<1>10. QED
  BY <1>3, <1>4, <1>5, <1>6, <1>7, <1>9 DEF Distinct

(* Taking the point of an action out leaves distinct points without it.       *)
LEMMA WithoutProperties ==
    ASSUME NEW s \in Seq(Actions), NEW a \in Actions, Distinct(s)
    PROVE  /\ Without(s, a) \in Seq(Actions)
           /\ Distinct(Without(s, a))
           /\ \A i \in DOMAIN Without(s, a) : Without(s, a)[i] # a
           /\ Entries(Without(s, a)) = Entries(s) \ {a}
<1>1. CASE ~ \E i \in DOMAIN s : s[i] = a
  <2>1. Without(s, a) = s
    BY <1>1 DEF Without
  <2>2. QED
    BY <1>1, <2>1 DEF Entries
<1>2. CASE \E i \in DOMAIN s : s[i] = a
  <2>1. PICK k \in DOMAIN s : k = (CHOOSE i \in DOMAIN s : s[i] = a) /\ s[k] = a
    BY <1>2
  <2>2. Without(s, a) = [i \in 1..(Len(s) - 1) |-> s[IF i < k THEN i ELSE i + 1]]
    BY <1>2, <2>1 DEF Without
  <2>3. k \in 1..Len(s)
    BY <2>1, LenProperties
  <2>4. QED
    BY <2>1, <2>2, <2>3, DropAt
<1>3. QED
  BY <1>1, <1>2

(* A new point behind distinct points without it.                             *)
LEMMA AppendDistinct ==
    ASSUME NEW s \in Seq(Actions), NEW a \in Actions, Distinct(s),
           \A i \in DOMAIN s : s[i] # a
    PROVE  /\ Append(s, a) \in Seq(Actions)
           /\ Distinct(Append(s, a))
           /\ Entries(Append(s, a)) = Entries(s) \cup {a}
<1>1. Len(s) \in Nat /\ DOMAIN s = 1..Len(s)
  BY LenProperties
<1>2. /\ Append(s, a) \in Seq(Actions)
      /\ DOMAIN Append(s, a) = 1..(Len(s) + 1)
      /\ \A i \in 1..Len(s) : Append(s, a)[i] = s[i]
      /\ Append(s, a)[Len(s) + 1] = a
  BY <1>1, AppendProperties, LenProperties
<1>3. ASSUME NEW i \in 1..(Len(s) + 1), NEW j \in 1..(Len(s) + 1),
             Append(s, a)[i] = Append(s, a)[j]
      PROVE  i = j
  BY <1>1, <1>2, <1>3 DEF Distinct
<1>4. Entries(s) \cup {a} \subseteq Entries(Append(s, a))
  BY <1>1, <1>2 DEF Entries
<1>5. Entries(Append(s, a)) \subseteq Entries(s) \cup {a}
  <2>1. ASSUME NEW i \in 1..(Len(s) + 1)
        PROVE  Append(s, a)[i] \in Entries(s) \cup {a}
    <3>1. i \in 1..Len(s) \/ i = Len(s) + 1
      BY <1>1
    <3>2. QED
      BY <1>1, <1>2, <3>1 DEF Entries
  <2>2. QED
    BY <1>2, <2>1 DEF Entries
<1>6. QED
  BY <1>2, <1>3, <1>4, <1>5 DEF Distinct

(* The cleanup keeps at most MaxPoints points, and keeps them distinct.       *)
LEMMA CleanupProperties ==
    ASSUME NEW s \in Seq(Actions), Distinct(s)
    PROVE  /\ Cleanup(s) \in Seq(Actions)
           /\ Distinct(Cleanup(s))
           /\ Len(Cleanup(s)) <= MaxPoints
           /\ Entries(Cleanup(s)) \subseteq Entries(s)
<1>1. /\ Len(s) \in Nat
      /\ DOMAIN s = 1..Len(s)
      /\ \A i \in 1..Len(s) : s[i] \in Actions
      /\ MaxPoints \in Nat \ {0}
  BY ElementOfSeq, LenProperties, ConstantsAssumption
<1>2. CASE Len(s) <= MaxPoints
  BY <1>2 DEF Cleanup
<1>3. CASE ~(Len(s) <= MaxPoints)
  <2> DEFINE t == SubSeq(s, Len(s) - MaxPoints + 1, Len(s))
  <2>1. Cleanup(s) = t
    BY <1>3 DEF Cleanup
  <2>2. \A i \in (Len(s) - MaxPoints + 1)..Len(s) : s[i] \in Actions
    BY <1>1, <1>3
  <2>3. /\ t \in Seq(Actions)
        /\ Len(t) = MaxPoints
        /\ \A i \in 1..MaxPoints : t[i] = s[Len(s) - MaxPoints + i]
    BY <1>1, <1>3, <2>2, SubSeqProperties
  <2>4. DOMAIN t = 1..MaxPoints
    BY <2>3, LenProperties
  <2>5. ASSUME NEW i \in 1..MaxPoints, NEW j \in 1..MaxPoints, t[i] = t[j]
        PROVE  i = j
    <3>1. s[Len(s) - MaxPoints + i] = s[Len(s) - MaxPoints + j]
      BY <2>3, <2>5
    <3>2. Len(s) - MaxPoints + i \in DOMAIN s /\ Len(s) - MaxPoints + j \in DOMAIN s
      BY <1>1, <1>3
    <3>3. Len(s) - MaxPoints + i = Len(s) - MaxPoints + j
      BY <3>1, <3>2 DEF Distinct
    <3>4. QED
      BY <1>1, <3>3
  <2>6. Distinct(t)
    BY <2>4, <2>5 DEF Distinct
  <2>7. t \in Seq(Actions) /\ Len(t) <= MaxPoints
    BY <1>1, <2>3
  <2>8. \A i \in 1..MaxPoints : t[i] = s[Len(s) - MaxPoints + i]
                             /\ Len(s) - MaxPoints + i \in DOMAIN s
    BY <1>1, <1>3, <2>3
  <2> HIDE DEF t
  <2>9. Entries(t) \subseteq Entries(s)
    BY <2>4, <2>8 DEF Entries
  <2>10. QED
    BY <2>1, <2>6, <2>7, <2>9
<1>4. QED
  BY <1>2, <1>3

(* What create_rollback_point leaves.                                         *)
LEMMA CreatePointProperties ==
    ASSUME NEW s \in Seq(Actions), NEW a \in Actions, Distinct(s)
    PROVE  /\ CreatePoint(s, a) \in Seq(Actions)
           /\ Distinct(CreatePoint(s, a))
           /\ Len(CreatePoint(s, a)) <= MaxPoints
           /\ Entries(CreatePoint(s, a)) \subseteq Entries(s) \cup {a}
<1> DEFINE t == Append(Without(s, a), a)
<1>1. t \in Seq(Actions) /\ Distinct(t) /\ Entries(t) = Entries(s) \cup {a}
  BY WithoutProperties, AppendDistinct
<1>2. CreatePoint(s, a) = Cleanup(t)
  BY DEF CreatePoint
<1> HIDE DEF t
<1>3. QED
  BY <1>1, <1>2, CleanupProperties

(* As many distinct points as there are elements to draw them from, at most.  *)
LEMMA DistinctLength ==
    ASSUME NEW s \in Seq(Actions), Distinct(s),
           NEW E, IsFiniteSet(E), Entries(s) \subseteq E
    PROVE  Len(s) <= Cardinality(E)
<1>1. Len(s) \in Nat /\ DOMAIN s = 1..Len(s) /\ Cardinality(E) \in Nat
  BY LenProperties, FS_CardinalityType
<1>2. IsFiniteSet(1..Len(s)) /\ Cardinality(1..Len(s)) = Len(s)
  <2>1. 1 \in Int /\ Len(s) \in Int /\ (1 > Len(s) => Len(s) = 0)
    BY <1>1
  <2>2. Cardinality(1..Len(s)) = IF 1 > Len(s) THEN 0 ELSE Len(s) - 1 + 1
    BY <2>1, FS_Interval
  <2>3. IsFiniteSet(1..Len(s))
    BY <2>1, FS_Interval
  <2>4. QED
    BY <1>1, <2>1, <2>2, <2>3
<1>3. s \in [1..Len(s) -> E]
  BY <1>1, LenProperties DEF Entries
<1>4. ASSUME Cardinality(E) < Len(s)
      PROVE  FALSE
  <2>1. \E i, j \in 1..Len(s) : i # j /\ s[i] = s[j]
    BY <1>2, <1>3, <1>4, FS_PigeonHole
  <2>2. QED
    BY <1>1, <2>1 DEF Distinct
<1>5. QED
  BY <1>1, <1>4

(* No point is dropped while all of them come from MaxPoints actions.         *)
LEMMA CreatePointKeeps ==
    ASSUME NEW s \in Seq(Actions), Distinct(s), NEW a \in Actions,
           NEW E, IsFiniteSet(E), Entries(s) \subseteq E, a \in E,
           Cardinality(E) <= MaxPoints
    PROVE  Entries(CreatePoint(s, a)) = Entries(s) \cup {a}
<1> DEFINE t == Append(Without(s, a), a)
<1>1. /\ t \in Seq(Actions)
      /\ Distinct(t)
      /\ Entries(t) = Entries(s) \cup {a}
  BY WithoutProperties, AppendDistinct
<1>2. Len(t) \in Nat /\ Cardinality(E) \in Nat /\ MaxPoints \in Nat
  BY <1>1, LenProperties, FS_CardinalityType, ConstantsAssumption
<1>3. Len(t) <= Cardinality(E)
  <2> HIDE DEF t
  <2>1. QED
    BY <1>1, DistinctLength
<1>4. Len(t) <= MaxPoints
  BY <1>2, <1>3
<1>5. CreatePoint(s, a) = t
  BY <1>4 DEF CreatePoint, Cleanup
<1>6. QED
  BY <1>1, <1>5

-----------------------------------------------------------------------------
(* The inductive invariant.                                                   *)

PointsOK == Len(rollback_points) <= MaxPoints /\ Distinct(rollback_points)

(* An approved action and the action of every request in progress need no     *)
(* approval, and the latter is stored; an action that is not stored yet has   *)
(* never been started.                                                        *)
ApprovalOK ==
    /\ \A a \in Actions :
         /\ status[a] \in {"approved", "absent"} \/ applied[a] > 0 => ~requires_approval[a]
         /\ status[a] = "absent" => applied[a] = 0
    /\ \A r \in Requests :
         pc[r] # "idle" => Stored(target[r]) /\ ~requires_approval[target[r]]

IInv == TypeOK /\ PointsOK /\ ApprovalOK /\ ExecutingHasRunner

LEMMA InitIInv == Init => IInv
<1> SUFFICES ASSUME Init
             PROVE  IInv
  OBVIOUS
<1> USE DEF Init
<1>1. TypeOK
  BY EmptySeq DEF TypeOK, ActionStatus
<1>2. PointsOK
  BY EmptySeq, ConstantsAssumption DEF PointsOK, Distinct
<1>3. ApprovalOK
  BY DEF ApprovalOK
<1>4. ExecutingHasRunner
  BY DEF ExecutingHasRunner
<1>5. QED
  BY <1>1, <1>2, <1>3, <1>4 DEF IInv

(* A rollback point is created only when a permitted execution starts, so it  *)
(* is enough to look at that step, at a restart and at the steps that leave   *)
(* the points alone.                                                          *)
LEMMA NextPointsOK == ASSUME IInv, [Next]_vars PROVE PointsOK'
<1> USE DEF IInv
<1>1. CASE UNCHANGED rollback_points
  BY <1>1 DEF PointsOK, Distinct
<1>2. ASSUME NEW r \in Requests, PermissionGranted(r)
      PROVE  PointsOK'
  <2>1. target[r] \in Actions
    BY <1>2 DEF PermissionGranted, TypeOK
  <2>2. rollback_points' = CreatePoint(rollback_points, target[r])
    BY <1>2 DEF PermissionGranted
  <2>3. rollback_points \in Seq(Actions) /\ Distinct(rollback_points)
    BY DEF TypeOK, PointsOK
  <2>4. Len(rollback_points') <= MaxPoints /\ Distinct(rollback_points')
    BY <2>1, <2>2, <2>3, CreatePointProperties
  <2>5. QED
    BY <2>4 DEF PointsOK, Distinct
<1>3. CASE Restart
  BY <1>3, EmptySeq, ConstantsAssumption DEF Restart, PointsOK, Distinct
<1>4. QED
  BY <1>1, <1>2, <1>3
     DEF Next, vars, store, DryRun, Rollback, Execute, PermissionDenied, CommandEnds

LEMMA NextTypeOK == ASSUME IInv, [Next]_vars PROVE TypeOK'
<1> USE DEF IInv, TypeOK, ActionStatus
<1>1. ASSUME NEW a \in Actions, DryRun(a)
      PROVE  TypeOK'
  <2>1. PICK approval \in BOOLEAN :
          /\ status' = [status EXCEPT ![a] =
                          IF approval THEN "pending_approval" ELSE "approved"]
          /\ requires_approval' = [requires_approval EXCEPT ![a] = approval]
    BY <1>1, ConstantsAssumption, Zenon DEF DryRun
  <2>2. status' \in [Actions -> ActionStatus \cup {"absent", "lost"}]
    BY <2>1
  <2>3. requires_approval' \in [Actions -> BOOLEAN]
    BY <2>1
  <2>4. QED
    BY <1>1, <2>2, <2>3 DEF DryRun
<1>2. ASSUME NEW a \in Actions, Rollback(a)
      PROVE  TypeOK'
  BY <1>2 DEF Rollback
<1>4. ASSUME NEW r \in Requests, NEW a \in Actions, Execute(r, a)
      PROVE  TypeOK'
  BY <1>4 DEF Execute, store
<1>5. ASSUME NEW r \in Requests, PermissionDenied(r)
      PROVE  TypeOK'
  BY <1>5 DEF PermissionDenied, store
<1>6. ASSUME NEW r \in Requests, PermissionGranted(r)
      PROVE  TypeOK'
  <2>1. target[r] \in Actions /\ rollback_points \in Seq(Actions) /\ Distinct(rollback_points)
    BY <1>6 DEF PermissionGranted, PointsOK
  <2>2. rollback_points' \in Seq(Actions)
    BY <1>6, <2>1, CreatePointProperties DEF PermissionGranted
  <2>3. QED
    BY <1>6, <2>1, <2>2 DEF PermissionGranted
<1>7. ASSUME NEW r \in Requests, CommandEnds(r)
      PROVE  TypeOK'
  BY <1>7 DEF CommandEnds
<1>8. CASE Restart
  BY <1>8, EmptySeq DEF Restart
<1>9. CASE UNCHANGED vars
  BY <1>9 DEF vars, store
<1>10. QED
  BY <1>1, <1>2, <1>4, <1>5, <1>6, <1>7, <1>8, <1>9 DEF Next

LEMMA NextApprovalOK == ASSUME IInv, [Next]_vars PROVE ApprovalOK'
<1> USE DEF IInv, TypeOK, ActionStatus, ApprovalOK, Stored
<1>1. ASSUME NEW a \in Actions, DryRun(a)
      PROVE  ApprovalOK'
  BY <1>1 DEF DryRun
<1>2. ASSUME NEW a \in Actions, Rollback(a)
      PROVE  ApprovalOK'
  BY <1>2 DEF Rollback, Stored
<1>4. ASSUME NEW r \in Requests, NEW a \in Actions, Execute(r, a)
      PROVE  ApprovalOK'
  BY <1>4 DEF Execute, store
<1>5. ASSUME NEW r \in Requests, PermissionDenied(r)
      PROVE  ApprovalOK'
  BY <1>5 DEF PermissionDenied, store
<1>6. ASSUME NEW r \in Requests, PermissionGranted(r)
      PROVE  ApprovalOK'
  BY <1>6 DEF PermissionGranted
<1>7. ASSUME NEW r \in Requests, CommandEnds(r)
      PROVE  ApprovalOK'
  BY <1>7 DEF CommandEnds
<1>8. CASE Restart
  BY <1>8 DEF Restart, Stored
<1>9. CASE UNCHANGED vars
  BY <1>9 DEF vars, store
<1>10. QED
  BY <1>1, <1>2, <1>4, <1>5, <1>6, <1>7, <1>8, <1>9 DEF Next

LEMMA NextExecutingHasRunner == ASSUME IInv, [Next]_vars PROVE ExecutingHasRunner'
<1> USE DEF IInv, TypeOK, ActionStatus, ExecutingHasRunner, Running
<1>1. ASSUME NEW a \in Actions, DryRun(a)
      PROVE  ExecutingHasRunner'
  BY <1>1 DEF DryRun
<1>2. ASSUME NEW a \in Actions, Rollback(a)
      PROVE  ExecutingHasRunner'
  BY <1>2 DEF Rollback
<1>4. ASSUME NEW r \in Requests, NEW a \in Actions, Execute(r, a)
      PROVE  ExecutingHasRunner'
  BY <1>4 DEF Execute, store
<1>5. ASSUME NEW r \in Requests, PermissionDenied(r)
      PROVE  ExecutingHasRunner'
  BY <1>5 DEF PermissionDenied, store
<1>6. ASSUME NEW r \in Requests, PermissionGranted(r)
      PROVE  ExecutingHasRunner'
  BY <1>6 DEF PermissionGranted
<1>7. ASSUME NEW r \in Requests, CommandEnds(r)
      PROVE  ExecutingHasRunner'
  BY <1>7 DEF CommandEnds
<1>8. CASE Restart
  BY <1>8 DEF Restart, Stored
<1>9. CASE UNCHANGED vars
  BY <1>9 DEF vars, store
<1>10. QED
  BY <1>1, <1>2, <1>4, <1>5, <1>6, <1>7, <1>8, <1>9 DEF Next

LEMMA InvariantIInv == Spec => []IInv
<1>1. IInv /\ [Next]_vars => IInv'
  BY NextPointsOK, NextTypeOK, NextApprovalOK, NextExecutingHasRunner DEF IInv
<1>2. QED
  BY InitIInv, <1>1, PTL DEF Spec

-----------------------------------------------------------------------------
(* Every reachable state has the declared types.                              *)
THEOREM TypeCorrect == Spec => []TypeOK
<1>1. IInv => TypeOK
  BY DEF IInv
<1>2. QED
  BY InvariantIInv, <1>1, PTL

(* No command is ever started for an action that needs an approval, for any   *)
(* number of racing execute requests, rollbacks and restarts.                 *)
THEOREM PendingIsNeverExecuted == Spec => []PendingNeverExecuted
<1>1. IInv => PendingNeverExecuted
  BY DEF IInv, TypeOK, ApprovalOK, PendingNeverExecuted
<1>2. QED
  BY InvariantIInv, <1>1, PTL

(* An action in executing always has a handler that will end it: none of the  *)
(* racing handlers, rollbacks and restarts strands it.                        *)
THEOREM ExecutingIsNeverStranded == Spec => []ExecutingHasRunner
<1>1. IInv => ExecutingHasRunner
  BY DEF IInv
<1>2. QED
  BY InvariantIInv, <1>1, PTL

(* The rollback points stay within their maximum, one per action.             *)
THEOREM PointsStayBounded == Spec => []RollbackPointsBounded
<1>1. IInv => RollbackPointsBounded
  BY DEF IInv, PointsOK, Distinct, RollbackPointsBounded
<1>2. QED
  BY InvariantIInv, <1>1, PTL

-----------------------------------------------------------------------------
(* Bounded executions: each start of an action uses up a request that passed   *)
(* the status check while the action was approved, and it is approved only    *)
(* before its first start.                                                    *)

Waiting(a) == {r \in Requests : pc[r] = "permission" /\ target[r] = a}

BoundOK ==
    \A a \in Actions :
        /\ status[a] \in {"absent", "pending_approval", "approved"} => applied[a] = 0
        /\ applied[a] + Cardinality(Waiting(a)) <= Cardinality(Requests)

LEMMA WaitingFinite ==
    ASSUME NEW W \in SUBSET Requests
    PROVE  /\ Cardinality(Requests) \in Nat
           /\ IsFiniteSet(W) /\ Cardinality(W) \in Nat
           /\ Cardinality(W) <= Cardinality(Requests)
BY ConstantsAssumption, FS_Subset, FS_CardinalityType

LEMMA InitBoundOK == Init => BoundOK
<1> SUFFICES ASSUME Init, NEW a \in Actions
             PROVE  applied[a] = 0 /\ Cardinality(Waiting(a)) <= Cardinality(Requests)
  BY WaitingFinite DEF Init, BoundOK, Waiting
<1> QED
  BY WaitingFinite DEF Init, Waiting

LEMMA NextBoundOK == ASSUME TypeOK, BoundOK, [Next]_vars PROVE BoundOK'
<1> USE DEF TypeOK, ActionStatus
<1>1. Cardinality(Requests) \in Nat
  BY ConstantsAssumption, FS_CardinalityType
(* A step that starts nothing and lets no request join preserves the bound.   *)
<1>2. ASSUME applied' = applied,
             \A a \in Actions : Waiting(a)' \subseteq Waiting(a),
             \A a \in Actions :
               status'[a] \in {"absent", "pending_approval", "approved"} =>
                 status[a] \in {"absent", "pending_approval", "approved"}
      PROVE  BoundOK'
  <2> SUFFICES ASSUME NEW a \in Actions
               PROVE  /\ status'[a] \in {"absent", "pending_approval", "approved"}
                           => applied'[a] = 0
                      /\ applied'[a] + Cardinality(Waiting(a)') <= Cardinality(Requests)
    BY DEF BoundOK
  <2>1. IsFiniteSet(Waiting(a)) /\ Cardinality(Waiting(a)) \in Nat
    BY WaitingFinite DEF Waiting
  <2>2. Cardinality(Waiting(a)') <= Cardinality(Waiting(a)) /\ Cardinality(Waiting(a)') \in Nat
    BY <1>2, <2>1, FS_Subset, FS_CardinalityType
  <2>3. applied[a] + Cardinality(Waiting(a)) <= Cardinality(Requests) /\ applied[a] \in Nat
    BY DEF BoundOK
  <2>4. QED
    BY <1>1, <1>2, <2>1, <2>2, <2>3 DEF BoundOK
<1>3. ASSUME NEW a \in Actions, DryRun(a) \/ Rollback(a)
      PROVE  BoundOK'
  <2>1. /\ applied' = applied
        /\ \A b \in Actions : Waiting(b)' = Waiting(b)
        /\ \A b \in Actions :
             status'[b] \in {"absent", "pending_approval", "approved"} =>
               status[b] \in {"absent", "pending_approval", "approved"}
    BY <1>3 DEF DryRun, Rollback, store, Waiting
  <2>2. QED
    BY <1>2, <2>1
<1>4. ASSUME NEW r \in Requests, NEW b \in Actions, Execute(r, b)
      PROVE  BoundOK'
  <2> SUFFICES ASSUME NEW a \in Actions
               PROVE  applied[a] + Cardinality(Waiting(a)') <= Cardinality(Requests)
    BY <1>4 DEF Execute, store, BoundOK
  <2>1. CASE a = b
    <3>1. applied[a] = 0
      BY <1>4, <2>1 DEF Execute, BoundOK
    <3>2. Waiting(a)' \subseteq Requests
      BY DEF Waiting
    <3>3. QED
      BY <1>1, <3>1, <3>2, WaitingFinite
  <2>2. CASE a # b
    <3>1. Waiting(a)' = Waiting(a)
      BY <1>4, <2>2 DEF Execute, Waiting
    <3>2. QED
      BY <3>1 DEF BoundOK
  <2>3. QED
    BY <2>1, <2>2
<1>5. ASSUME NEW r \in Requests, PermissionDenied(r)
      PROVE  BoundOK'
  <2>1. applied' = applied /\ status' = status
        /\ \A a \in Actions : Waiting(a)' \subseteq Waiting(a)
    BY <1>5 DEF PermissionDenied, store, Waiting
  <2>2. QED
    BY <1>2, <2>1
<1>6. ASSUME NEW r \in Requests, PermissionGranted(r)
      PROVE  BoundOK'
  <2> DEFINE b == target[r]
  <2>1. b \in Actions
    BY <1>6 DEF PermissionGranted
  <2> SUFFICES ASSUME NEW a \in Actions
               PROVE  /\ status'[a] \in {"absent", "pending_approval", "approved"}
                           => applied'[a] = 0
                      /\ applied'[a] + Cardinality(Waiting(a)') <= Cardinality(Requests)
    BY DEF BoundOK
  <2>2. IsFiniteSet(Waiting(a)) /\ Cardinality(Waiting(a)) \in Nat
    BY WaitingFinite DEF Waiting
  <2>3. applied[a] + Cardinality(Waiting(a)) <= Cardinality(Requests) /\ applied[a] \in Nat
    BY DEF BoundOK
  <2>4. CASE a = b
    <3>1. Waiting(a)' = Waiting(a) \ {r} /\ r \in Waiting(a)
      BY <1>6, <2>4 DEF PermissionGranted, Waiting
    <3>2. Cardinality(Waiting(a)') = Cardinality(Waiting(a)) - 1
      BY <2>2, <3>1, FS_RemoveElement
    <3>3. applied'[a] = applied[a] + 1 /\ status'[a] = "executing"
      BY <1>6, <2>1, <2>4 DEF PermissionGranted
    <3>4. QED
      BY <1>1, <2>2, <2>3, <3>2, <3>3
  <2>5. CASE a # b
    <3>1. Waiting(a)' = Waiting(a)
      BY <1>6, <2>5 DEF PermissionGranted, Waiting
    <3>2. applied'[a] = applied[a] /\ status'[a] = status[a]
      BY <1>6, <2>1, <2>5 DEF PermissionGranted
    <3>3. QED
      BY <2>3, <3>1, <3>2 DEF BoundOK
  <2>6. QED
    BY <2>4, <2>5
<1>7. ASSUME NEW r \in Requests, CommandEnds(r)
      PROVE  BoundOK'
  <2>1. /\ applied' = applied
        /\ \A a \in Actions : Waiting(a)' \subseteq Waiting(a)
        /\ \A a \in Actions :
             status'[a] \in {"absent", "pending_approval", "approved"} =>
               status[a] \in {"absent", "pending_approval", "approved"}
    BY <1>7 DEF CommandEnds, Waiting
  <2>2. QED
    BY <1>2, <2>1
<1>8. CASE Restart
  <2>1. /\ applied' = applied
        /\ \A a \in Actions : Waiting(a)' \subseteq Waiting(a)
        /\ \A a \in Actions :
             status'[a] \in {"absent", "pending_approval", "approved"} =>
               status[a] \in {"absent", "pending_approval", "approved"}
    BY <1>8 DEF Restart, Waiting, Stored
  <2>2. QED
    BY <1>2, <2>1
<1>9. CASE UNCHANGED vars
  BY <1>9 DEF vars, store, BoundOK, Waiting
<1>10. QED
  BY <1>3, <1>4, <1>5, <1>6, <1>7, <1>8, <1>9 DEF Next

LEMMA InvariantBoundOK == Spec => []BoundOK
<1>1. IInv /\ BoundOK /\ [Next]_vars => BoundOK'
  BY NextBoundOK DEF IInv
<1>2. QED
  BY InvariantIInv, InitBoundOK, <1>1, PTL DEF Spec

(* A race of execute requests starts an action at most once per request.      *)
THEOREM ExecutionsAreBounded == Spec => [](\A a \in Actions : applied[a] <= Cardinality(Requests))
<1>1. IInv /\ BoundOK => \A a \in Actions : applied[a] <= Cardinality(Requests)
  <2> SUFFICES ASSUME IInv, BoundOK, NEW a \in Actions
               PROVE  applied[a] <= Cardinality(Requests)
    OBVIOUS
  <2>1. Cardinality(Waiting(a)) \in Nat /\ Cardinality(Requests) \in Nat
    BY WaitingFinite DEF Waiting
  <2>2. applied[a] \in Nat /\ applied[a] + Cardinality(Waiting(a)) <= Cardinality(Requests)
    BY DEF IInv, TypeOK, BoundOK
  <2>3. QED
    BY <2>1, <2>2
<1>2. QED
  BY InvariantIInv, InvariantBoundOK, <1>1, PTL

-----------------------------------------------------------------------------
(* PointKeptWhileRoom: every point comes from an executed action, so with at  *)
(* most MaxPoints executed actions the cleanup has nothing to drop.           *)

KeptOK ==
    /\ IsFiniteSet(Executed)
    /\ Entries(rollback_points) \subseteq Executed
    /\ \A a \in Actions : status[a] = "absent" => ~rollback_point_id[a]
    /\ PointKeptWhileRoom

LEMMA InitKeptOK == Init => KeptOK
<1> SUFFICES ASSUME Init
             PROVE  KeptOK
  OBVIOUS
<1>1. Executed = {}
  BY DEF Init, Executed
<1>2. Entries(rollback_points) = {}
  BY DEF Init, Entries
<1>3. \A a \in Actions : ~Stored(a) /\ ~rollback_point_id[a]
  BY DEF Init, Stored, ActionStatus
<1>4. QED
  BY <1>1, <1>2, <1>3, FS_EmptySet DEF KeptOK, PointKeptWhileRoom

LEMMA NextKeptOK == ASSUME TypeOK, PointsOK, ApprovalOK, KeptOK, [Next]_vars PROVE KeptOK'
<1> USE DEF TypeOK, ActionStatus
(* A step that executes nothing and leaves the points alone.                  *)
<1>1. ASSUME applied' = applied, rollback_points' = rollback_points,
             rollback_point_id' = rollback_point_id,
             \A a \in Actions : Stored(a)' => Stored(a) \/ status[a] = "absent",
             \A a \in Actions : status'[a] = "absent" => status[a] = "absent"
      PROVE  KeptOK'
  <2>1. Executed' = Executed /\ Entries(rollback_points)' = Entries(rollback_points)
    BY <1>1 DEF Executed, Entries
  <2>2. \A a \in Actions : HasPoint(a)' <=> HasPoint(a)
    BY <1>1 DEF HasPoint
  <2>3. PointKeptWhileRoom'
    BY <1>1, <2>1, <2>2 DEF PointKeptWhileRoom, KeptOK
  <2>4. QED
    BY <1>1, <2>1, <2>3 DEF KeptOK
<1>2. ASSUME NEW a \in Actions, DryRun(a) \/ Rollback(a)
      PROVE  KeptOK'
  BY <1>1, <1>2 DEF DryRun, Rollback, store, Stored
<1>3. ASSUME NEW r \in Requests, NEW a \in Actions, Execute(r, a)
      PROVE  KeptOK'
  BY <1>1, <1>3 DEF Execute, store, Stored
<1>4. ASSUME NEW r \in Requests, PermissionDenied(r)
      PROVE  KeptOK'
  BY <1>1, <1>4 DEF PermissionDenied, store, Stored
<1>5. ASSUME NEW r \in Requests, PermissionGranted(r)
      PROVE  KeptOK'
  <2> DEFINE b == target[r]
  <2>1. /\ b \in Actions
        /\ rollback_points \in Seq(Actions) /\ Distinct(rollback_points)
        /\ rollback_points' = CreatePoint(rollback_points, b)
        /\ rollback_point_id' = [rollback_point_id EXCEPT ![b] = TRUE]
        /\ status' = [status EXCEPT ![b] = "executing"]
        /\ applied' = [applied EXCEPT ![b] = @ + 1]
    BY <1>5 DEF PermissionGranted, PointsOK
  <2>2. Executed' = Executed \cup {b}
    BY <2>1 DEF Executed
  <2>3. IsFiniteSet(Executed')
    BY <2>2, FS_AddElement DEF KeptOK
  <2>4. Entries(rollback_points') \subseteq Entries(rollback_points) \cup {b}
    BY <2>1, CreatePointProperties
  <2>5. Entries(rollback_points') \subseteq Executed'
    BY <2>2, <2>4 DEF KeptOK
  <2>6. ASSUME Cardinality(Executed') <= MaxPoints,
               NEW a \in Actions, Stored(a)', rollback_point_id'[a]
        PROVE  HasPoint(a)'
    <3>1. Entries(rollback_points') = Entries(rollback_points) \cup {b}
      <4> HIDE DEF b
      <4>1. Entries(rollback_points) \subseteq Executed' /\ b \in Executed'
        BY <2>2 DEF KeptOK
      <4>2. QED
        BY <2>1, <2>3, <2>6, <4>1, CreatePointKeeps
    <3>2. CASE a = b
      <4>1. a \in Entries(rollback_points')
        BY <3>1, <3>2
      <4>2. QED
        BY <4>1 DEF HasPoint, Entries
    <3>3. CASE a # b
      <4>1. Stored(a) /\ rollback_point_id[a]
        BY <2>1, <2>6, <3>3 DEF Stored
      <4>2. Cardinality(Executed) <= MaxPoints
        <5>1. /\ Cardinality(Executed) <= Cardinality(Executed')
              /\ Cardinality(Executed) \in Nat /\ Cardinality(Executed') \in Nat
          BY <2>2, <2>3, FS_Subset, FS_CardinalityType DEF KeptOK
        <5>2. QED
          BY <2>6, <5>1, ConstantsAssumption
      <4>3. HasPoint(a)
        BY <4>1, <4>2 DEF KeptOK, PointKeptWhileRoom
      <4>4. a \in Entries(rollback_points')
        BY <3>1, <4>3 DEF HasPoint, Entries
      <4>5. QED
        BY <4>4 DEF HasPoint, Entries
    <3>4. QED
      BY <3>2, <3>3
  <2>7. \A a \in Actions : status'[a] = "absent" => ~rollback_point_id'[a]
    BY <2>1 DEF KeptOK
  <2>8. PointKeptWhileRoom'
    BY <2>6 DEF PointKeptWhileRoom
  <2>9. QED
    BY <2>3, <2>5, <2>7, <2>8 DEF KeptOK, Entries
<1>6. ASSUME NEW r \in Requests, CommandEnds(r)
      PROVE  KeptOK'
  <2>1. Stored(target[r])
    BY <1>6 DEF CommandEnds, ApprovalOK
  <2>2. QED
    BY <1>1, <1>6, <2>1 DEF CommandEnds, Stored
<1>7. CASE Restart
  <2>1. Entries(rollback_points') = {}
    BY <1>7 DEF Restart, Entries
  <2>2. Executed' = Executed
    BY <1>7 DEF Restart, Executed
  <2>3. \A a \in Actions : ~Stored(a)'
    BY <1>7 DEF Restart, Stored
  <2>4. \A a \in Actions : status'[a] = "absent" => ~rollback_point_id'[a]
    BY <1>7 DEF Restart, Stored, KeptOK
  <2>5. QED
    BY <2>1, <2>2, <2>3, <2>4 DEF KeptOK, PointKeptWhileRoom, Entries
<1>8. CASE UNCHANGED vars
  BY <1>1, <1>8 DEF vars, store, Stored
<1>9. QED
  BY <1>2, <1>3, <1>4, <1>5, <1>6, <1>7, <1>8 DEF Next

(* No rollback point is lost while at most MaxPoints actions were executed.   *)
THEOREM PointsAreKept == Spec => []PointKeptWhileRoom
<1>1. IInv /\ KeptOK /\ [Next]_vars => KeptOK'
  BY NextKeptOK DEF IInv
<1>2. KeptOK => PointKeptWhileRoom
  BY DEF KeptOK
<1>3. QED
  BY InvariantIInv, InitKeptOK, <1>1, <1>2, PTL DEF Spec

-----------------------------------------------------------------------------
(* The action engine implements ActionLifecycle, for any number of actions  *)
(* and of racing execute requests: an action is first started when it is    *)
(* ready and never more often than there are requests.                      *)

(* An action that was not started can be neither rolled back nor running, and *)
(* the action a request waits to start is still ready or was started before.  *)
ReadyOK ==
    /\ \A a \in Actions : status[a] \in {"absent", "pending_approval", "approved"} =>
         applied[a] = 0 /\ ~rollback_point_id[a] /\ ~Running(a)
    /\ \A a \in Actions : rollback_point_id[a] => applied[a] > 0
    /\ \A r \in Requests :
         /\ pc[r] = "permission" => status[target[r]] = "approved" \/ applied[target[r]] > 0
         /\ pc[r] = "running" => applied[target[r]] > 0

phase == [a \in Actions |-> PhaseOf(a)]

LEMMA InitReadyOK == Init => ReadyOK /\ Lifecycle!Init
BY DEF Init, ReadyOK, Running, PhaseOf, Lifecycle!Init

LEMMA NextReadyOK ==
    ASSUME IInv, ReadyOK, [Next]_vars
    PROVE  ReadyOK'
<1> USE DEF IInv, TypeOK, ActionStatus
<1>1. ASSUME NEW a \in Actions, DryRun(a)
      PROVE  ReadyOK'
  <2>1. /\ status[a] = "absent"
        /\ \E s \in ActionStatus : status' = [status EXCEPT ![a] = s]
    BY <1>1 DEF DryRun
  <2>2. UNCHANGED <<applied, rollback_point_id, pc, target>>
    BY <1>1 DEF DryRun
  <2>3. \A b \in Actions : Running(b)' <=> Running(b)
    BY <2>2 DEF Running
  <2>4. \A r \in Requests : pc[r] = "permission" => target[r] # a /\ target[r] \in Actions
    BY <2>1 DEF ReadyOK
  <2>5. QED
    BY <2>1, <2>2, <2>3, <2>4 DEF ReadyOK
<1>2. ASSUME NEW a \in Actions, Rollback(a)
      PROVE  ReadyOK'
  <2>1. /\ UNCHANGED <<applied, rollback_point_id, pc, target>>
        /\ rollback_point_id[a] /\ applied[a] > 0
    BY <1>2 DEF Rollback, ReadyOK
  <2>2. \A b \in Actions : Running(b)' <=> Running(b)
    BY <2>1 DEF Running
  <2>3. status' = [status EXCEPT ![a] = "rolled_back"]
    BY <1>2 DEF Rollback
  <2>4. QED
    BY <2>1, <2>2, <2>3 DEF ReadyOK
<1>3. ASSUME NEW r \in Requests, NEW a \in Actions, Execute(r, a)
      PROVE  ReadyOK'
  <2>1. \A b \in Actions : Running(b)' => Running(b)
    BY <1>3 DEF Execute, Running
  <2>2. QED
    BY <1>3, <2>1 DEF Execute, ReadyOK, store
<1>4. ASSUME NEW r \in Requests, PermissionDenied(r)
      PROVE  ReadyOK'
  <2>1. \A b \in Actions : Running(b)' => Running(b)
    BY <1>4 DEF PermissionDenied, Running
  <2>2. QED
    BY <1>4, <2>1 DEF PermissionDenied, ReadyOK, store
<1>5. ASSUME NEW r \in Requests, PermissionGranted(r)
      PROVE  ReadyOK'
  <2>1. target[r] \in Actions /\ status' = [status EXCEPT ![target[r]] = "executing"]
        /\ applied' = [applied EXCEPT ![target[r]] = @ + 1]
        /\ rollback_point_id' = [rollback_point_id EXCEPT ![target[r]] = TRUE]
        /\ pc' = [pc EXCEPT ![r] = "running"] /\ target' = target
    BY <1>5 DEF PermissionGranted
  <2>2. \A b \in Actions : b # target[r] => (Running(b)' => Running(b))
    BY <2>1 DEF Running
  <2>3. applied'[target[r]] > 0 /\ \A b \in Actions \ {target[r]} : applied'[b] = applied[b]
    BY <2>1
  <2>4. QED
    BY <2>1, <2>2, <2>3 DEF ReadyOK
<1>6. ASSUME NEW r \in Requests, CommandEnds(r)
      PROVE  ReadyOK'
  <2>1. \A b \in Actions : Running(b)' => Running(b)
    BY <1>6 DEF CommandEnds, Running
  <2>2. target[r] \in Actions /\ applied[target[r]] > 0
    BY <1>6 DEF CommandEnds, ReadyOK
  <2>3. QED
    BY <1>6, <2>1, <2>2 DEF CommandEnds, ReadyOK
<1>7. CASE Restart
  BY <1>7 DEF Restart, ReadyOK, Running, Stored
<1>8. CASE UNCHANGED <<status, rollback_point_id, pc, target, applied>>
  BY <1>8 DEF ReadyOK, Running
<1>9. QED
  BY <1>1, <1>2, <1>3, <1>4, <1>5, <1>6, <1>7, <1>8 DEF Next, vars, store

-----------------------------------------------------------------------------
LEMMA NextRefines ==
    ASSUME IInv, ReadyOK, BoundOK, [Next]_vars, TypeOK'
    PROVE  [Lifecycle!Next]_(Lifecycle!vars)
<1> USE DEF IInv, TypeOK, ActionStatus
<1>1. ASSUME phase' = phase, applied' = applied
      PROVE  [Lifecycle!Next]_(Lifecycle!vars)
  BY <1>1 DEF Lifecycle!vars, phase
<1>2. ASSUME NEW a \in Actions, DryRun(a)
      PROVE  [Lifecycle!Next]_(Lifecycle!vars)
  <2>1. PICK s \in {"pending_approval", "approved"} : status' = [status EXCEPT ![a] = s]
    BY <1>2 DEF DryRun
  <2>2. status[a] = "absent" /\ UNCHANGED <<pc, target, applied>>
    BY <1>2 DEF DryRun
  <2>3. \A b \in Actions : Running(b)' <=> Running(b)
    BY <2>2 DEF Running
  <2>4. PhaseOf(a) = "absent" /\ PhaseOf(a)' \in {"waiting", "ready"}
    BY <2>1, <2>2, <2>3 DEF PhaseOf, ReadyOK
  <2>5. \A b \in Actions \ {a} : PhaseOf(b)' = PhaseOf(b)
    BY <2>1, <2>3 DEF PhaseOf
  <2>6. phase' = [phase EXCEPT ![a] = PhaseOf(a)']
    BY <2>5 DEF phase
  <2>7. Lifecycle!Register(a)
    BY <2>2, <2>4, <2>6 DEF Lifecycle!Register, phase
  <2>8. QED
    BY <2>7 DEF Lifecycle!Next
<1>3. ASSUME NEW a \in Actions, Rollback(a)
      PROVE  [Lifecycle!Next]_(Lifecycle!vars)
  <2>1. /\ status[a] \notin {"absent", "lost", "pending_approval", "approved"}
        /\ status' = [status EXCEPT ![a] = "rolled_back"]
        /\ UNCHANGED <<pc, target, applied>>
    BY <1>3 DEF Rollback, Stored, ReadyOK
  <2>2. \A b \in Actions : Running(b)' <=> Running(b)
    BY <2>1 DEF Running
  <2>3. \A b \in Actions : PhaseOf(b)' = PhaseOf(b)
    BY <2>1, <2>2 DEF PhaseOf
  <2>4. QED
    BY <1>1, <2>1, <2>3 DEF phase
<1>4. ASSUME NEW r \in Requests,
             PermissionDenied(r) \/ \E a \in Actions : Execute(r, a)
      PROVE  [Lifecycle!Next]_(Lifecycle!vars)
  <2>1. \A b \in Actions : Running(b)' <=> Running(b)
    <3>1. \A q \in Requests : /\ pc'[q] = "running" <=> pc[q] = "running"
                              /\ pc[q] = "running" => target'[q] = target[q]
      BY <1>4 DEF Execute, PermissionDenied
    <3>2. QED
      BY <3>1 DEF Running
  <2>2. status' = status /\ applied' = applied
    BY <1>4 DEF Execute, PermissionDenied, store
  <2>3. \A b \in Actions : PhaseOf(b)' = PhaseOf(b)
    BY <2>1, <2>2 DEF PhaseOf
  <2>4. QED
    BY <1>1, <2>2, <2>3 DEF phase
<1>5. ASSUME NEW r \in Requests, PermissionGranted(r)
      PROVE  [Lifecycle!Next]_(Lifecycle!vars)
  <2>0. PICK a \in Actions : a = target[r]
    BY <1>5 DEF PermissionGranted
  <2>1. /\ status' = [status EXCEPT ![a] = "executing"]
        /\ applied' = [applied EXCEPT ![a] = @ + 1]
        /\ pc' = [pc EXCEPT ![r] = "running"] /\ target' = target
    BY <1>5, <2>0 DEF PermissionGranted
  <2>2. Running(a)' /\ \A b \in Actions \ {a} : Running(b)' <=> Running(b)
    BY <1>5, <2>0, <2>1 DEF Running, PermissionGranted
  <2>3. PhaseOf(a)' = "running"
    BY <2>2 DEF PhaseOf
  <2>4. \A b \in Actions \ {a} : PhaseOf(b)' = PhaseOf(b)
    BY <2>1, <2>2 DEF PhaseOf
  <2>5. phase' = [phase EXCEPT ![a] = "running"]
    BY <2>3, <2>4 DEF phase
  <2>6. PhaseOf(a) = "ready" \/ (PhaseOf(a) \in {"running", "over"} /\ applied[a] > 0)
    <3>1. Stored(a) /\ ~requires_approval[a] /\ (status[a] = "approved" \/ applied[a] > 0)
      BY <1>5, <2>0 DEF PermissionGranted, ApprovalOK, ReadyOK
    <3>2. status[a] # "pending_approval"
      BY <3>1 DEF ReadyOK
    <3>3. status[a] = "approved" => ~Running(a)
      BY DEF ReadyOK
    <3>4. QED
      BY <3>1, <3>2, <3>3 DEF PhaseOf, Stored
  <2>7. applied[a] < Cardinality(Requests)
    <3>1. r \in Waiting(a) /\ IsFiniteSet(Waiting(a))
      BY <1>5, <2>0, WaitingFinite DEF Waiting, PermissionGranted
    <3>2. Cardinality(Waiting(a)) \in Nat /\ Cardinality(Waiting(a)) # 0
      BY <3>1, FS_CardinalityType, FS_EmptySet
    <3>3. applied[a] \in Nat /\ Cardinality(Requests) \in Nat
      BY WaitingFinite DEF Waiting
    <3>4. applied[a] + Cardinality(Waiting(a)) <= Cardinality(Requests)
      BY DEF BoundOK
    <3>5. QED
      BY <3>2, <3>3, <3>4
  <2>8. Lifecycle!Start(a)
    BY <2>1, <2>5, <2>6, <2>7 DEF Lifecycle!Start, phase
  <2>9. QED
    BY <2>8 DEF Lifecycle!Next
<1>6. ASSUME NEW r \in Requests, CommandEnds(r)
      PROVE  [Lifecycle!Next]_(Lifecycle!vars)
  <2>0. PICK a \in Actions : a = target[r]
    BY <1>6 DEF CommandEnds
  <2>1. /\ Running(a)
        /\ status' = [status EXCEPT ![a] = "completed"]
        /\ applied' = applied /\ pc' = [pc EXCEPT ![r] = "idle"]
        /\ target' = [target EXCEPT ![r] = NoAction]
    BY <1>6, <2>0 DEF CommandEnds, Running
  <2>2. \A b \in Actions \ {a} : Running(b)' <=> Running(b)
    BY <2>0, <2>1 DEF Running
  <2>3. \A b \in Actions \ {a} : PhaseOf(b)' = PhaseOf(b)
    BY <2>1, <2>2 DEF PhaseOf
  <2>4. PhaseOf(a) = "running"
    BY <2>1 DEF PhaseOf
  <2>5. CASE Running(a)'
    <3>1. \A b \in Actions : PhaseOf(b)' = PhaseOf(b)
      BY <2>3, <2>4, <2>5 DEF PhaseOf
    <3>2. QED
      BY <1>1, <2>1, <3>1 DEF phase
  <2>6. CASE ~Running(a)'
    <3>1. PhaseOf(a)' = "over"
      BY <2>1, <2>6 DEF PhaseOf
    <3>2. phase' = [phase EXCEPT ![a] = "over"]
      BY <2>3, <3>1 DEF phase
    <3>3. Lifecycle!End(a)
      BY <2>1, <2>4, <3>2 DEF Lifecycle!End, phase
    <3>4. QED
      BY <3>3 DEF Lifecycle!Next
  <2>7. QED
    BY <2>5, <2>6
<1>7. CASE Restart
  <2>1. \A a \in Actions : status'[a] = IF status[a] = "absent" THEN "absent" ELSE "lost"
    BY <1>7 DEF Restart, Stored
  <2>2. \A a \in Actions : ~Running(a)'
    BY <1>7 DEF Restart, Running
  <2>3. \A a \in Actions : PhaseOf(a)' = IF PhaseOf(a) = "absent" THEN "absent" ELSE "lost"
    <3>1. \A a \in Actions : PhaseOf(a) = "absent" <=> status[a] = "absent"
      BY DEF PhaseOf, ReadyOK
    <3>2. \A a \in Actions : PhaseOf(a)' = IF status'[a] = "absent" THEN "absent" ELSE "lost"
      BY <2>1, <2>2 DEF PhaseOf
    <3>3. QED
      BY <2>1, <3>1, <3>2
  <2>4. phase' = [a \in Actions |-> IF PhaseOf(a) = "absent" THEN "absent" ELSE "lost"]
    BY <2>3 DEF phase
  <2>5. Lifecycle!Restart
    BY <1>7, <2>4 DEF Lifecycle!Restart, phase, Restart
  <2>6. QED
    BY <2>5 DEF Lifecycle!Next
<1>8. CASE UNCHANGED <<status, pc, target, applied>>
  <2>1. \A b \in Actions : PhaseOf(b)' = PhaseOf(b)
    BY <1>8 DEF PhaseOf, Running
  <2>2. QED
    BY <1>1, <1>8, <2>1 DEF phase
<1>9. QED
  BY <1>2, <1>3, <1>4, <1>5, <1>6, <1>7, <1>8 DEF Next, vars, store

(* Whatever execute requests, rollbacks and restarts interleave, every step   *)
(* of the engine is a step of the lifecycle or none.                          *)
THEOREM EngineImplementsLifecycle == Spec => ImplementsLifecycle
<1>1. IInv /\ ReadyOK /\ [Next]_vars => ReadyOK'
  BY NextReadyOK
<1>2. IInv /\ IInv' /\ ReadyOK /\ BoundOK /\ [Next]_vars => [Lifecycle!Next]_(Lifecycle!vars)
  BY NextRefines DEF IInv
<1>3. QED
  BY InitReadyOK, InvariantIInv, InvariantBoundOK, <1>1, <1>2, PTL
     DEF Spec, ImplementsLifecycle, Lifecycle!Spec

-----------------------------------------------------------------------------
(* The status check and the start are two steps of one request, and between   *)
(* them only another request makes a difference: a dry-run stores a new       *)
(* action, no approved action can be rolled back, and a restart ends the      *)
(* request.  So what README says of the execute endpoint holds when requests  *)
(* come one at a time, and a race of two is all that refutes it.              *)

OneAtATime == \A r, q \in Requests : r = q

StillApproved == \A r \in Requests : pc[r] = "permission" => status[target[r]] = "approved"

LEMMA NextStillApproved ==
    ASSUME OneAtATime, IInv, ReadyOK, StillApproved, [Next]_vars
    PROVE  StillApproved'
<1> USE DEF IInv, TypeOK, StillApproved
<1>1. ASSUME NEW a \in Actions, DryRun(a)
      PROVE  StillApproved'
  <2>1. \A r \in Requests : pc[r] = "permission" => target[r] # a
    BY <1>1 DEF DryRun
  <2>2. QED
    BY <1>1, <2>1 DEF DryRun
<1>2. ASSUME NEW a \in Actions, Rollback(a)
      PROVE  StillApproved'
  <2>1. \A r \in Requests : pc[r] = "permission" => target[r] # a
    BY <1>2 DEF Rollback, ReadyOK
  <2>2. QED
    BY <1>2, <2>1 DEF Rollback
<1>3. ASSUME NEW r \in Requests, NEW a \in Actions, Execute(r, a)
      PROVE  StillApproved'
  BY <1>3 DEF Execute, store
<1>4. ASSUME NEW r \in Requests,
             PermissionDenied(r) \/ PermissionGranted(r) \/ CommandEnds(r)
      PROVE  StillApproved'
  <2>1. pc'[r] # "permission"
    BY <1>4 DEF PermissionDenied, PermissionGranted, CommandEnds
  <2>2. QED
    BY <2>1 DEF OneAtATime
<1>5. CASE Restart
  BY <1>5 DEF Restart
<1>6. CASE UNCHANGED vars
  BY <1>6 DEF vars, store
<1>7. QED
  BY <1>1, <1>2, <1>3, <1>4, <1>5, <1>6 DEF Next

(* Handling one request at a time, the engine starts a command only for an    *)
(* action that is approved at that moment.                                    *)
THEOREM OneRequestExecutesApproved == ASSUME OneAtATime PROVE Spec => ExecutesApprovedOnly
<1>1. Init => StillApproved
  BY DEF Init, StillApproved
<1>2. IInv /\ ReadyOK /\ StillApproved /\ [Next]_vars => ReadyOK' /\ StillApproved'
  BY NextReadyOK, NextStillApproved
<1>3. ASSUME IInv, StillApproved, [Next]_vars,
             NEW a \in Actions, applied'[a] > applied[a]
      PROVE  status[a] = "approved"
  <2>1. applied' # applied /\ applied[a] \in Nat
    BY <1>3 DEF IInv, TypeOK
  <2>2. PICK r \in Requests : PermissionGranted(r)
    BY <1>3, <2>1 DEF Next, vars, store, DryRun, Rollback, Execute, PermissionDenied,
                      CommandEnds, Restart
  <2>3. applied' = [applied EXCEPT ![target[r]] = @ + 1] /\ pc[r] = "permission"
    BY <2>2 DEF PermissionGranted
  <2>4. a = target[r]
    BY <1>3, <2>1, <2>3 DEF IInv, TypeOK
  <2>5. QED
    BY <1>3, <2>3, <2>4 DEF StillApproved
<1>4. IInv /\ StillApproved /\ [Next]_vars =>
        [\A a \in Actions : applied'[a] > applied[a] => status[a] = "approved"]_vars
  BY <1>3
<1>5. QED
  BY InvariantIInv, InitReadyOK, <1>1, <1>2, <1>4, PTL DEF Spec, ExecutesApprovedOnly

-----------------------------------------------------------------------------
(* Nothing lets a waiting action go: the handlers that change the status of a *)
(* stored action need a rollback point or a request that started, and an      *)
(* action in pending_approval has neither.                                    *)

StillWaiting ==
    \A a \in Actions : status[a] = "pending_approval" => status'[a] \in {"pending_approval", "lost"}

LEMMA WaitingStep == ASSUME IInv, ReadyOK, [Next]_vars PROVE StillWaiting
<1> SUFFICES ASSUME NEW a \in Actions, status[a] = "pending_approval"
             PROVE  status'[a] \in {"pending_approval", "lost"}
  BY DEF StillWaiting
<1> USE DEF IInv, TypeOK, ReadyOK
<1>1. applied[a] = 0 /\ ~rollback_point_id[a]
  OBVIOUS
<1>2. ASSUME NEW b \in Actions, DryRun(b) \/ Rollback(b)
      PROVE  status'[a] = status[a]
  BY <1>1, <1>2 DEF DryRun, Rollback
<1>3. ASSUME NEW r \in Requests, PermissionGranted(r) \/ CommandEnds(r)
      PROVE  status'[a] = status[a]
  <2>1. pc[r] \in {"permission", "running"}
    BY <1>3 DEF PermissionGranted, CommandEnds
  <2>2. status[target[r]] = "approved" \/ applied[target[r]] > 0
    BY <2>1
  <2>3. target[r] # a
    BY <1>1, <2>2
  <2>4. QED
    BY <1>3, <2>3 DEF PermissionGranted, CommandEnds
<1>4. ASSUME NEW r \in Requests, PermissionDenied(r) \/ \E b \in Actions : Execute(r, b)
      PROVE  status'[a] = status[a]
  BY <1>4 DEF PermissionDenied, Execute, store
<1>5. CASE Restart
  BY <1>5 DEF Restart, Stored, ActionStatus
<1>6. CASE UNCHANGED vars
  BY <1>6 DEF vars, store
<1>7. QED
  BY <1>2, <1>3, <1>4, <1>5, <1>6 DEF Next

(* An action that waits for an approval waits until a restart loses it.       *)
THEOREM WaitingIsNeverReleased == Spec => [][StillWaiting]_vars
<1>1. IInv /\ ReadyOK /\ [Next]_vars => ReadyOK'
  BY NextReadyOK
<1>2. IInv /\ ReadyOK /\ [Next]_vars => [StillWaiting]_vars
  BY WaitingStep
<1>3. QED
  BY InvariantIInv, InitReadyOK, <1>1, <1>2, PTL DEF Spec

-----------------------------------------------------------------------------
(* The two engines together: the answers of the policy engine leave fewer     *)
(* steps to the action engine and add none, and neither engine writes what is *)
(* the other's.  What is proved of each alone holds of the system.            *)

LEMMA SystemStep ==
    ASSUME [SystemNext]_allVars
    PROVE  [Next]_vars /\ [Policy!Next]_(Policy!vars)
<1>1. CASE EngineStep
  <2>1. Next
    BY <1>1 DEF EngineStep, Next
  <2>2. UNCHANGED Policy!vars
    BY <1>1 DEF EngineStep, policyVars, Policy!vars, Policy!request
  <2>3. QED
    BY <2>1, <2>2
<1>2. CASE PolicyStep
  BY <1>2 DEF PolicyStep, Policy!Next
<1>3. CASE PolicyStops
  BY <1>3 DEF PolicyStops, Policy!Next
<1>4. CASE PolicyStarts
  BY <1>4 DEF PolicyStarts, policyVars, Policy!vars, Policy!request
<1>5. CASE UNCHANGED allVars
  BY <1>5 DEF allVars, policyVars, Policy!vars, Policy!request
<1>6. QED
  BY <1>1, <1>2, <1>3, <1>4, <1>5 DEF SystemNext

(* The composed system implements the action engine and the policy engine.    *)
THEOREM SystemImplementsBoth == SystemSpec => Spec /\ Policy!Spec
<1>1. SystemInit => Init /\ Policy!Init
  BY DEF SystemInit
<1>2. [SystemNext]_allVars => [Next]_vars /\ [Policy!Next]_(Policy!vars)
  BY SystemStep
<1>3. QED
  BY <1>1, <1>2, PTL DEF SystemSpec, Spec, Policy!Spec

(* With both engines as they are, an approval changes nothing for the action  *)
(* it is about, and no command is ever started: the permission request is     *)
(* refused whatever was decided.                                              *)
THEOREM SystemNeverStarts ==
    SystemSpec => [](\A a \in Actions : applied[a] = 0) /\ [][StillWaiting]_vars
<1> DEFINE I == \A a \in Actions : applied[a] = 0
<1>1. SystemInit => I
  BY DEF SystemInit, Init
<1>2. ~MayExecute
  BY DEF MayExecute, QueryOfHandler, QueryOfCaller
<1>3. [SystemNext]_allVars => UNCHANGED applied
  BY <1>2 DEF SystemNext, EngineStep, PolicyStep, PolicyStops, PolicyStarts, allVars, vars,
              DryRun, Rollback, Execute, PermissionDenied, CommandEnds, Restart
<1>4. I /\ [SystemNext]_allVars => I'
  BY <1>3
<1>5. QED
  BY <1>1, <1>4, SystemImplementsBoth, WaitingIsNeverReleased, PTL DEF SystemSpec
=============================================================================
