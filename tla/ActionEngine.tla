---------------------------- MODULE ActionEngine ----------------------------
(***************************************************************************)
(* The action engine (services/action-engine): an in-memory store of        *)
(* actions, the handlers of main.py that dry-run, execute and roll them     *)
(* back, and the rollback points of rollback.py.                            *)
(*                                                                          *)
(* The service is one asyncio process.  A handler runs without interruption *)
(* up to an await that really suspends, so each handler is cut into one     *)
(* step per such await: the execute handler suspends on the HTTP call that  *)
(* asks the policy engine for permission and on the kubectl subprocess; the *)
(* other handlers touch the store only once.  The coroutines of rollback.py *)
(* and sandbox.py are awaited but never suspend.                            *)
(***************************************************************************)
EXTENDS Naturals, Sequences, FiniteSets

CONSTANTS
    Actions,            \* action identifiers (uuid4, never reused)
    NoAction,           \* what a request that is not being handled works on
    Requests,           \* handler activations of POST /actions/execute
    MaxPoints,          \* settings.max_rollback_points
    PolicyAnswers,      \* requires_approval in the answer to the policy check
    PermissionAnswers   \* allowed in the answer to the permission check

ASSUME ConstantsAssumption ==
    /\ NoAction \notin Actions
    /\ IsFiniteSet(Requests)
    /\ MaxPoints \in Nat \ {0}
    /\ PolicyAnswers \subseteq BOOLEAN
    /\ PermissionAnswers \subseteq BOOLEAN

VARIABLES
    status,             \* ActionResponse.status, or whether the action is stored at all
    requires_approval,  \* ActionResponse.requires_approval
    rollback_point_id,  \* whether ActionResponse.rollback_point_id is set
    rollback_points,    \* RollbackManager.rollback_points, oldest created_at first
    pc,                 \* where each execute request is suspended
    target,             \* the action each execute request works on
    applied             \* how many commands were started for each action (history)

store == <<status, requires_approval, rollback_point_id>>
vars  == <<store, rollback_points, pc, target, applied>>

(* "absent": not created yet.  "lost": it was in a store that a restart emptied. *)
ActionStatus == {"pending_approval", "approved", "executing", "completed",
                 "failed", "rolled_back"}
Stored(a)    == status[a] \in ActionStatus

TypeOK ==
    /\ status \in [Actions -> ActionStatus \cup {"absent", "lost"}]
    /\ requires_approval \in [Actions -> BOOLEAN]
    /\ rollback_point_id \in [Actions -> BOOLEAN]
    /\ rollback_points \in Seq(Actions)
    /\ pc \in [Requests -> {"idle", "permission", "running"}]
    /\ target \in [Requests -> Actions \cup {NoAction}]
    /\ \A r \in Requests : pc[r] # "idle" => target[r] \in Actions
    /\ applied \in [Actions -> Nat]

Init ==
    /\ status = [a \in Actions |-> "absent"]
    /\ requires_approval = [a \in Actions |-> FALSE]
    /\ rollback_point_id = [a \in Actions |-> FALSE]
    /\ rollback_points = <<>>
    /\ pc = [r \in Requests |-> "idle"]
    /\ target = [r \in Requests |-> NoAction]
    /\ applied = [a \in Actions |-> 0]

-----------------------------------------------------------------------------
(* Rollback points. *)

(* The points without the one of a (an action has at most one). *)
Without(points, a) ==
    LET k == CHOOSE i \in DOMAIN points : points[i] = a
    IN  IF \E i \in DOMAIN points : points[i] = a
          THEN [i \in 1..(Len(points) - 1) |-> points[IF i < k THEN i ELSE i + 1]]
          ELSE points

(* Mutant: one point too many is kept. *)
CleanupOffByOne(points) ==
    IF Len(points) <= MaxPoints + 1
      THEN points
      ELSE SubSeq(points, Len(points) - MaxPoints, Len(points))

(* _cleanup_old_rollback_points: drop the oldest points beyond the maximum. *)
Cleanup(points) ==
    IF Len(points) <= MaxPoints
      THEN points
      ELSE SubSeq(points, Len(points) - MaxPoints + 1, Len(points))

(* Mutant: a second point of an action does not replace the first. *)
CreatePointTwice(points, a) == Cleanup(Append(points, a))

(* create_rollback_point: the key is derived from the action, so a second    *)
(* point of the same action replaces the first one and is the newest.        *)
CreatePoint(points, a) == Cleanup(Append(Without(points, a), a))

-----------------------------------------------------------------------------
(* POST /actions/dry-run.  A policy engine that refuses ends the handler and *)
(* one that cannot be reached counts as an answer that requires approval; the *)
(* handler touches the store once, after both.  What the sandbox answers is   *)
(* kept with the action and decides nothing: a dry-run that failed is stored  *)
(* with the same status.                                                      *)
DryRun(a) ==
    /\ status[a] = "absent"
    /\ \E approval \in PolicyAnswers \cup {TRUE} :
         /\ status' = [status EXCEPT ![a] =
                         IF approval THEN "pending_approval" ELSE "approved"]
         /\ requires_approval' = [requires_approval EXCEPT ![a] = approval]
    /\ UNCHANGED <<rollback_point_id, rollback_points, pc, target, applied>>

(* Mutant: the status is not checked. *)
ExecuteUnchecked(r, a) ==
    /\ pc[r] = "idle"
    /\ Stored(a)
    /\ pc' = [pc EXCEPT ![r] = "permission"]
    /\ target' = [target EXCEPT ![r] = a]
    /\ UNCHANGED <<store, rollback_points, applied>>

(* Mutant: the request does not remember its action. *)
ExecuteForgets(r, a) ==
    /\ pc[r] = "idle"
    /\ status[a] = "approved"
    /\ pc' = [pc EXCEPT ![r] = "permission"]
    /\ UNCHANGED <<store, rollback_points, target, applied>>

(* POST /actions/execute up to the permission request: the status is read    *)
(* here, before the handler suspends.                                        *)
Execute(r, a) ==
    /\ pc[r] = "idle"
    /\ status[a] = "approved"
    /\ pc' = [pc EXCEPT ![r] = "permission"]
    /\ target' = [target EXCEPT ![r] = a]
    /\ UNCHANGED <<store, rollback_points, applied>>

(* The permission is refused, or the policy engine cannot be asked. *)
PermissionDenied(r) ==
    /\ pc[r] = "permission"
    /\ pc' = [pc EXCEPT ![r] = "idle"]
    /\ target' = [target EXCEPT ![r] = NoAction]
    /\ UNCHANGED <<store, rollback_points, applied>>

(* The permission is granted: the handler marks the action, creates the      *)
(* rollback point and starts the command.                                    *)
PermissionGranted(r) ==
    LET a == target[r] IN
    /\ pc[r] = "permission"
    /\ TRUE \in PermissionAnswers
    /\ pc' = [pc EXCEPT ![r] = "running"]
    /\ status' = [status EXCEPT ![a] = "executing"]
    /\ rollback_point_id' = [rollback_point_id EXCEPT ![a] = TRUE]
    /\ rollback_points' = CreatePoint(rollback_points, a)
    /\ applied' = [applied EXCEPT ![a] = @ + 1]
    /\ UNCHANGED <<requires_approval, target>>

(* Mutant: a failed command leaves the handler before the status is set. *)
CommandEndsEarly(r) ==
    LET a == target[r] IN
    /\ pc[r] = "running"
    /\ pc' = [pc EXCEPT ![r] = "idle"]
    /\ target' = [target EXCEPT ![r] = NoAction]
    /\ status' \in {status, [status EXCEPT ![a] = "completed"]}
    /\ UNCHANGED <<requires_approval, rollback_point_id, rollback_points, applied>>

(* Mutant: a failed command is tried again. *)
CommandEndsRetried(r) ==
    LET a == target[r] IN
    /\ pc[r] = "running"
    /\ \/ /\ pc' = [pc EXCEPT ![r] = "idle"]
          /\ target' = [target EXCEPT ![r] = NoAction]
       \/ /\ pc' = [pc EXCEPT ![r] = "permission"]
          /\ UNCHANGED target
    /\ status' = [status EXCEPT ![a] = "completed"]
    /\ UNCHANGED <<requires_approval, rollback_point_id, rollback_points, applied>>

(* The command ends, if it does: the executor waits for it without a timeout *)
(* (settings.action_timeout_seconds is not used), so nothing says that this   *)
(* step is ever taken.  ActionExecutor.execute turns a non-zero exit code and *)
(* every exception into a result with success = False, which the handler      *)
(* stores and does not look at: a failed command completes its action too,    *)
(* and the failed status is never taken.                                      *)
CommandEnds(r) ==
    LET a == target[r] IN
    /\ pc[r] = "running"
    /\ pc' = [pc EXCEPT ![r] = "idle"]
    /\ target' = [target EXCEPT ![r] = NoAction]
    /\ status' = [status EXCEPT ![a] = "completed"]
    /\ UNCHANGED <<requires_approval, rollback_point_id, rollback_points, applied>>

(* POST /actions/{id}/rollback: the status is set whatever the rollback      *)
(* manager answers.                                                          *)
Rollback(a) ==
    /\ Stored(a)
    /\ rollback_point_id[a]
    /\ status' = [status EXCEPT ![a] = "rolled_back"]
    /\ UNCHANGED <<requires_approval, rollback_point_id, rollback_points,
                   pc, target, applied>>

(* The process restarts: the stores are dictionaries of the process, and the *)
(* requests in progress die with it.                                         *)
Restart ==
    /\ status' = [a \in Actions |-> IF Stored(a) THEN "lost" ELSE status[a]]
    /\ rollback_points' = <<>>
    /\ pc' = [r \in Requests |-> "idle"]
    /\ target' = [r \in Requests |-> NoAction]
    /\ UNCHANGED <<requires_approval, rollback_point_id, applied>>

Next ==
    \/ \E a \in Actions : DryRun(a) \/ Rollback(a)
    \/ \E r \in Requests, a \in Actions : Execute(r, a)
    \/ \E r \in Requests : PermissionDenied(r) \/ PermissionGranted(r) \/ CommandEnds(r)
    \/ Restart

Spec == Init /\ [][Next]_vars
-----------------------------------------------------------------------------
(* What holds. *)

Running(a) == \E r \in Requests : pc[r] = "running" /\ target[r] = a
Executed   == {a \in Actions : applied[a] > 0}
HasPoint(a) == \E i \in DOMAIN rollback_points : rollback_points[i] = a

(* An action that needs an approval is never executed: nothing in the engine *)
(* turns pending_approval into approved, whatever the handlers interleave.   *)
PendingNeverExecuted == \A a \in Actions : requires_approval[a] => applied[a] = 0

(* No action is left in executing without a handler whose command still runs *)
(* and that takes it out when the command ends, even when two handlers        *)
(* execute it at once and a rollback runs between them.                       *)
ExecutingHasRunner == \A a \in Actions : status[a] = "executing" => Running(a)

(* The points never exceed the maximum, and two executions of one action     *)
(* share one point.                                                          *)
RollbackPointsBounded ==
    /\ Len(rollback_points) <= MaxPoints
    /\ \A i, j \in DOMAIN rollback_points :
         rollback_points[i] = rollback_points[j] => i = j

(* While no more than MaxPoints actions have been executed, every action that *)
(* carries a rollback_point_id really has its point: re-executing an action   *)
(* does not push out the point of another.                                    *)
PointKeptWhileRoom ==
    Cardinality(Executed) <= MaxPoints =>
        \A a \in Actions : Stored(a) /\ rollback_point_id[a] => HasPoint(a)

(* Where an action is in its life, as ActionLifecycle sees it. *)
PhaseOf(a) ==
    IF Running(a) THEN "running"
    ELSE CASE status[a] = "pending_approval" -> "waiting"
           [] status[a] = "approved"         -> "ready"
           [] status[a] \in {"absent", "lost"} -> status[a]
           [] OTHER                          -> "over"

(* The status check bounds the damage of the race: an action that waits for   *)
(* an approval is never started, the first start finds it ready, it starts at *)
(* most once for each request, and what a restart lost never runs again.      *)
(* With one request at a time a command is started at most once.              *)
Lifecycle == INSTANCE ActionLifecycle WITH
    phase   <- [a \in Actions |-> PhaseOf(a)],
    runs    <- applied,
    MaxRuns <- Cardinality(Requests)
ImplementsLifecycle == Lifecycle!Spec

-----------------------------------------------------------------------------
(* What the repository says and the code does not do. *)

(* README "Execute approved action": a command starts for an approved action. *)
ExecutesApprovedOnly ==
    [][\A a \in Actions : applied'[a] > applied[a] => status[a] = "approved"]_vars
=============================================================================
