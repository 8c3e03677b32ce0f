-------------------------- MODULE ApprovalWorkflow --------------------------
(***************************************************************************)
(* The approvals of conversations (ApprovalWorkflow in services/ai-router/  *)
(* approval_workflow.py): each is one Redis key with a time to live.  Every *)
(* operation is a GET, a decision in Python and a SETEX, three steps that   *)
(* those of other handlers come between, of this process or another one.    *)
(* Who decided is left out: the endpoints store the text of the action as   *)
(* approver_id.  So is the index of a conversation's approvals, which only  *)
(* grows.                                                                   *)
(***************************************************************************)
CONSTANTS
    Approvals,      \* approval identifiers (uuid4, never reused)
    NoApproval,     \* what an idle handler works on
    Handlers,       \* activations of the operations
    Operations      \* which of approve, reject, cancel and cleanup are called:
                    \* the endpoints call approve and reject; cancel and
                    \* cleanup_expired are offered and nothing calls them

ASSUME ConstantsAssumption ==
    /\ NoApproval \notin Approvals
    /\ Operations \subseteq {"approve", "reject", "cancel", "cleanup"}

VARIABLES
    status,     \* the status under the key of each approval, or "absent"
    clock,      \* expires_at: "none", "open", "closing" (less than a second), "past"
    pc,         \* where each handler is suspended
    request,    \* its operation and approval
    verdict,    \* the status the handler has read or decided
    answered    \* the statuses that deciding handlers answered (history)

handlers == <<pc, request, verdict>>
vars     == <<status, clock, handlers, answered>>

ApprovalStatus == {"PENDING", "APPROVED", "REJECTED", "EXPIRED"}
Idle           == [op |-> "none", approval |-> NoApproval]
Calls          == [op : Operations, approval : Approvals]

TypeOK ==
    /\ status \in [Approvals -> ApprovalStatus \cup {"absent"}]
    /\ clock \in [Approvals -> {"none", "open", "closing", "past"}]
    /\ pc \in [Handlers -> {"idle", "decide", "write"}]
    /\ request \in [Handlers -> Calls \cup {Idle}]
    /\ \A h \in Handlers : pc[h] # "idle" => request[h] \in Calls
    /\ verdict \in [Handlers -> ApprovalStatus]
    /\ answered \in [Approvals -> SUBSET ApprovalStatus]

Init ==
    /\ status = [a \in Approvals |-> "absent"]
    /\ clock = [a \in Approvals |-> "none"]
    /\ pc = [h \in Handlers |-> "idle"]
    /\ request = [h \in Handlers |-> Idle]
    /\ verdict = [h \in Handlers |-> "PENDING"]
    /\ answered = [a \in Approvals |-> {}]

-----------------------------------------------------------------------------
(* create_approval *)
Create(a) ==
    /\ clock[a] = "none"
    /\ clock' = [clock EXCEPT ![a] = "open"]
    /\ status' = [status EXCEPT ![a] = "PENDING"]
    /\ UNCHANGED <<handlers, answered>>

(* Mutant: reject does not look at the status. *)
MayReadAlways(op, a) ==
    op \in {"approve", "cleanup"} => status[a] = "PENDING"

(* When an operation goes on after it has read the key: all but cancel look   *)
(* at the status.  (cancel is refused to all but the requester: those who     *)
(* are refused change nothing.)                                               *)
MayRead(op, a) ==
    op # "cancel" => status[a] = "PENDING"

(* The GET of an operation.  Nothing happens if the key is absent.            *)
Get(h, op, a) ==
    /\ pc[h] = "idle"
    /\ status[a] # "absent"
    /\ MayRead(op, a)
    /\ pc' = [pc EXCEPT ![h] = "decide"]
    /\ request' = [request EXCEPT ![h] = [op |-> op, approval |-> a]]
    /\ verdict' = [verdict EXCEPT ![h] = status[a]]
    /\ UNCHANGED <<status, clock, answered>>

(* Mutant: reject keeps its reason and leaves the status as it has read it. *)
DecisionUnmarked(h) ==
    CASE request[h].op = "approve" /\ clock[request[h].approval] # "past" -> "APPROVED"
      [] request[h].op = "reject" -> verdict[h]
      [] OTHER                    -> "EXPIRED"

(* Mutant: a status that conversations have and approvals do not. *)
DecisionCancelled(h) ==
    CASE request[h].op = "approve" /\ clock[request[h].approval] # "past" -> "APPROVED"
      [] request[h].op = "reject" -> "REJECTED"
      [] OTHER                    -> "CANCELLED"

(* What the operation makes of what it has read.  Only approve looks at the   *)
(* time.                                                                      *)
Decision(h) ==
    CASE request[h].op = "approve" /\ clock[request[h].approval] # "past" -> "APPROVED"
      [] request[h].op = "reject" -> "REJECTED"
      [] OTHER                    -> "EXPIRED"

(* Mutant: an operation that decides in time does not write. *)
WritesLate(h) ==
    IF request[h].op = "cleanup"
      THEN clock[request[h].approval] = "past"
      ELSE clock[request[h].approval] = "closing"

(* _update_approval writes when at least one whole second remains; the        *)
(* cleanup writes what has expired, with another time to live.                *)
Writes(h) ==
    IF request[h].op = "cleanup"
      THEN clock[request[h].approval] = "past"
      ELSE clock[request[h].approval] = "open"

Answer(h, value) ==
    LET a == request[h].approval IN
    /\ pc' = [pc EXCEPT ![h] = "idle"]
    /\ request' = [request EXCEPT ![h] = Idle]
    /\ verdict' = [verdict EXCEPT ![h] = "PENDING"]
    /\ answered' = [answered EXCEPT ![a] =
                      IF request[h].op = "cleanup" THEN @ ELSE @ \cup {value}]

(* The decision, from the answer of the GET to the SETEX or the return.       *)
Decide(h) ==
    /\ pc[h] = "decide"
    /\ \/ /\ Writes(h)
          /\ pc' = [pc EXCEPT ![h] = "write"]
          /\ verdict' = [verdict EXCEPT ![h] = Decision(h)]
          /\ UNCHANGED <<request, answered>>
       \/ ~Writes(h) /\ Answer(h, Decision(h))
    /\ UNCHANGED <<status, clock>>

(* The SETEX, whatever the key holds by now, and the answer.                  *)
Write(h) ==
    LET a == request[h].approval IN
    /\ pc[h] = "write"
    /\ status' = [status EXCEPT ![a] = verdict[h]]
    /\ Answer(h, verdict[h])
    /\ UNCHANGED clock

(* Redis cannot be reached, or the process stops: the handler ends where it is. *)
HandlerFails(h) ==
    /\ pc[h] # "idle"
    /\ pc' = [pc EXCEPT ![h] = "idle"]
    /\ request' = [request EXCEPT ![h] = Idle]
    /\ verdict' = [verdict EXCEPT ![h] = "PENDING"]
    /\ UNCHANGED <<status, clock, answered>>

(* Time passes: the last second begins, and it ends.                          *)
Tick(a) ==
    /\ \/ clock[a] = "open" /\ clock' = [clock EXCEPT ![a] = "closing"]
       \/ clock[a] = "closing" /\ clock' = [clock EXCEPT ![a] = "past"]
    /\ UNCHANGED <<status, handlers, answered>>

(* Mutant: a decision is stored without a time to live. *)
KeyExpiresUndecided(a) ==
    /\ clock[a] \in {"closing", "past"}
    /\ status[a] = "PENDING"
    /\ status' = [status EXCEPT ![a] = "absent"]
    /\ UNCHANGED <<clock, handlers, answered>>

(* The time to live of the key ends.  It was set to the whole seconds that    *)
(* remained, so not before the last second; a SETEX that was slow to arrive   *)
(* ends later.                                                                *)
KeyExpires(a) ==
    /\ clock[a] \in {"closing", "past"}
    /\ status[a] # "absent"
    /\ status' = [status EXCEPT ![a] = "absent"]
    /\ UNCHANGED <<clock, handlers, answered>>

Next ==
    \/ \E a \in Approvals : Create(a) \/ Tick(a) \/ KeyExpires(a)
    \/ \E h \in Handlers, op \in Operations, a \in Approvals : Get(h, op, a)
    \/ \E h \in Handlers : Decide(h) \/ Write(h) \/ HandlerFails(h)

(* Time passes, Redis removes what has expired, and a call of Redis answers   *)
(* or fails.                                                                  *)
Fairness ==
    /\ \A a \in Approvals : WF_vars(Tick(a)) /\ WF_vars(KeyExpires(a))
    /\ \A h \in Handlers : WF_vars(Decide(h) \/ Write(h) \/ HandlerFails(h))

Spec     == Init /\ [][Next]_vars
FairSpec == Spec /\ Fairness
-----------------------------------------------------------------------------
(* What holds. *)

(* A decided, cancelled or forgotten approval is never pending again: what a  *)
(* slow handler writes over a newer value, or under a key that has expired,   *)
(* is always a decision.                                                      *)
NeverReopened ==
    [][\A a \in Approvals :
         status[a] # "PENDING" /\ clock[a] # "none" => status'[a] # "PENDING"]_vars

(* Once a handler has answered a decision, and as long as more than a second  *)
(* of the approval is left, nobody reads it as pending, although answers and  *)
(* stored values of racing handlers may differ.  In the last second it may be *)
(* answered and not written.                                                  *)
AnsweredLeavesPending ==
    \A a \in Approvals :
        clock[a] = "open" /\ answered[a] # {} => status[a] # "PENDING"

(* Only a handler that had read the approval as pending before can overwrite  *)
(* a decision with another: once a decision is stored and no handler is under *)
(* way on the approval, it stands until it is cancelled or its key expires.   *)
UnderWay(a) == \E h \in Handlers : pc[h] # "idle" /\ request[h].approval = a

QuietDecisionStands ==
    \A a \in Approvals, s \in {"APPROVED", "REJECTED", "EXPIRED"} :
        [](status[a] = s /\ ~UnderWay(a) => [](status[a] \in {s, "EXPIRED", "absent"}))

(* After its time an approval leaves Redis for good: no handler that was slow *)
(* to write, and no cleanup, keeps it there.                                  *)
ExpiredIsForgotten ==
    \A a \in Approvals : clock[a] = "past" ~> [](status[a] = "absent")
=============================================================================
