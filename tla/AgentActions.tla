---------------------------- MODULE AgentActions ----------------------------
(***************************************************************************)
(* The agent service (services/agent-service/app): POST /agents/execute    *)
(* runs an agent for a request, the action agent parks the action until    *)
(* somebody approves or rejects it, and every outcome is broadcast to the  *)
(* WebSocket clients.  Three stores hold an action: _task_store and        *)
(* _approval_store of main.py and _pending_actions of the agent.  All are  *)
(* dictionaries of one process, and the image starts several (uvicorn      *)
(* --workers): a call about an action that reaches another process answers *)
(* 404 and changes nothing.  Handlers without an await that suspends are   *)
(* one step; a broadcast suspends at every send.                           *)
(***************************************************************************)
EXTENDS Lists

CONSTANTS
    Requests,       \* calls of POST /agents/execute; one identifier stands for
                    \* the task, the action and the approval made for it
    Sockets,        \* WebSocket connections, each opened once
    Processes,      \* processes of the service
    MaxRestarts     \* bound: restarts of processes

ASSUME ConstantsAssumption ==
    /\ IsFiniteSet(Requests) /\ IsFiniteSet(Sockets)
    /\ Processes # {}
    /\ MaxRestarts \in Nat

VARIABLES
    task,           \* status in _task_store; "new": not made yet, "lost": made
                    \* before a restart, no store knows it
    approval,       \* status in _approval_store
    home,           \* process that serves the request and keeps its records
    pending,        \* _pending_actions of the agent of each process
    performed,      \* how often each action was carried out
    connections,    \* _active_connections of each process
    socket,         \* what the client did with each connection
    cast,           \* the broadcasts: where the loop stands, sends that failed
    received,       \* how often each client got each update
    audience,       \* connections of its process each broadcast has to reach
                    \* (history)
    restarts        \* restarts so far

stores  == <<task, approval, home, pending, performed>>
channel == <<connections, socket, cast, received, audience>>
vars    == <<stores, channel, restarts>>

(* A request is broadcast when it was executed, and when it was decided. *)
Casts == Requests \X {"executed", "decided"}

StoresTypeOK ==
    /\ task \in [Requests -> {"new", "executing", "awaiting_approval",
                              "completed", "failed", "rejected", "lost"}]
    /\ approval \in [Requests -> {"none", "pending", "approved", "rejected"}]
    /\ home \in [Requests -> Processes]
    /\ pending \in [Processes -> SUBSET Requests]
    /\ performed \in [Requests -> Nat]

ChannelTypeOK ==
    /\ connections \in [Processes -> Seq(Sockets)]
    /\ socket \in [Sockets -> {"new", "open", "closed"}]
    /\ cast \in [Casts -> [state : {"none", "queued", "sending", "ended"},
                           at : Nat \ {0}, failed : SUBSET Sockets]]
    /\ received \in [Sockets -> [Casts -> Nat]]
    /\ audience \in [Casts -> SUBSET Sockets]

TypeOK == StoresTypeOK /\ ChannelTypeOK /\ restarts \in 0..MaxRestarts

NoCast == [state |-> "none", at |-> 1, failed |-> {}]

Init ==
    /\ task = [r \in Requests |-> "new"]
    /\ approval = [r \in Requests |-> "none"]
    /\ home \in [Requests -> Processes]
    /\ pending = [p \in Processes |-> {}]
    /\ performed = [r \in Requests |-> 0]
    /\ connections = [p \in Processes |-> <<>>]
    /\ socket = [s \in Sockets |-> "new"]
    /\ cast = [b \in Casts |-> NoCast]
    /\ received = [s \in Sockets |-> [b \in Casts |-> 0]]
    /\ audience = [b \in Casts |-> {}]
    /\ restarts = 0

-----------------------------------------------------------------------------
(* Requests.                                                                  *)

SetTask(r, status) == task' = [task EXCEPT ![r] = status]

(* background_tasks.add_task: the broadcast runs after the response. *)
Announce(r, update) == cast' = [cast EXCEPT ![<<r, update>>].state = "queued"]

NoCastChange == UNCHANGED <<connections, socket, received, audience, restarts>>

(* A query or an analysis: the handler waits for tools with the task in the   *)
(* store.                                                                     *)
StartReading(r) ==
    /\ task[r] = "new"
    /\ SetTask(r, "executing")
    /\ UNCHANGED <<approval, home, pending, performed, channel, restarts>>

(* The agent answers, or raises: then nothing is broadcast. *)
FinishReading(r) ==
    /\ task[r] = "executing"
    /\ \/ \E status \in {"completed", "failed"} :
             SetTask(r, status) /\ Announce(r, "executed")
       \/ SetTask(r, "failed") /\ UNCHANGED cast
    /\ NoCastChange
    /\ UNCHANGED <<approval, home, pending, performed>>

(* A plan is made, or the planning agent raises. *)
Plan(r) ==
    /\ task[r] = "new"
    /\ \/ SetTask(r, "completed") /\ Announce(r, "executed")
       \/ SetTask(r, "failed") /\ UNCHANGED cast
    /\ NoCastChange
    /\ UNCHANGED <<approval, home, pending, performed>>

(* An action that is blocked or malformed raises; one whose dry-run has       *)
(* errors fails.                                                              *)
Refuse(r) ==
    /\ task[r] = "new"
    /\ SetTask(r, "failed")
    /\ Announce(r, "executed") \/ UNCHANGED cast
    /\ NoCastChange
    /\ UNCHANGED <<approval, home, pending, performed>>

(* An action whose dry-run passes waits for a decision. *)
Propose(r) ==
    /\ task[r] = "new"
    /\ SetTask(r, "awaiting_approval")
    /\ approval' = [approval EXCEPT ![r] = "pending"]
    /\ pending' = [pending EXCEPT ![home[r]] = @ \cup {r}]
    /\ Announce(r, "executed")
    /\ NoCastChange
    /\ UNCHANGED <<home, performed>>

-----------------------------------------------------------------------------
(* Decisions.                                                                 *)

(* Mutant: the action leaves _pending_actions only if it is approved. *)
SettleApproved(r, decision, status) ==
    /\ approval' = [approval EXCEPT ![r] = decision]
    /\ pending' = IF decision = "approved"
                  THEN [pending EXCEPT ![home[r]] = @ \ {r}] ELSE pending
    /\ SetTask(r, status)
    /\ Announce(r, "decided")
    /\ NoCastChange
    /\ UNCHANGED home

(* The end of both handlers: the agent forgets the action, the approval and   *)
(* the task get their new status.                                             *)
Settle(r, decision, status) ==
    /\ approval' = [approval EXCEPT ![r] = decision]
    /\ pending' = [pending EXCEPT ![home[r]] = @ \ {r}]
    /\ SetTask(r, status)
    /\ Announce(r, "decided")
    /\ NoCastChange
    /\ UNCHANGED home

(* Mutant: any approval that the store knows can be approved. *)
ApproveKnown(r) ==
    /\ approval[r] # "none"
    /\ performed' = [performed EXCEPT ![r] = @ + 1]
    /\ Settle(r, "approved", "completed")

(* Mutant: the task takes the status of the approval, not of the action. *)
ApproveTask(r) ==
    /\ approval[r] = "pending"
    /\ r \in pending[home[r]]
    /\ performed' = [performed EXCEPT ![r] = @ + 1]
    /\ Settle(r, "approved", "approved")

(* approve_action: the approval is pending and the agent still has the        *)
(* action, which is carried out at once.                                      *)
Approve(r) ==
    /\ approval[r] = "pending"
    /\ r \in pending[home[r]]
    /\ performed' = [performed EXCEPT ![r] = @ + 1]
    /\ Settle(r, "approved", "completed")

Reject(r) ==
    /\ approval[r] = "pending"
    /\ r \in pending[home[r]]
    /\ UNCHANGED performed
    /\ Settle(r, "rejected", "rejected")

-----------------------------------------------------------------------------
(* WebSocket clients and broadcasts.                                          *)

Listening(p) == {connections[p][i] : i \in 1..Len(connections[p])}

(* Mutant: a new connection is put at the head of the list. *)
ConnectFirst(s, p) ==
    /\ socket[s] = "new"
    /\ socket' = [socket EXCEPT ![s] = "open"]
    /\ connections' = [connections EXCEPT ![p] = <<s>> \o @]
    /\ UNCHANGED <<stores, cast, received, audience, restarts>>

Connect(s, p) ==
    /\ socket[s] = "new"
    /\ socket' = [socket EXCEPT ![s] = "open"]
    /\ connections' = [connections EXCEPT ![p] = Append(@, s)]
    /\ UNCHANGED <<stores, cast, received, audience, restarts>>

(* The client goes; the handler has not noticed yet. *)
Hangup(s) ==
    /\ socket[s] = "open"
    /\ socket' = [socket EXCEPT ![s] = "closed"]
    /\ UNCHANGED <<stores, connections, cast, received, audience, restarts>>

(* Connections leave the list of a process.  A loop that is in the middle of  *)
(* that list goes on at its old position: what it owes changes.               *)
Remove(p, gone) ==
    /\ connections' = [connections EXCEPT ![p] = Keep(@, {i \in DOMAIN @ : @[i] \notin gone})]
    /\ audience' = [b \in Casts |->
                      IF /\ home[b[1]] = p /\ cast'[b].state = "sending"
                         /\ gone \cap Listening(p) # {}
                      THEN {} ELSE audience[b]]

(* Mutant: the handler leaves the list to the next broadcast. *)
LeaveToCast(s, p) ==
    /\ socket[s] = "closed"
    /\ s \in Listening(p)
    /\ UNCHANGED vars

(* websocket_endpoint: the finally clause. *)
Leave(s, p) ==
    /\ socket[s] = "closed"
    /\ s \in Listening(p)
    /\ UNCHANGED <<stores, socket, cast, received, restarts>>
    /\ Remove(p, {s})

(* The background task begins its loop over the list of its own process: the  *)
(* clients of the others are not in it and never get this update.             *)
StartCast(b) ==
    /\ cast[b].state = "queued"
    /\ cast' = [cast EXCEPT ![b].state = "sending"]
    /\ audience' = [audience EXCEPT ![b] = Listening(home[b[1]])]
    /\ UNCHANGED <<stores, connections, socket, received, restarts>>

(* The next element of the list by its index, whatever the list is by now: a  *)
(* send that fails is remembered and the loop goes on.                        *)
Send(b) ==
    LET list == connections[home[b[1]]]
        to   == list[cast[b].at]
    IN  /\ cast[b].state = "sending"
        /\ cast[b].at <= Len(list)
        /\ cast' = [cast EXCEPT ![b] =
                      [state  |-> "sending",
                       at     |-> @.at + 1,
                       failed |-> @.failed \cup (IF socket[to] = "open" THEN {} ELSE {to})]]
        /\ received' = IF socket[to] = "open"
                       THEN [received EXCEPT ![to][b] = @ + 1] ELSE received
        /\ UNCHANGED <<stores, connections, socket, audience, restarts>>

(* Mutant: the loop ends at the first send that fails. *)
EndCastEarly(b) ==
    /\ cast[b].state = "sending"
    /\ cast[b].at > Len(connections[home[b[1]]]) \/ cast[b].failed # {}
    /\ cast' = [cast EXCEPT ![b].state = "ended"]
    /\ Remove(home[b[1]], cast[b].failed)
    /\ UNCHANGED <<stores, socket, received, restarts>>

(* The loop has run past the end; those that failed are removed. *)
EndCast(b) ==
    /\ cast[b].state = "sending"
    /\ cast[b].at > Len(connections[home[b[1]]])
    /\ cast' = [cast EXCEPT ![b].state = "ended"]
    /\ Remove(home[b[1]], cast[b].failed)
    /\ UNCHANGED <<stores, socket, received, restarts>>

(* A process restarts, alone or, with the container, one after the other: all *)
(* that it holds is gone, and its connections are closed.                     *)
Restart(p) ==
    /\ restarts < MaxRestarts
    /\ restarts' = restarts + 1
    /\ task' = [r \in Requests |-> IF home[r] = p /\ task[r] # "new" THEN "lost" ELSE task[r]]
    /\ approval' = [r \in Requests |-> IF home[r] = p THEN "none" ELSE approval[r]]
    /\ pending' = [pending EXCEPT ![p] = {}]
    /\ connections' = [connections EXCEPT ![p] = <<>>]
    /\ socket' = [s \in Sockets |-> IF s \in Listening(p) THEN "closed" ELSE socket[s]]
    /\ cast' = [b \in Casts |-> IF home[b[1]] = p THEN NoCast ELSE cast[b]]
    /\ audience' = [b \in Casts |-> IF home[b[1]] = p THEN {} ELSE audience[b]]
    /\ UNCHANGED <<home, performed, received>>

-----------------------------------------------------------------------------
Next ==
    \/ \E r \in Requests :
          \/ StartReading(r) \/ FinishReading(r) \/ Plan(r)
          \/ Refuse(r) \/ Propose(r) \/ Approve(r) \/ Reject(r)
    \/ \E s \in Sockets : Hangup(s)
    \/ \E s \in Sockets, p \in Processes : Connect(s, p) \/ Leave(s, p)
    \/ \E b \in Casts : StartCast(b) \/ Send(b) \/ EndCast(b)
    \/ \E p \in Processes : Restart(p)

Spec == Init /\ [][Next]_vars

(* The event loop runs every coroutine that can go on. *)
Fairness ==
    /\ \A b \in Casts : WF_vars(StartCast(b)) /\ WF_vars(Send(b)) /\ WF_vars(EndCast(b))
    /\ \A s \in Sockets, p \in Processes : WF_vars(Leave(s, p))

FairSpec == Spec /\ Fairness

-----------------------------------------------------------------------------
(* What holds.                                                                *)

(* The three stores never disagree: an approval can be decided exactly while  *)
(* the task awaits it and the agent of the same process has the action.       *)
StoresAgree ==
    \A r \in Requests :
        /\ approval[r] = "pending" <=> task[r] = "awaiting_approval"
        /\ approval[r] = "pending" <=> r \in pending[home[r]]
        /\ \A p \in Processes \ {home[r]} : r \notin pending[p]

(* However often people approve and reject, in whatever order and across      *)
(* restarts, an action is carried out at most once, and one that is refused,  *)
(* rejected or waiting has not been carried out.                              *)
PerformedOnce ==
    \A r \in Requests :
        /\ performed[r] <= 1
        /\ performed[r] = 1 => \/ task[r] = "completed" /\ approval[r] = "approved"
                               \/ task[r] = "lost"

(* A client never gets the same update twice, though the loops go over a list *)
(* that connections join and leave.                                           *)
NoUpdateTwice == \A s \in Sockets, b \in Casts : received[s][b] <= 1

(* A broadcast reaches every client on the list of its own process when it    *)
(* began that has not gone, if no connection left that list in between, and   *)
(* whoever joined it.  (When one leaves, the loop skips another; a client of  *)
(* another process never gets the update.)                                    *)
QuietBroadcastReachesItsList ==
    \A b \in Casts : cast[b].state = "ended" =>
        \A s \in audience[b] : socket[s] = "open" => received[s][b] > 0

(* A client that went is taken from the lists, whichever of the broadcast and *)
(* the handler of the connection notices first, and no broadcast goes on for  *)
(* ever.                                                                      *)
CastsEnd ==
    /\ \A b \in Casts : cast[b].state = "queued" ~> cast[b].state \notin {"queued", "sending"}
    /\ \A s \in Sockets : socket[s] = "closed" ~> \A p \in Processes : s \notin Listening(p)
=============================================================================
