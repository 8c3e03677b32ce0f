# Formal models of TalkToInfra

TLA+ models of the services of this repository that keep state and act on it:
what they do when requests race, processes restart, clocks pass and stores fail.
Each definition is a translation of the code (`PROJECT.json`, `map`, names the
file and the lines); TLC checks small instances, and TLAPS proves
all the safety properties of the passing runs for every instance.

```
cd tla
tlc -workers 2 -config MCActionEngine.cfg MCActionEngine     # one run
tlapm ActionEngine_proofs.tla                                # one proof module
```

Contents: [the system](#1-the-system) · [the plan](#2-the-plan) ·
[the modules](#3-the-modules) · [the runs](#4-the-runs) ·
[the proofs](#5-the-proofs) · [disagreements](#6-where-the-code-and-its-documentation-disagree) ·
[limits](#7-what-is-not-modelled)

## 1. The system

Python services behind an HTTP gateway. Each is one asyncio process (the agent
service starts four, the workflow service also has Celery workers). A coroutine runs without interruption up to an
`await` that really suspends, so what can interleave is decided by where a
handler waits for the network, a database, Redis or a subprocess.

| component | state it keeps | operations | talks to |
|---|---|---|---|
| **action engine** `services/action-engine` | `action_store` and `rollback_points`, dictionaries of the process | dry-run, execute, rollback, list | policy engine (policy check, permission), kubectl, audit service |
| sandbox `action-engine/sandbox.py` | none | simulate a command | – |
| **policy engine, approvals** `services/policy-engine` | `approval_store`, `approval_records` | create, approve, reject, list; chains say how many approvals are needed | audit service |
| policy engine, RBAC `rbac.py` | constant tables | check policy, check permission | – |
| **discovery, scan jobs** `discovery-service` | rows `scan_jobs`, `discovered_hosts`; one background task per scan | start, stop, delete, progress, retention | scanners, database |
| discovery, scanners | one stop event each | python connect scan, masscan, nmap, hybrid | subprocesses |
| discovery, managed hosts | rows `managed_hosts` with a foreign key on a job | add, update, delete, health check | database |
| discovery, middleware | sliding windows in Redis or memory | rate limit, headers | Redis |
| discovered infrastructure, health tasks | rows | CRUD, periodic check | database |
| **AI router, approvals** `approval_workflow.py` | one Redis key with a time to live per approval | create, get, approve, reject, cancel, cleanup | Redis |
| **AI router, conversations** `conversation_manager.py` | a row of PostgreSQL per conversation and a copy of it in Redis with a time to live | query (look up, ask the model, add question and answer), create, get, delete | PostgreSQL, Redis |
| AI router, query pipeline | caches | retrieve, call a model | rag service, LLM |
| **audit service** | `LogStore.logs`, `last_hash` | log, query with pages, verify, statistics, export | every service reports to it |
| workflow service | executions and definitions, dictionaries of the API process; a Redis cache of the first state | start, cancel, roll back; Celery tasks that run the steps, retry, clean up stale | action engine, NATS |
| **agent service** | `_task_store`, `_approval_store`, `_active_connections` and the agent's `_pending_actions`, dictionaries of each of its processes | run an agent, approve, reject, status; WebSocket clients that are sent every update | tools |
| **user service, access** `user-service` | tables of teams, members and cluster access | create and change them, check a permission | database |
| user service, the rest | users, roles, sessions, keys | registration, login, CRUD | database |
| rag, cost, monitoring, notification, ingestion, onboarding services | tables or external stores | mostly CRUD and computation over fetched data | – |
| API gateway, shared, frontend, infra | none that decides anything | proxy, data classes, UI, deployment | – |

How they interact. A user's request becomes an action: the action engine asks the
policy engine whether an approval is needed (dry-run), and again for permission
(execute), runs the command, and reports to the audit service. Approvals exist
three times in the system: as a status of the action engine, as an object of the
policy engine, and as a Redis key of the AI router. The discovery service fills
the database with hosts from scans that run in the background of the request that
started them.

What is hard in it, and what each part must get right:

* *Stale state across an await.* `execute_action` reads the status, waits for a
  permission, and starts the command. What must hold: a pending action never
  runs, starts are bounded, no action stays in `executing` once its command has
  ended, rollback points stay bounded and are not lost to re-execution.
* *Last write wins.* The flow of a scan, `stop_scan`, `delete_scan` and the
  retention task write one row without looking at it, each call in a session of
  its own. What must hold: no row of an ended scan goes back, a finished flow
  leaves a terminal row, results are stored before the scan says completed, no
  host outlives its job.
* *Read, decide, write without a transaction*, on a key that also expires. What
  must hold: a decision is never undone to pending, only a handler that overlapped it
  may replace it, and the key is finally gone.
* *Two stores that must agree*: approval status and approval records; hash chain
  and list of entries.
* *Partial failure*: an exception after the last write, in the handler of another
  exception, in the service that is called; a restart of an in-memory service.
* *Paging while the list changes*, a retention by time on a list ordered by call.
* *A cache next to a table*, both written by handlers that have read one of them
  some time before. What must hold: what a conversation keeps when nothing
  interferes, no message twice or out of order when something does, and a deleted
  conversation that has left the cache stays out of it.
* *A list that changes under its loop*: a broadcast suspends at each send while
  clients join and leave. What must hold: nobody gets an update twice, a quiet
  broadcast reaches everybody on the list of its process, the dead leave the list.
* *A check in several statements* over tables that change between them. What must
  hold: who is entitled all the time is not denied; a removal ends the membership
  it has found.

`PROJECT.json` lists each hazard at its line.

## 2. The plan

Done, in this order: `ActionEngine` (the part that changes infrastructure), its
abstract specification and proofs; `ScanJobs` with its abstract specification and
proofs; `PolicyApprovals`; `ActionPolicy`, the composition of the two engines;
`ApprovalWorkflow`; `AuditLog`; `ConversationStore`, `AgentActions` and
`TeamAccess` with their proofs.

Considered and left (section 7 has the reasons): the workflow service, whose
executions never take a step in the code as it is; the inside of the python
scanner, whose tasks share only a list that they append to; the rate limiter,
which is one update per request; services whose tables cannot be imported.

Worth doing next: an abstract two-service approval protocol that `ActionPolicy`
would have to implement, and a conversation store with a version on the row that
`AppendsOnly` without its exceptions would hold for.

## 3. The modules

**`ActionEngine`** – `action-engine/main.py`, `rollback.py`, `executor.py`.
`status`, `requires_approval` and `rollback_point_id` are the fields of the stored
`ActionResponse`; `rollback_points` is the rollback manager's dictionary, oldest
first; `pc` and `target` say where each activation of `execute_action` is
suspended and with which action. `Execute` is the handler up to the permission
call, `PermissionGranted` from its answer to the start of the subprocess (status,
rollback point with its eviction, `applied`), `CommandEnds` from the end of the
subprocess, which may never come, to the answer. `DryRun` and `Rollback` touch the store once and are one
step. `Restart` empties the dictionaries and drops the requests. `applied` is a
history variable.

**`ActionLifecycle`** – what the engine promises: registered once, first started
when ready, at most `MaxRuns` starts, nothing after a restart. The engine
implements it with `MaxRuns` = the number of concurrent requests; for one request
that is "at most once".

**`ScanJobs`** – `scan_orchestrator.py`, `job_manager.py`, `api/v1/scans.py`,
`workers/scan_tasks.py`, the foreign key of `managed_hosts`. `flow` is the point
of the background task of each scan between two database calls, `pc`/`job` the
same for the stop and delete handlers. One JobManager call, one step.
`DatabaseFails`, `ScannerFails`, `ScannerTimesOut`, `ClientFails` and `Restart`
can come between any two; `DatabaseFails` at `created` is the read-back of the new row,
after which no flow is started for it. `MarkCompleted` goes on to the error branch, because
the code does: see section 6.

**`ScanLifecycle`** – what the table promises its readers: pending, running,
ended, deleted, in this order; results while it exists.

**`PolicyApprovals`** – `policy-engine/main.py`, `approval_chain.py`. The handlers
do not suspend before their last write and are one step each. `Required` is the
sum of the levels of the default chain an action name selects.

**`ActionPolicy`** – extends `ActionEngine`, instantiates `PolicyApprovals`, and
restricts the answers the engine gets to those the policy engine's handlers
produce for the requests the engine sends, with either process stopping and
starting. `PermissionGranted` is never enabled in it: the permission request is
answered 422 (section 6).

**`ApprovalWorkflow`** – `ai-router/approval_workflow.py`. `Get`, `Decide` and
`Write` are the GET, the Python decision and the SETEX of one operation.
`clock` is the time left of an approval in the units the code can tell apart:
more than a second (it writes), less (`int()` makes it 0 and it does not), past.
`KeyExpires` is Redis. Who decided is left out, because the code does not store it
(section 6). `Operations` says which operations are called: the endpoints of the router
call approve and reject; cancel and cleanup_expired are public methods without a caller
in the repository, and the run takes them along, so what it shows holds without them.

**`Lists`** – the list comprehension of Python, `[x for x in s if ...]`, as
`Keep(s, I)`: each element that is kept stands at the number of kept elements before
it. It is `SelectSeq` without the recursion, which the provers cannot unfold, and TLC
compares the two on every list up to length 4 (`KeepIsSelectSeq` in `MCAuditLog`).

**`AuditLog`** – `audit-service/main.py`, `log_store.py`, `integrity.py`, and the
two functions `log_to_audit` that report to it. A hash is the pair of what it was
calculated from; the code calculates it before the link is set, so the link is
never in it; no property is about verification, which fails for that reason (section 6).
`CleanupOldLogs` has no caller in the repository: what holds with it holds without.
A query sorts with `Rank`: the place of an entry is the number of
entries the stable sort puts before it.

**`ConversationStore`** – `ai-router/conversation_manager.py` and `POST /query` of
`main.py`. Every call of PostgreSQL or Redis is a step. `pc` is the call a handler
is about to make, `op` what `get_conversation` was called for (lookup, add the
question, add the answer, answer a reader), `list` the messages it holds. A query
is `Get` (`Select`, `Refill` on a miss; `Insert`, `Seed` for a new conversation),
`ModelAnswers`, and twice `Get` … `Update`, `SetEx`; a deletion is `Find`, `Drop`,
`Forget`. `Fails` ends any of them at any call, `Expire` is Redis. A message is its
query and its role. Queries go on without end: the name of one that has left no trace
(`Unseen`) is used for the next. `disturbed` is a history variable: conversations whose messages
were in the hands of two handlers at one time, or that a handler left between its
two writes. The code loses messages in exactly these two ways, which is what the
properties say by excepting nothing else.

**`AgentActions`** – `agent-service/app/main.py` and `agents/action_agent.py`. The
dry-run and the execution of an action are simulations that never suspend, so
`Propose`, `Approve` and `Reject` are one step each; a query or an analysis waits
for tools (`StartReading`, `FinishReading`). `home` is the process that took the
request: the image starts four (`Dockerfile:81`), and a decision that reaches
another one is answered 404. A broadcast is `StartCast`, a `Send` per index of the
list of its own process as it is at that moment, and `EndCast`, which removes those that failed;
`Connect`, `Hangup` and `Leave` come in between. `audience` is a history
variable: whom of that list the broadcast owes the update. `Remove` empties it when a
connection leaves the list of a running loop, because the loop then skips one.
`Restart` is that of one process.

**`TeamAccess`** – `user-service/app/services/user_service.py`,
`permission_service.py` and their endpoints. A statement is a step; `call` is what
each handler was called with and the statement it is at, `member` the number of the
row of a membership (0: none), so that a row deleted and inserted again is another.
`ReadTeams` and a `ReadAccess` per team, in any order, are the check. `due` is a
history variable: teams that entitled the user when the check began and have not
been touched since.

**`MC*`** instantiate these for TLC. **`*_proofs`** hold the theorems. Definitions
marked *Mutant* are variants of the definition below them with a plausible bug;
each property has one that breaks it.

## 4. The runs

Runs that pass:

| run | instance | checks |
|---|---|---|
| `action_engine` | 3 actions, 2 requests, room for 2 points, restarts; 18 262 states | `PendingNeverExecuted`, `ExecutingHasRunner`, `RollbackPointsBounded`, `PointKeptWhileRoom`, `ImplementsLifecycle` |
| `scan_jobs` | 1 job of each type, 2 clients, scanner, database and crash faults; 5 471 states | `FinishedFlowIsTerminal`, `CompletedMeansStored`, `ReferencesHold`, `EndedStaysEnded`, `ImplementsLifecycle`, `ScanSettles` |
| `policy_approvals` | 2 approvals, 3 users, both chains and none; 4 381 states | `QuorumDecides`, `RecordedByApprovers`, `DecisionIsFinal` |
| `approval_workflow` | 1 approval, 3 handlers, every operation; 51 622 states | `AnsweredLeavesPending`, `NeverReopened`, `QuietDecisionStands`, `ExpiredIsForgotten` |
| `audit_log` | 4 entries, 1 reader, pages of 1, a clock of 0..2 with a retention of 1, all faults; 297 789 states | `ChainFollowsHistory`, `PagingSkipsNothing` |
| `conversation_store` | 1 conversation with room for 2 messages, 2 queries, 1 client, failures and expiry; 86 864 states | `HistoryWellFormed`, `CacheIsCurrent`, `AppendsOnly`, `GoneStaysGone`, `DeletedIsForgotten` |
| `agent_actions` | 1 request, 2 clients, 2 processes, 1 restart; 78 164 states | `StoresAgree`, `PerformedOnce`, `NoUpdateTwice`, `QuietBroadcastReachesItsList`, `CastsEnd` |
| `team_access` | 1 user and an unknown one, 2 teams, 2 rows of access of two levels, 2 calls at a time; 1 530 186 states | `StandingGrantCounts`, `RemovesWhatItSaw` |

and `TypeOK` in each. The other four check one sentence of the repository each
and end in a counterexample (section 6).

*Bounds.* Every race in the action engine is between two handlers of one action
or of two actions that share the rollback points; a third action is needed to
exceed the room for points, and the executions need no bound of their own (an
action is approved once, so the requests bound them). The flow and
handlers of one scan meet those of another only in the retention statement, which
is refused when any of its rows is protected: an instance with two jobs, two scan
types and one client (997 000 states) passes as well, and the proofs cover any number of
jobs. Three handlers on one key let a second decision overlap the
first and a third begin after either of them; keys do not interact. Three users and a chain of two suffice for approvals by the same and by
different people, and for one too many. Four entries, pages of one and a clock
that can pass the retention and step back give each entry the chance to be
removed before, between and after the others while a reader is on any page.
A conversation is touched only through its own row and key, so one suffices (the
proofs cover any number); two names of queries, used again and again, add four messages
at a time to room for two, so the limit drops messages while another handler holds them, and the third handler
reads, creates or deletes at any of their steps. One request of the agent service makes two
broadcasts, which can run at the same time over a list of two connections: the
list loses its first or its last element in the middle of either loop. Requests
share nothing but that list, and the stores are proved for any number. Two teams
give a check an order to choose, two rows let one team have two for a
cluster or each have one, two levels lie on both sides of what is asked, and two rows of
membership let one be deleted and inserted again between the statements of a
removal.

*Fairness.* The event loop resumes a coroutine whose awaited call has answered.
No fairness is assumed of a request, a
decision, a crash or a client. `ActionEngine` has none at all: the executor waits for
a command without a timeout (`executor.py:51`), so an execution need not end, and
what is checked is that its end is not missed. `ScanJobs`: weak fairness on the steps
of a flow, whose database calls answer or fail; masscan and nmap have timeouts, the
python scanner one per connection. `ScanSettles` excepts flows that are lost, which the code does not
recover: in a crash, by a database error inside an exception handler, and by one
between the INSERT of the job and the start of its flow (`job_manager.py:42`).
`ApprovalWorkflow`: time passes, Redis removes what has expired, and a
call of Redis answers or fails. `ConversationStore`: Redis removes a key whose time is
over, and nothing else; that queries on the deleted conversation end is the
premise of `DeletedIsForgotten` and not assumed. `AgentActions`: the event loop runs
the background tasks and the handlers of connections that can go on.
`ActionPolicy`: the policy engine comes back and a request of the engine gets its
answer (its command may hang); this is where a counterexample needs fairness.

*Deadlock* is checked except where the model may stop: `ApprovalWorkflow`, when
all its approvals have expired, `AgentActions`, when its request is settled and its
clients have gone, and `AuditLog`, when all its events are reported
and the clock has ended (both are bounds of the instance).

## 5. The proofs

All of them hold for every value of the constants under the module's
`ConstantsAssumption` (identifiers are not the "none" value, request sets are
finite, limits are positive).

* **`ActionEngine_proofs`**: type correctness; `PendingNeverExecuted`;
  `ExecutingHasRunner`; `RollbackPointsBounded`; `PointKeptWhileRoom`; starts are
  bounded by the number of requests. The inductive invariant says besides `TypeOK`
  that only approved actions reach a request (`ApprovalOK`: a request works on an
  action without approval requirement, which survives later changes of its
  status), that points are distinct and bounded (`PointsOK`, over two lemmas about
  `Without` and `Cleanup`), and that an executing action has its runner.
  The bound on the starts counts a request that has read `approved` with the
  starts already made: each start consumes a request that was waiting before the
  first start. `PointKeptWhileRoom` needs that every point belongs to an executed
  action, so that with room for all of them nothing is evicted.
  `EngineImplementsLifecycle` maps the initial states and every action to a step or
  a stutter of `ActionLifecycle`, from the invariants above and from `ReadyOK`
  (nothing starts from `absent`, `lost` or `waiting`). From the same invariant:
  `WaitingIsNeverReleased`, a pending action stays pending until a restart loses it,
  and `OneRequestExecutesApproved`, the sentence of `README.md:492` that the run
  `action_engine_approved` refutes holds under `OneAtATime`, so the race of two requests
  is its only cause: alone, a request that waits for its permission waits for an action
  that is still approved, because an approved action was never started and has no
  rollback point to go back to. The module also proves of `ActionPolicy` that the system implements the
  specifications of both engines (`SystemImplementsBoth`; every theorem about one alone
  therefore holds of it), and that in it no command is ever started and no waiting
  action released (`SystemNeverStarts`).
* **`ScanJobs_proofs`**: type correctness, `ReferencesHold`,
  `FinishedFlowIsTerminal`, `CompletedMeansStored`, `EndedStaysEnded` and the
  refinement of `ScanLifecycle`, for any number of jobs and clients. `JobOK` ties
  the point of a flow to what its row can say (before `launched` only pending or
  gone; `hosts` agrees with `found` from `finish` on), `ClientOK` says that a client
  about to write `cancelled` does so to a job that ran or has ended.
* **`PolicyApprovals_proofs`**: `QuorumDecides` and `RecordedByApprovers` are
  inductive with `TypeOK`; `DecisionIsFinal` follows step by step.
* **`ApprovalWorkflow_proofs`**: the invariant relates each handler to its key
  (`HandlersOK`: a handler about to write holds a decision; `FreshOK`: an
  approval that was not created has no handler). `AnsweredLeavesPending` is part of it,
  `NeverReopened` follows. `QuietDecisionsStand` carries a second invariant from the
  moment a decision is stored and nobody is under way: all but cancel look at the
  status, so whoever begins after it is a cancel, which can only write EXPIRED. The module also
  proves what a single handler that never cancels adds: a stored decision does not
  change until its key expires (`SerialDecisionsAreFinal`).
* **`AuditLog_proofs`**: lemmas about `Keep` (the kept indices have different places,
  in their order, and every place is taken) and about the order of a query (`Rank` is
  one to one onto the indices, so a page holds exactly the entries whose rank is in its
  range, and one that is not full is the last); type correctness;
  `ChainFollowsHistory`, with `LoggedWereReported` (an identifier is logged once, so
  later entries do not overwrite its link); `PagingSkipsNothing`, from the invariant
  that what a reader wants and ranks below the offset of the reader was seen: a
  new entry can only raise ranks, and the retention removes an entry only together
  with all that a query shows after it, so no rank of what stays falls;
  `StoreIsRecent`, from the fact that in a list ordered by time the retention keeps an
  end of it (proved and not run: nothing calls the retention).
* **`ConversationStore_proofs`**: type correctness (with the limit on every list in
  hand); `CacheIsCurrent` and `AppendsOnly` from one invariant: at most one
  handler holds the messages of an undisturbed conversation, and what it holds is
  the row, or the row with one message appended and cut to the limit, according to
  the call it is at. `HistoryWellFormed` holds for disturbed conversations too and
  needs another one: a query that has not added its question or its answer yet
  occurs nowhere with it, in no row, no key and no list in the hands of another handler.
  `GoneIsGone`: from a deleted row, a missing key and no holder no step leads to a holder,
  because every reader of the row finds none and every reader of the key misses it.
* **`AgentActions_proofs`**: type correctness of the stores, `StoresAgree` and
  `PerformedOnce`, which are inductive together (what is pending awaits its decision
  and was never carried out), and that a settled task stays as it is until a restart.
  For the broadcasts, `CastInv`: a connection is in one list at most and there once
  (`ListsApart`); nobody at the position of a loop or behind it has got the update
  (`LoopsOK`); and whom a loop owes it is in the list, and has got it or has gone when the
  loop is past that place (`OwedOK`). A removal moves elements of the list down and
  never up, which is why `NoUpdateTwice` survives it, and ends what a running loop owes,
  which is why `QuietBroadcastReachesItsList` says quiet. With it `TypeOK` of all variables.
* **`TeamAccess_proofs`**: type correctness; `StandingGrantCounts` from the invariant
  that the teams a check owes still entitle its user and are still to be looked at;
  `RemovesWhatItSaw` follows step by step from type correctness. `OneRowAnswers` is the
  other side of the run `team_access_answered`: `Spec` with `[]OneRow`, no team has two
  rows for a cluster, implies `ChecksAreAnswered`, so a second row is all that can
  leave a check without its answer.

Two theorems carry a hypothesis that the code does not enforce, `OneAtATime` and
`OneRow`; they say what is missing for the property a counterexample refutes, and
`SerialDecisionsAreFinal` does the same for the race of two decisions.

Only model-checked: the liveness properties (`ScanSettles`,
`ExpiredIsForgotten`, `DeletedIsForgotten`, `CastsEnd`), because they need fairness and
`ENABLED`, which the prover does not handle. `ApprovalReleasesAction`, refuted by its
run, is of that kind too; `WaitingIsNeverReleased` is the part of it that can be
proved. `ApprovedByDifferentPeople` has only its counterexample.

## 6. Where the code and its documentation disagree

Each has a run that ends in a counterexample:

| run | the repository says | the code does |
|---|---|---|
| `action_engine_approved` | `README.md:492`, "Execute approved action" | `execute_action` reads the status before it waits for the permission (`main.py:253`): two requests run the command twice, also after a rollback |
| `action_policy_release` | `policy-engine/main.py:312`, "Approve a pending action." | no code of either service takes the approval to the action |
| `policy_approvals_people` | `approval_chain.py:32`, "Multi-level approval for production deployments" | one user is counted for both levels |
| `team_access_answered` | `permission_service.py:59`, `scalar_one_or_none()`; line 44, a check returns "Tuple of (allowed, reason)" | nothing keeps a second row for a team and a cluster out, and with two the check raises |

The models contain more of the kind, without a run of their own:

* `scan_orchestrator.py:133`, "Mark completed": `len(None)` at line 143, still in the
  `try`, so every completed scan is then failed (`MarkCompleted` goes on to the error
  branch);
* `scans.py:433`, "Scan stopped successfully": the flow goes on and overwrites
  `cancelled` with its own outcome;
* `job_manager.py:41-42`: the row of a job is committed and then read back; when that
  fails, the caller gets an error, no flow is started and the row stays `pending`;
* `config.py:34` of the action engine, `action_timeout_seconds: int = 600`: nothing uses
  it, and `executor.py:51` waits for the command as long as it takes, so a command
  that hangs leaves its action in `executing`;
* `approval_workflow.py:176`, "approver_id: Approving user": the endpoints pass
  `request.action` (`main.py:747`, `780`), the text "approve" or "reject"
  (`models.py:212`), so a stored decision names nobody;
* `cancel` and `cleanup_expired` of the approvals (`approval_workflow.py:260`, `328`) and
  `cleanup_old_logs` of the audit service (`log_store.py:106`) have no caller;
* `approval_workflow.py:188`, "approval_already_processed": two handlers that both
  read PENDING answer APPROVED and REJECTED;
* `audit-service/main.py:357`, "Verify the integrity of audit logs using hash
  chain.": the chain is walked newest first (`log_store.py:75`), so two untouched
  entries are reported as broken; and the hash of an entry is taken before its link is set
  (`main.py:161-163`) and verified with it (`integrity.py:23-52`), so no entry with a link
  verifies;
* two queries on one conversation at a time lose messages: `add_message` writes
  back what it has read, and the copy of a conversation may be older than its row
  (`conversation_manager.py:181`, `249`); `CacheIsCurrent` and `AppendsOnly` name the
  cases in which this happens;
* a deleted conversation whose key a slow handler has brought back is answered from the
  key (`conversation_manager.py:149-152`) and kept there for another day by each query
  (`263`), although the UPDATE of its row matches nothing;
* a pending approval of the agent service is known to one of four processes
  (`Dockerfile:81`), so most decisions about it are answered 404;
* `agent-service/app/main.py:233`, "to all connected WebSocket clients": the list is
  that of one of the four processes (`58`, `243`), so clients of the others get nothing;
* the broadcast of the agent service skips a client when another one leaves
  (`agent-service/app/main.py:243`), and an older update can overtake a newer one;
* a team whose owner cannot be added is created nevertheless (`users.py:163-166`);
* a rollback is accepted while the command runs (`action-engine/main.py:349`;
  its docstring at 333 says "Rollback a completed action."), and is answered as done whatever the
  rollback manager returns;
* a failed command is stored as completed (`action-engine/main.py:285`), and
  nothing uses the status `failed`; a failed dry-run leaves the action as
  executable as a successful one (`main.py:180`, `README.md:19`);
* rollback points are removed by number, the retention time of the settings is not used
  (`rollback.py:234-246`);
* a scan that is still pending cannot be stopped (`job_manager.py:194`);
* a scanner that exceeds its timeout is shown as cancelled (`masscan.py:161`);
* one managed host makes the whole retention statement fail (`scan_tasks.py:41`);
* the second phase of a hybrid scan joins its targets with commas, which
  `ip_range.py:90-95` refuses: more than one host fails the scan;
* the progress callback is a coroutine that `base.py:149` does not await;
* who sees an approval in the list (roles) and who may approve it (names) are
  different rules (`policy-engine/main.py:274`, `336`); chains ignore the environment
  (`approval_chain.py:123-137`);
* `validate_execution` takes its arguments from the query string and the caller
  sends JSON (`policy-engine/main.py:213`, `action-engine/main.py:456`): every
  execution is refused in the composed system; the approval that a production
  resource needs is computed and dropped (`policy-engine/main.py:195`, `553`);
* a decision in the last second is answered and not stored
  (`approval_workflow.py:292`), and the cleanup mostly finds the key gone (`349`);
* no reporter sends the `resource_type` the audit service requires
  (`audit-service/models.py:32-40`), so their reports are dropped; the log lives in the
  process, with a retention of 365 days that nothing applies (`config.py:19`), where
  `README.md:384` says "Retention: 7 years for compliance".

## 7. What is not modelled

* *Workflow service.* The dictionaries are handed to the tasks in the API process
  only (`set_storage_refs`, `main.py:235`) and a Celery worker is another process: a
  task finds no definition (`tasks.py:118`), retries and gives up, and the execution
  it was started for stays in `running`. Behind that, `validate` is given an
  object where it takes a dictionary, and the rollback handlers are constructed
  without their argument (`rollback.py:165-171`), so nothing of retries, steps and
  compensation can be reached. A model of what was intended would not be a model of
  this code.
* *Services whose tables cannot be imported*: SQLAlchemy reserves `metadata` as an
  attribute of a declarative class and raises on `notification-service/models.py:173`,
  `rag-service/models.py:69`, `monitoring-service/app/models.py:93` and
  `app/models_self_healing.py:107`, `cost-service/app/models.py:425`,
  `discovery-service/app/models_discovered.py:229`. The last one is imported by the main
  module of the discovery service (`app/main.py:27`); `ScanJobs` models that service as
  it runs once the attribute is renamed, which no definition depends on. Nothing
  constructs rows of the discovered tables.
* *Ingestion*: the vector store is a stub, one job runs at a time, and it counts what it has
  fetched. *Onboarding*: rows and connection tests.
* *The rest of the user service*: registration, sessions, keys, roles and passwords
  are rows with a unique key each. The patterns of `check_namespace_access` are never
  reached: the endpoint passes no namespace (`permissions.py:43`).
* *Python scanner*: its outcome is in `ScanJobs`; the semaphore bounds connections and
  the stop event has no caller. *Rate limiter*: a fixed window with one update per request.
* *Query pipeline, cost, anomaly detection, planning and analysis agents, cloud
  tools* compute over answers of external systems. *Gateway, shared schemas,
  frontend, deployment* decide nothing the models need; the limiter of the gateway
  is a library and its `scanner.py` has no caller.

*Replicas.* Helm starts two of the action engine, the policy engine and the audit
service (`infra/helm/opsai/values.yaml`), and their stores are dictionaries of a
process: an action, an approval or a log entry exists in one replica and the others
answer 404 or another page. The models are of one replica each, and what they
show of the paging, the chain and the retention holds for the log of that one.
`AgentActions` has several processes, because its image starts them.

Within the modelled parts: what a command, a rollback or a scanner does to the
outside is only its outcome; texts, estimates, details and metadata are left out;
`list` and `statistics` endpoints read only; the index of a conversation's
approvals only grows; export and compliance reports of the audit service format
what `query` returns. Hashes are assumed injective, uuid4 never repeats, and a
statement of the database is atomic.
