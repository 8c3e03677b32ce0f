------------------------------- MODULE AuditLog -------------------------------
(***************************************************************************)
(* The audit service (services/audit-service): the in-memory list of log    *)
(* entries with its hash chain (log_store.py, integrity.py), the handlers   *)
(* that log and query (main.py), the services that report events to it      *)
(* (log_to_audit of action-engine and policy-engine), and a reader that     *)
(* pages through a query with limit and offset.                             *)
(*                                                                          *)
(* No handler suspends between its first look at the store and its last     *)
(* write, so each is one step.                                              *)
(***************************************************************************)
EXTENDS Lists

CONSTANTS
    Entries,        \* entry identifiers (uuid4)
    Reporters,      \* who reports: "action-engine", "policy-engine", "client"
    Readers,        \* clients that page through GET /audit/query
    NoHash,         \* None
    Limit,          \* the limit of a query
    Retention,      \* log_retention_days, in ticks
    MaxTime,        \* bound of the clock
    Faults          \* which of "network", "clock" and "crash" may happen

ASSUME ConstantsAssumption ==
    /\ Reporters \subseteq {"action-engine", "policy-engine", "client"}
    /\ IsFiniteSet(Entries)
    /\ Limit \in Nat \ {0}
    /\ Retention \in Nat
    /\ MaxTime \in Nat
    /\ Faults \subseteq {"network", "clock", "crash"}

VARIABLES
    logs,           \* LogStore.logs, in the order of the calls
    timestamp, previous_hash, hash,     \* the fields of each entry
    last_hash,      \* LogStore.last_hash
    history,        \* every entry stored since the process started (history)
    reported,       \* the events the services reported (history)
    clock,          \* datetime.utcnow()
    pc, offset,     \* where each reader is in its pages
    wanted, seen    \* what was stored when it began, what it was shown (history)

store   == <<logs, timestamp, previous_hash, hash, last_hash, history>>
readers == <<pc, offset, wanted, seen>>
vars    == <<store, reported, clock, readers>>

Elements(s) == {s[i] : i \in DOMAIN s}

(* sha256 is injective: a hash is what it was calculated from, an entry and   *)
(* the entry that its link names, if the link was set by then.                *)
Hash(e, linked) == <<e, linked>>
Hashes          == Entries \X (Entries \cup {NoHash})

TypeOK ==
    /\ logs \in Seq(Entries)
    /\ timestamp \in [Entries -> 0..MaxTime]
    /\ previous_hash \in [Entries -> Hashes \cup {NoHash}]
    /\ hash \in [Entries -> Hashes \cup {NoHash}]
    /\ last_hash \in Hashes \cup {NoHash}
    /\ history \in Seq(Entries)
    /\ reported \subseteq Entries
    /\ clock \in 0..MaxTime
    /\ pc \in [Readers -> {"idle", "reading", "done"}]
    /\ offset \in [Readers -> Nat]
    /\ wanted \in [Readers -> SUBSET Entries]
    /\ seen \in [Readers -> SUBSET Entries]

Init ==
    /\ logs = <<>>
    /\ timestamp = [e \in Entries |-> 0]
    /\ previous_hash = [e \in Entries |-> NoHash]
    /\ hash = [e \in Entries |-> NoHash]
    /\ last_hash = NoHash
    /\ history = <<>>
    /\ reported = {}
    /\ clock = 0
    /\ pc = [r \in Readers |-> "idle"]
    /\ offset = [r \in Readers |-> 0]
    /\ wanted = [r \in Readers |-> {}]
    /\ seen = [r \in Readers |-> {}]

-----------------------------------------------------------------------------
(* Logging. *)

(* The fields AuditLogRequest requires, and those each reporter sends.        *)
Required == {"user_id", "action", "resource_type", "service"}
Sent(s) ==
    CASE s = "action-engine" -> {"action_id", "user_id", "action", "service",
                                 "details", "timestamp"}
      [] s = "policy-engine" -> {"approval_id", "user_id", "action", "service",
                                 "details", "timestamp"}
      [] OTHER               -> Required

(* Mutant: the entry is stored before its link is set. *)
LogEventStoredFirst(s, e) ==
    /\ e \notin reported
    /\ Required \subseteq Sent(s)
    /\ reported' = reported \cup {e}
    /\ timestamp' = [timestamp EXCEPT ![e] = clock]
    /\ hash' = [hash EXCEPT ![e] = Hash(e, NoHash)]
    /\ logs' = Append(logs, e)
    /\ last_hash' = hash'[e]
    /\ previous_hash' = [previous_hash EXCEPT ![e] = last_hash']
    /\ history' = Append(history, e)
    /\ UNCHANGED <<clock, readers>>

(* Mutant: the link is the identifier of the newest entry, not its hash. *)
LogEventLinksId(s, e) ==
    /\ e \notin reported
    /\ Required \subseteq Sent(s)
    /\ reported' = reported \cup {e}
    /\ timestamp' = [timestamp EXCEPT ![e] = clock]
    /\ hash' = [hash EXCEPT ![e] = Hash(e, NoHash)]
    /\ previous_hash' = [previous_hash EXCEPT ![e] =
                           IF logs = <<>> THEN NoHash ELSE logs[Len(logs)]]
    /\ logs' = Append(logs, e)
    /\ last_hash' = hash'[e]
    /\ history' = Append(history, e)
    /\ UNCHANGED <<clock, readers>>

(* POST /audit/log: the hash is calculated when previous_hash is still None,  *)
(* then the link is set and the entry is stored.  No property depends on that *)
(* order: ChainFollowsHistory is about the links, not about verify_hash.      *)
LogEvent(s, e) ==
    /\ e \notin reported
    /\ Required \subseteq Sent(s)
    /\ reported' = reported \cup {e}
    /\ timestamp' = [timestamp EXCEPT ![e] = clock]
    /\ hash' = [hash EXCEPT ![e] = Hash(e, NoHash)]
    /\ previous_hash' = [previous_hash EXCEPT ![e] = last_hash]
    /\ logs' = Append(logs, e)
    /\ last_hash' = hash'[e]
    /\ history' = Append(history, e)
    /\ UNCHANGED <<clock, readers>>

(* The request is answered 422, or the service cannot be reached: the         *)
(* reporter goes on in either case.                                           *)
DropEvent(s, e) ==
    /\ e \notin reported
    /\ ~(Required \subseteq Sent(s)) \/ "network" \in Faults
    /\ reported' = reported \cup {e}
    /\ UNCHANGED <<store, clock, readers>>

-----------------------------------------------------------------------------
(* The store. *)

(* log.timestamp >= cutoff *)
Kept(e) == clock <= timestamp[e] + Retention

(* cleanup_old_logs, which the store offers and nothing in the repository     *)
(* calls: the entries are kept until the process ends.  It is modelled as an  *)
(* operation that may be called at any time, for the day when something does. *)
CleanupOldLogs ==
    /\ logs' = Keep(logs, {i \in DOMAIN logs : Kept(logs[i])})
    /\ UNCHANGED <<timestamp, previous_hash, hash, last_hash, history,
                   reported, clock, readers>>

(* Mutant: the oldest entry comes first. *)
ComesFirstAscending(i, j) ==
    \/ timestamp[logs[i]] < timestamp[logs[j]]
    \/ timestamp[logs[i]] = timestamp[logs[j]] /\ i < j

(* The order of a query: by timestamp, descending; the sort is stable.        *)
ComesFirst(i, j) ==
    \/ timestamp[logs[i]] > timestamp[logs[j]]
    \/ timestamp[logs[i]] = timestamp[logs[j]] /\ i < j

Rank(i) == Cardinality({j \in DOMAIN logs : ComesFirst(j, i)})

Sorted == [k \in DOMAIN logs |-> logs[CHOOSE i \in DOMAIN logs : Rank(i) = k - 1]]

(* results[offset : offset + limit] *)
Page(from) ==
    SubSeq(Sorted, from + 1, IF from + Limit < Len(logs) THEN from + Limit ELSE Len(logs))

(* A reader begins, and asks for one page after the other until one is not    *)
(* full.                                                                      *)
StartReading(r) ==
    /\ pc[r] = "idle"
    /\ pc' = [pc EXCEPT ![r] = "reading"]
    /\ wanted' = [wanted EXCEPT ![r] = Elements(logs)]
    /\ UNCHANGED <<store, reported, clock, offset, seen>>

ReadPage(r) ==
    /\ pc[r] = "reading"
    /\ seen' = [seen EXCEPT ![r] = @ \cup Elements(Page(offset[r]))]
    /\ offset' = [offset EXCEPT ![r] = @ + Limit]
    /\ pc' = [pc EXCEPT ![r] = IF Len(Page(offset[r])) < Limit THEN "done" ELSE @]
    /\ UNCHANGED <<store, reported, clock, wanted>>

-----------------------------------------------------------------------------
(* The environment. *)

Tick ==
    /\ clock < MaxTime
    /\ clock' = clock + 1
    /\ UNCHANGED <<store, reported, readers>>

(* The clock of the machine is set back. *)
StepBack ==
    /\ "clock" \in Faults
    /\ clock > 0
    /\ clock' = clock - 1
    /\ UNCHANGED <<store, reported, readers>>

(* The process restarts with an empty store and no last hash. *)
Restart ==
    /\ "crash" \in Faults
    /\ logs' = <<>>
    /\ history' = <<>>
    /\ last_hash' = NoHash
    /\ UNCHANGED <<timestamp, previous_hash, hash, reported, clock, readers>>

Next ==
    \/ \E s \in Reporters, e \in Entries : LogEvent(s, e) \/ DropEvent(s, e)
    \/ \E r \in Readers : StartReading(r) \/ ReadPage(r)
    \/ CleanupOldLogs \/ Tick \/ StepBack \/ Restart

Spec == Init /\ [][Next]_vars
-----------------------------------------------------------------------------
(* What holds. *)

(* The links follow the order in which the entries were logged: each entry    *)
(* links to the one that this process logged before it, the first to none,    *)
(* and last_hash is that of the newest, also when the retention has removed   *)
(* it or the clock was set back.                                              *)
ChainFollowsHistory ==
    /\ \A i \in DOMAIN history :
         previous_hash[history[i]] = IF i = 1 THEN NoHash ELSE hash[history[i - 1]]
    /\ last_hash = IF history = <<>> THEN NoHash ELSE hash[history[Len(history)]]

(* Unless the clock was set back between two entries, the retention, if it is *)
(* ever called, removes the oldest entries and leaves no hole: the store is   *)
(* the newest part of the history, so every stored entry but the first finds  *)
(* its predecessor there.                                                     *)
InOrder == \A i, j \in DOMAIN history :
               i < j => timestamp[history[i]] <= timestamp[history[j]]
StoreIsRecent ==
    InOrder => \E k \in 0..Len(history) : logs = SubSeq(history, k + 1, Len(history))

(* A reader that pages through the log of one process misses nothing that was *)
(* stored when it began and still is, although entries are logged and removed *)
(* between its pages and the clock may step back.                             *)
PagingSkipsNothing ==
    \A r \in Readers : pc[r] = "done" => wanted[r] \cap Elements(logs) \subseteq seen[r]
=============================================================================
