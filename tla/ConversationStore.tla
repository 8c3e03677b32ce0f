------------------------- MODULE ConversationStore -------------------------
(***************************************************************************)
(* The conversations of the AI router (ConversationManager in services/    *)
(* ai-router/conversation_manager.py): a row of PostgreSQL holds the       *)
(* messages of a conversation, a Redis key with a time to live holds a     *)
(* copy.  POST /query (main.py) looks the conversation up, waits for the   *)
(* model, and adds the question and the answer; every call of a store is a *)
(* step, and the steps of other handlers come between.                     *)
(***************************************************************************)
EXTENDS Naturals, Sequences

CONSTANTS
    Conversations,          \* conversation identifiers (uuid4, never reused)
    Queries,                \* requests of POST /query, as many as are told apart
    Clients,                \* callers of the other endpoints, one call at a time
    MaxConversationHistory  \* settings.max_conversation_history

ASSUME ConstantsAssumption ==
    /\ Queries \cap Clients = {}
    /\ Conversations # {}
    /\ MaxConversationHistory \in Nat \ {0}

VARIABLES
    row,        \* the table: state and messages of each conversation
    cached,     \* the Redis key of each conversation: is it there, its messages
    pc,         \* the call of a store each handler is about to make
    op,         \* what the handler does with the conversation it reads
    conv,       \* which conversation that is
    list,       \* the messages the handler holds
    disturbed   \* conversations of which two handlers held the messages at one
                \* time, or one failed between its two writes (history)

stores   == <<row, cached>>
handlers == <<pc, op, conv, list>>
vars     == <<stores, handlers, disturbed>>

Handlers == Queries \cup Clients
Message  == [query : Queries, role : {"user", "assistant"}]
Limit    == 2 * MaxConversationHistory

Histories == {s \in Seq(Message) : Len(s) <= Limit}

Row    == [state : {"unused", "stored", "deleted"}, messages : Histories]
Copy   == [hit : BOOLEAN, messages : Histories]
Calls  == {"idle", "get", "select", "refill", "insert", "seed", "think",
           "update", "setex", "find", "drop", "forget"}
Duties == {"lookup", "user", "assistant", "read", "create", "delete"}

TypeOK ==
    /\ row \in [Conversations -> Row]
    /\ cached \in [Conversations -> Copy]
    /\ pc \in [Handlers -> Calls]
    /\ op \in [Handlers -> Duties]
    /\ conv \in [Handlers -> Conversations]
    /\ list \in [Handlers -> Histories]
    /\ disturbed \subseteq Conversations

Missing == [hit |-> FALSE, messages |-> <<>>]

Init ==
    /\ row = [c \in Conversations |-> [state |-> "unused", messages |-> <<>>]]
    /\ cached = [c \in Conversations |-> Missing]
    /\ pc = [h \in Handlers |-> "idle"]
    /\ op = [h \in Handlers |-> IF h \in Queries THEN "lookup" ELSE "read"]
    /\ conv = [h \in Handlers |-> CHOOSE c \in Conversations : TRUE]
    /\ list = [h \in Handlers |-> <<>>]
    /\ disturbed = {}

-----------------------------------------------------------------------------
(* Mutant: the limit on the history is not applied. *)
RecentAll(messages) == messages

(* messages[-max_messages:] *)
Recent(messages) ==
    IF Len(messages) > Limit
    THEN SubSeq(messages, Len(messages) - Limit + 1, Len(messages))
    ELSE messages

(* The handler goes to the next call with these messages in hand. *)
Goto(h, next, messages) ==
    /\ pc' = [pc EXCEPT ![h] = next]
    /\ list' = [list EXCEPT ![h] = messages]

SetCache(c, messages) == cached' = [cached EXCEPT ![c] = [hit |-> TRUE, messages |-> messages]]

(* No trace is left of what the query said. *)
Unseen(q) ==
    LET In(s) == \E i \in 1..Len(s) : s[i].query = q IN
    /\ \A c \in Conversations : ~In(row[c].messages) /\ ~In(cached[c].messages)
    /\ \A h \in Handlers : ~In(list[h])

(* A query names a conversation it has heard of, or none.  There is no end of *)
(* them: the name of a query that left no trace is taken for another one, so  *)
(* that any number of them is made with finitely many names.                  *)
StartQuery(q) ==
    /\ q \in Queries
    /\ pc[q] = "idle"
    /\ Unseen(q)
    /\ op' = [op EXCEPT ![q] = "lookup"]
    /\ \/ \E c \in Conversations :
             /\ row[c].state # "unused"
             /\ conv' = [conv EXCEPT ![q] = c]
             /\ pc' = [pc EXCEPT ![q] = "get"]
       \/ /\ pc' = [pc EXCEPT ![q] = "insert"]
          /\ UNCHANGED conv
    /\ UNCHANGED <<stores, list>>

(* POST, GET and DELETE of /conversations. *)
StartCall(k, kind, c) ==
    /\ k \in Clients
    /\ pc[k] = "idle"
    /\ kind = "create" \/ row[c].state # "unused"
    /\ op' = [op EXCEPT ![k] = kind]
    /\ conv' = [conv EXCEPT ![k] = c]
    /\ pc' = [pc EXCEPT ![k] = CASE kind = "read"   -> "get"
                                 [] kind = "create" -> "insert"
                                 [] OTHER           -> "find"]
    /\ UNCHANGED <<stores, list>>

(* What the caller of get_conversation does with its result: process_query    *)
(* calls the model, GET answers, add_message appends and truncates.           *)
Found(h, messages) ==
    CASE op[h] = "lookup" -> Goto(h, "think", <<>>)
      [] op[h] = "read"   -> Goto(h, "idle", <<>>)
      [] OTHER            -> Goto(h, "update",
                                  Recent(Append(messages, [query |-> h, role |-> op[h]])))

(* Mutant: on a miss add_message starts from an empty conversation. *)
GetStartsAnew(h) ==
    /\ pc[h] = "get"
    /\ \/ cached[conv[h]].hit /\ Found(h, cached[conv[h]].messages)
       \/ ~cached[conv[h]].hit /\ op[h] = "assistant" /\ Found(h, <<>>)
       \/ ~cached[conv[h]].hit /\ op[h] # "assistant" /\ Goto(h, "select", <<>>)
    /\ UNCHANGED <<stores, op, conv>>

(* get_conversation: the GET. *)
Get(h) ==
    /\ pc[h] = "get"
    /\ \/ cached[conv[h]].hit /\ Found(h, cached[conv[h]].messages)
       \/ ~cached[conv[h]].hit /\ Goto(h, "select", <<>>)
    /\ UNCHANGED <<stores, op, conv>>

(* Mutant: rows are deleted by a mark, and the SELECT does not look at it. *)
SelectMarked(h) ==
    /\ pc[h] = "select"
    /\ Goto(h, "refill", row[conv[h]].messages)
    /\ UNCHANGED <<stores, op, conv>>

(* Mutant: add_message starts a conversation that has no row anew. *)
SelectAnew(h) ==
    /\ pc[h] = "select"
    /\ IF row[conv[h]].state = "stored"
       THEN Goto(h, "refill", row[conv[h]].messages)
       ELSE \/ op[h] \in {"user", "assistant"} /\ Found(h, <<>>)
            \/ op[h] = "lookup" /\ Goto(h, "insert", <<>>)
            \/ op[h] = "read" /\ Goto(h, "idle", <<>>)
    /\ UNCHANGED <<stores, op, conv>>

(* get_conversation: the SELECT.  No row: get_or_create makes another         *)
(* conversation, add_message raises, GET answers 404.                         *)
Select(h) ==
    /\ pc[h] = "select"
    /\ IF row[conv[h]].state = "stored"
       THEN Goto(h, "refill", row[conv[h]].messages)
       ELSE Goto(h, IF op[h] = "lookup" THEN "insert" ELSE "idle", <<>>)
    /\ UNCHANGED <<stores, op, conv>>

(* get_conversation: the SETEX after a miss. *)
Refill(h) ==
    /\ pc[h] = "refill"
    /\ SetCache(conv[h], list[h])
    /\ Found(h, list[h])
    /\ UNCHANGED <<row, op, conv>>

(* create_conversation: the INSERT, under an identifier never used before     *)
(* (the bound of the instance is their number).                               *)
Insert(h) ==
    /\ pc[h] = "insert"
    /\ \E c \in Conversations :
          /\ row[c].state = "unused"
          /\ row' = [row EXCEPT ![c] = [state |-> "stored", messages |-> <<>>]]
          /\ conv' = [conv EXCEPT ![h] = c]
    /\ Goto(h, "seed", <<>>)
    /\ UNCHANGED <<cached, op>>

(* create_conversation: the SETEX. *)
Seed(h) ==
    /\ pc[h] = "seed"
    /\ SetCache(conv[h], list[h])
    /\ Goto(h, IF op[h] = "lookup" THEN "think" ELSE "idle", <<>>)
    /\ UNCHANGED <<row, op, conv>>

(* The model has answered: process_query adds the question. *)
ModelAnswers(q) ==
    /\ pc[q] = "think"
    /\ op' = [op EXCEPT ![q] = "user"]
    /\ pc' = [pc EXCEPT ![q] = "get"]
    /\ UNCHANGED <<stores, conv, list>>

(* Mutant: a row without messages counts as no row. *)
UpdateNonEmpty(h) ==
    /\ pc[h] = "update"
    /\ row' = [row EXCEPT ![conv[h]].messages = IF row[conv[h]].messages = <<>> THEN @ ELSE list[h]]
    /\ Goto(h, "setex", list[h])
    /\ UNCHANGED <<cached, op, conv>>

(* add_message: the UPDATE, which matches no row when there is none. *)
Update(h) ==
    /\ pc[h] = "update"
    /\ row' = [row EXCEPT ![conv[h]].messages =
                 IF row[conv[h]].state = "stored" THEN list[h] ELSE @]
    /\ Goto(h, "setex", list[h])
    /\ UNCHANGED <<cached, op, conv>>

(* add_message: the SETEX.  After the question, process_query adds the answer. *)
SetEx(h) ==
    /\ pc[h] = "setex"
    /\ SetCache(conv[h], list[h])
    /\ op' = [op EXCEPT ![h] = "assistant"]
    /\ Goto(h, IF op[h] = "user" THEN "get" ELSE "idle", <<>>)
    /\ UNCHANGED <<row, conv>>

(* delete_conversation: the SELECT, the DELETE with its commit, the DEL. *)
Find(k) ==
    /\ pc[k] = "find"
    /\ Goto(k, IF row[conv[k]].state = "stored" THEN "drop" ELSE "idle", <<>>)
    /\ UNCHANGED <<stores, op, conv>>

Drop(k) ==
    /\ pc[k] = "drop"
    /\ row' = [row EXCEPT ![conv[k]] = [state |-> "deleted", messages |-> <<>>]]
    /\ Goto(k, "forget", <<>>)
    /\ UNCHANGED <<cached, op, conv>>

Forget(k) ==
    /\ pc[k] = "forget"
    /\ cached' = [cached EXCEPT ![conv[k]] = Missing]
    /\ Goto(k, "idle", <<>>)
    /\ UNCHANGED <<row, op, conv>>

(* Mutant: a call that fails is made again from its start. *)
FailsRetried(h) ==
    /\ pc[h] # "idle"
    /\ Goto(h, IF pc[h] = "setex" THEN "get" ELSE "idle", <<>>)
    /\ UNCHANGED <<stores, op, conv>>

(* A store, the model or the process fails: the call ends where it is. *)
Fails(h) ==
    /\ pc[h] # "idle"
    /\ Goto(h, "idle", <<>>)
    /\ UNCHANGED <<stores, op, conv>>

(* Redis: the time to live ends. *)
Expire(c) ==
    /\ cached[c].hit
    /\ cached' = [cached EXCEPT ![c] = Missing]
    /\ UNCHANGED <<row, handlers>>

-----------------------------------------------------------------------------
(* Between reading the messages of a conversation and writing its key. *)
Holds(h, c) == conv[h] = c /\ pc[h] \in {"refill", "seed", "update", "setex"}

Overlap(c) == \E g, h \in Handlers : g # h /\ Holds(g, c) /\ Holds(h, c)

(* A handler leaves add_message after its UPDATE without having written the key. *)
BrokenOff(c) ==
    \E h \in Handlers : conv[h] = c /\ pc[h] = "setex" /\ pc'[h] # "setex" /\ UNCHANGED cached

Observe == disturbed' = disturbed \cup {c \in Conversations : Overlap(c)' \/ BrokenOff(c)}

Step(h) ==
    \/ Get(h) \/ Select(h) \/ Refill(h) \/ Insert(h) \/ Seed(h)
    \/ ModelAnswers(h) \/ Update(h) \/ SetEx(h)
    \/ Find(h) \/ Drop(h) \/ Forget(h)

Moves ==
    \/ \E q \in Queries : StartQuery(q)
    \/ \E k \in Clients, kind \in {"read", "create", "delete"}, c \in Conversations :
          StartCall(k, kind, c)
    \/ \E h \in Handlers : Step(h) \/ Fails(h)
    \/ \E c \in Conversations : Expire(c)

Next == Moves /\ Observe

(* A key is removed when its time to live has passed since it was last set.   *)
(* Nothing is assumed of the handlers: any call may hang.                     *)
Fairness == \A c \in Conversations : WF_vars(Expire(c) /\ Observe)

Spec     == Init /\ [][Next]_vars
FairSpec == Spec /\ Fairness

-----------------------------------------------------------------------------
(* What holds. *)

WellFormed(s) ==
    \A i, j \in 1..Len(s) :
        i < j /\ s[i].query = s[j].query => s[i].role = "user" /\ s[j].role = "assistant"

(* However the handlers overlap and fail, no message is stored twice and no    *)
(* answer before its question, in the row or in its copy (add_message).        *)
HistoryWellFormed ==
    \A c \in Conversations : WellFormed(row[c].messages) /\ WellFormed(cached[c].messages)

(* The key agrees with the row except while a handler is between its two       *)
(* writes, unless two handlers held the messages at one time or one broke off  *)
(* between them: add_message writes what it has read, plus one, over both.     *)
CacheIsCurrent ==
    \A c \in Conversations \ disturbed :
        /\ row[c].state = "stored"
        /\ cached[c].hit
        /\ ~ \E h \in Handlers : conv[h] = c /\ pc[h] = "setex"
        => cached[c].messages = row[c].messages

(* A message leaves the row only when the limit pushes it out or its row is    *)
(* deleted, unless two handlers held the messages at one time or one broke off:*)
(* these are the two ways in which add_message loses what was answered.        *)
AppendsOnly ==
    [][\A c \in Conversations \ disturbed' :
          row[c].state = "stored" /\ row'[c].state = "stored" /\ row'[c] # row[c]
          => \E m \in Message : row'[c].messages = Recent(Append(row[c].messages, m))]_vars

(* A conversation without a row comes back to Redis only by the hands of a    *)
(* handler that had read it before: once it is gone, and nobody holds it, no   *)
(* query, read or deletion that still names it writes its key again.          *)
GoneStaysGone ==
    \A c \in Conversations :
        []( /\ row[c].state = "deleted" /\ ~cached[c].hit
            /\ ~ \E h \in Handlers : Holds(h, c)
            => [](~cached[c].hit) )

(* A deletion that overlaps a refill or a message, or fails before the DEL,    *)
(* leaves the key, and each query that finds it sets it for another day.      *)
(* When no query is made on the deleted conversation any more it is finally   *)
(* gone, however often it is read or deleted: a read does not renew the key.  *)
Queried(c) == \E q \in Queries : conv[q] = c /\ pc[q] # "idle"

DeletedIsForgotten ==
    \A c \in Conversations :
        <>[](~Queried(c)) => (row[c].state = "deleted" ~> [](~cached[c].hit))

=============================================================================
