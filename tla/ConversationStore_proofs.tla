---------------------- MODULE ConversationStore_proofs ----------------------
(***************************************************************************)
(* Proofs about ConversationStore, for any conversations, queries, clients *)
(* and limit: the row and its copy agree and lose nothing while no two     *)
(* handlers overlap, no history repeats or reorders a query, and a         *)
(* conversation that is gone stays gone.                                   *)
(***************************************************************************)
EXTENDS ConversationStore, SequenceTheorems, TLAPS

-----------------------------------------------------------------------------
(* Recent.                                                                    *)

LEMMA LimitType == Limit \in Nat /\ Limit >= 2
BY ConstantsAssumption DEF Limit

LEMMA EmptyHistory == <<>> \in Histories
BY LimitType DEF Histories

(* Recent drops the first k messages, for some k. *)
LEMMA RecentDrops ==
    ASSUME NEW s \in Seq(Message)
    PROVE  /\ Recent(s) \in Histories
           /\ \E k \in 0..Len(s) :
                 /\ Len(Recent(s)) = Len(s) - k
                 /\ \A i \in 1..Len(Recent(s)) : Recent(s)[i] = s[i + k]
<1>1. CASE Len(s) <= Limit
  <2>1. Recent(s) = s
    BY <1>1, LimitType DEF Recent
  <2>2. /\ 0 \in 0..Len(s)
        /\ Len(Recent(s)) = Len(s) - 0
        /\ \A i \in 1..Len(Recent(s)) : Recent(s)[i] = s[i + 0]
    <3>1. Len(s) \in Nat
      OBVIOUS
    <3>2. \A i \in 1..Len(s) : i + 0 = i
      BY <3>1
    <3>3. QED
      BY <2>1, <3>1, <3>2
  <2>3. Recent(s) \in Histories
    BY <1>1, <2>1 DEF Histories
  <2>4. QED
    BY <2>2, <2>3
<1>2. CASE Len(s) > Limit
  <2> DEFINE k == Len(s) - Limit
  <2>1. k \in 0..Len(s) /\ k + 1 \in Int /\ Len(s) \in Int /\ Limit \in Nat
    BY <1>2, LimitType
  <2>2. \A i \in (k + 1)..Len(s) : s[i] \in Message
    BY <2>1, ElementOfSeq
  <2>3. Recent(s) = SubSeq(s, k + 1, Len(s))
    BY <1>2 DEF Recent
  <2> HIDE DEF k
  <2>4. /\ SubSeq(s, k + 1, Len(s)) \in Seq(Message)
        /\ Len(SubSeq(s, k + 1, Len(s)))
           = IF k + 1 <= Len(s) THEN Len(s) - (k + 1) + 1 ELSE 0
        /\ \A i \in 1..(Len(s) - (k + 1) + 1) : SubSeq(s, k + 1, Len(s))[i] = s[(k + 1) + i - 1]
    BY <2>1, <2>2, SubSeqProperties
  <2>5. Len(Recent(s)) = Len(s) - k
    BY <2>1, <2>3, <2>4
  <2>6. \A i \in 1..Len(Recent(s)) : Recent(s)[i] = s[i + k]
    <3>1. ASSUME NEW i \in 1..Len(Recent(s))
          PROVE  Recent(s)[i] = s[i + k]
      <4>1. i \in 1..(Len(s) - (k + 1) + 1) /\ (k + 1) + i - 1 = i + k
        BY <2>1, <2>5
      <4>2. QED
        BY <2>3, <2>4, <4>1
    <3>2. QED
      BY <3>1
  <2>7. Recent(s) \in Histories
    BY <2>1, <2>3, <2>4, <2>5, <1>2, LimitType DEF Histories, k
  <2>8. QED
    BY <2>1, <2>5, <2>6, <2>7
<1>3. QED
  BY <1>1, <1>2, LimitType

LEMMA AppendKeeps ==
    ASSUME NEW s \in Histories, NEW m \in Message
    PROVE  Recent(Append(s, m)) \in Histories
<1>1. Append(s, m) \in Seq(Message)
  BY DEF Histories
<1>2. QED
  BY <1>1, RecentDrops

-----------------------------------------------------------------------------
(* Types, and which call belongs to which duty.                               *)

Typed ==
    /\ row \in [Conversations -> Row]
    /\ cached \in [Conversations -> Copy]
    /\ pc \in [Handlers -> Calls]
    /\ op \in [Handlers -> Duties]
    /\ conv \in [Handlers -> Conversations]
    /\ list \in [Handlers -> Histories]

OnDuty(h) ==
    /\ h \in Queries =>
          \/ op[h] = "lookup" /\ pc[h] \in {"idle", "get", "select", "refill", "insert",
                                            "seed", "think"}
          \/ /\ op[h] \in {"user", "assistant"}
             /\ pc[h] \in {"idle", "get", "select", "refill", "update", "setex"}
    /\ h \in Clients =>
          \/ op[h] = "read"   /\ pc[h] \in {"idle", "get", "select", "refill"}
          \/ op[h] = "create" /\ pc[h] \in {"idle", "insert", "seed"}
          \/ op[h] = "delete" /\ pc[h] \in {"idle", "find", "drop", "forget"}

TInv == Typed /\ \A h \in Handlers : OnDuty(h)

LEMMA InitTInv == Init => TypeOK /\ TInv
<1> SUFFICES ASSUME Init PROVE TypeOK /\ TInv
  OBVIOUS
<1>1. (CHOOSE c \in Conversations : TRUE) \in Conversations
  BY ConstantsAssumption
<1>2. Typed
  BY <1>1, EmptyHistory DEF Init, Typed, Row, Copy, Missing, Calls, Duties
<1>3. \A h \in Handlers : OnDuty(h)
  BY ConstantsAssumption DEF Init, OnDuty, Handlers
<1>4. QED
  BY <1>2, <1>3 DEF TypeOK, TInv, Typed, Init

(* The effect of Goto. *)
LEMMA GotoEffect ==
    ASSUME Typed, NEW h \in Handlers, NEW next \in Calls, NEW m \in Histories, Goto(h, next, m)
    PROVE  /\ pc' \in [Handlers -> Calls] /\ list' \in [Handlers -> Histories]
           /\ pc'[h] = next /\ list'[h] = m
           /\ \A g \in Handlers \ {h} : pc'[g] = pc[g] /\ list'[g] = list[g]
BY DEF Typed, Goto

LEMMA OthersOnDuty ==
    ASSUME NEW h \in Handlers, \A g \in Handlers : OnDuty(g),
           \A g \in Handlers \ {h} : pc'[g] = pc[g] /\ op'[g] = op[g],
           OnDuty(h)'
    PROVE  \A g \in Handlers : OnDuty(g)'
<1> TAKE g \in Handlers
<1>1. CASE g = h
  BY <1>1
<1>2. CASE g # h
  BY <1>2 DEF OnDuty
<1>3. QED
  BY <1>1, <1>2

(* Where get_conversation returns to. *)
Returns(h, messages, next, kept) ==
    \/ h \in Queries /\ op[h] = "lookup" /\ next = "think" /\ kept = <<>>
    \/ h \in Clients /\ op[h] = "read" /\ next = "idle" /\ kept = <<>>
    \/ /\ h \in Queries /\ op[h] \in {"user", "assistant"} /\ next = "update"
       /\ kept = Recent(Append(messages, [query |-> h, role |-> op[h]]))

LEMMA FoundReturns ==
    ASSUME TInv, NEW h \in Handlers, pc[h] \in {"get", "refill"},
           NEW messages \in Histories, Found(h, messages)
    PROVE  \E next \in Calls, kept \in Histories :
              Goto(h, next, kept) /\ Returns(h, messages, next, kept)
<1>1. CASE op[h] \in {"lookup", "read"}
  BY <1>1, EmptyHistory, ConstantsAssumption DEF TInv, OnDuty, Found, Returns, Calls, Handlers
<1>2. CASE op[h] \in {"user", "assistant"}
  <2>1. h \in Queries
    BY <1>2, ConstantsAssumption DEF TInv, OnDuty, Handlers
  <2>2. [query |-> h, role |-> op[h]] \in Message
    BY <1>2, <2>1 DEF Message
  <2>3. Goto(h, "update", Recent(Append(messages, [query |-> h, role |-> op[h]])))
    BY <1>2 DEF Found
  <2>4. QED
    BY <1>2, <2>1, <2>2, <2>3, AppendKeeps DEF Returns, Calls
<1>3. QED
  BY <1>1, <1>2, ConstantsAssumption DEF TInv, OnDuty, Handlers

(* What each call of a store or of the model does, with the handler's next    *)
(* call and messages named.                                                   *)
Effect(h, next, kept) ==
    \/ /\ pc[h] = "get" /\ cached[conv[h]].hit
       /\ Returns(h, cached[conv[h]].messages, next, kept)
       /\ UNCHANGED <<stores, op, conv>>
    \/ /\ pc[h] = "get" /\ next = "select" /\ kept = <<>>
       /\ UNCHANGED <<stores, op, conv>>
    \/ /\ pc[h] = "select" /\ row[conv[h]].state = "stored"
       /\ next = "refill" /\ kept = row[conv[h]].messages
       /\ UNCHANGED <<stores, op, conv>>
    \/ /\ pc[h] = "select" /\ row[conv[h]].state # "stored"
       /\ next = (IF op[h] = "lookup" THEN "insert" ELSE "idle") /\ kept = <<>>
       /\ UNCHANGED <<stores, op, conv>>
    \/ /\ pc[h] = "refill"
       /\ SetCache(conv[h], list[h])
       /\ Returns(h, list[h], next, kept)
       /\ UNCHANGED <<row, op, conv>>
    \/ /\ pc[h] = "insert" /\ next = "seed" /\ kept = <<>>
       /\ \E c \in Conversations :
             /\ row[c].state = "unused"
             /\ row' = [row EXCEPT ![c] = [state |-> "stored", messages |-> <<>>]]
             /\ conv' = [conv EXCEPT ![h] = c]
       /\ UNCHANGED <<cached, op>>
    \/ /\ pc[h] = "seed" /\ next = (IF op[h] = "lookup" THEN "think" ELSE "idle") /\ kept = <<>>
       /\ SetCache(conv[h], list[h])
       /\ UNCHANGED <<row, op, conv>>
    \/ /\ pc[h] = "think" /\ next = "get" /\ kept = list[h]
       /\ op' = [op EXCEPT ![h] = "user"]
       /\ UNCHANGED <<stores, conv>>
    \/ /\ pc[h] = "update" /\ next = "setex" /\ kept = list[h]
       /\ row' = [row EXCEPT ![conv[h]].messages =
                    IF row[conv[h]].state = "stored" THEN list[h] ELSE @]
       /\ UNCHANGED <<cached, op, conv>>
    \/ /\ pc[h] = "setex" /\ next = (IF op[h] = "user" THEN "get" ELSE "idle") /\ kept = <<>>
       /\ SetCache(conv[h], list[h])
       /\ op' = [op EXCEPT ![h] = "assistant"]
       /\ UNCHANGED <<row, conv>>
    \/ /\ pc[h] = "find" /\ next \in {"drop", "idle"} /\ kept = <<>>
       /\ UNCHANGED <<stores, op, conv>>
    \/ /\ pc[h] = "drop" /\ next = "forget" /\ kept = <<>>
       /\ row' = [row EXCEPT ![conv[h]] = [state |-> "deleted", messages |-> <<>>]]
       /\ UNCHANGED <<cached, op, conv>>
    \/ /\ pc[h] = "forget" /\ next = "idle" /\ kept = <<>>
       /\ cached' = [cached EXCEPT ![conv[h]] = Missing]
       /\ UNCHANGED <<row, op, conv>>
    \/ /\ pc[h] # "idle" /\ next = "idle" /\ kept = <<>>
       /\ UNCHANGED <<stores, op, conv>>

LEMMA StepEffect ==
    ASSUME TInv, NEW h \in Handlers, Step(h) \/ Fails(h)
    PROVE  \E next \in Calls, kept \in Histories : Goto(h, next, kept) /\ Effect(h, next, kept)
<1>0. /\ row[conv[h]] \in Row /\ cached[conv[h]] \in Copy /\ list[h] \in Histories
      /\ <<>> \in Histories /\ "idle" \in Calls
  BY EmptyHistory DEF TInv, Typed, Calls
<1>1. row[conv[h]].messages \in Histories /\ cached[conv[h]].messages \in Histories
  BY <1>0 DEF Row, Copy
<1>2. CASE Get(h)
  <2>1. CASE cached[conv[h]].hit /\ Found(h, cached[conv[h]].messages)
    BY <1>1, <1>2, <2>1, FoundReturns DEF Get, Effect
  <2>2. CASE Goto(h, "select", <<>>)
    BY <1>0, <1>2, <2>2 DEF Get, Effect, Calls
  <2>3. QED
    BY <1>2, <2>1, <2>2 DEF Get
<1>3. CASE Select(h)
  BY <1>0, <1>1, <1>3 DEF Select, Effect, Calls
<1>4. CASE Refill(h)
  BY <1>0, <1>4, FoundReturns DEF Refill, Effect
<1>5. CASE Insert(h)
  BY <1>0, <1>5 DEF Insert, Effect, Calls
<1>6. CASE Seed(h)
  BY <1>0, <1>6 DEF Seed, Effect, Calls
<1>7. CASE ModelAnswers(h)
  <2>1. list' = [list EXCEPT ![h] = list[h]]
    BY <1>7 DEF ModelAnswers, TInv, Typed
  <2>2. QED
    BY <1>0, <1>7, <2>1 DEF ModelAnswers, Goto, Effect, Calls
<1>8. CASE Update(h)
  BY <1>0, <1>8 DEF Update, Effect, Calls
<1>9. CASE SetEx(h)
  BY <1>0, <1>9 DEF SetEx, Effect, Calls
<1>10. CASE Find(h)
  BY <1>0, <1>10 DEF Find, Effect, Calls
<1>11. CASE Drop(h)
  BY <1>0, <1>11 DEF Drop, Effect, Calls
<1>12. CASE Forget(h)
  BY <1>0, <1>12 DEF Forget, Effect, Calls
<1>13. CASE Fails(h)
  BY <1>0, <1>13 DEF Fails, Effect
<1>14. QED
  BY <1>2, <1>3, <1>4, <1>5, <1>6, <1>7, <1>8, <1>9, <1>10, <1>11, <1>12, <1>13 DEF Step

LEMMA StepTInv ==
    ASSUME TInv, NEW h \in Handlers, Step(h) \/ Fails(h)
    PROVE  TInv'
<1>1. PICK next \in Calls, kept \in Histories : Goto(h, next, kept) /\ Effect(h, next, kept)
  BY StepEffect
<1>2. /\ pc' \in [Handlers -> Calls] /\ list' \in [Handlers -> Histories]
      /\ pc'[h] = next
      /\ \A g \in Handlers \ {h} : pc'[g] = pc[g]
  BY <1>1, GotoEffect DEF TInv
<1>3. Typed /\ OnDuty(h) /\ list[h] \in Histories /\ conv[h] \in Conversations
      /\ row[conv[h]] \in Row
  BY DEF TInv, Typed
<1>4. conv' \in [Handlers -> Conversations]
  BY <1>1, <1>3 DEF Effect, Typed
<1>5. op' \in [Handlers -> Duties] /\ \A g \in Handlers \ {h} : op'[g] = op[g]
  BY <1>1, <1>3 DEF Effect, Typed, Duties
<1>6. row' \in [Conversations -> Row]
  <2>1. ASSUME NEW c \in Conversations,
               row' = [row EXCEPT ![c] = [state |-> "stored", messages |-> <<>>]]
        PROVE  row' \in [Conversations -> Row]
    BY <1>3, <2>1, EmptyHistory DEF Typed, Row
  <2>2. ASSUME row' = [row EXCEPT ![conv[h]].messages =
                         IF row[conv[h]].state = "stored" THEN list[h] ELSE @]
        PROVE  row' \in [Conversations -> Row]
    <3>1. [row[conv[h]] EXCEPT !.messages = IF row[conv[h]].state = "stored" THEN list[h] ELSE @]
          \in Row
      BY <1>3 DEF Row
    <3>2. QED
      BY <1>3, <2>2, <3>1 DEF Typed
  <2>3. ASSUME row' = [row EXCEPT ![conv[h]] = [state |-> "deleted", messages |-> <<>>]]
        PROVE  row' \in [Conversations -> Row]
    BY <1>3, <2>3, EmptyHistory DEF Typed, Row
  <2>4. CASE UNCHANGED row
    BY <1>3, <2>4 DEF Typed
  <2>5. QED
    BY <1>1, <2>1, <2>2, <2>3, <2>4 DEF Effect, stores
<1>7. cached' \in [Conversations -> Copy]
  <2>1. CASE SetCache(conv[h], list[h])
    BY <1>3, <2>1 DEF SetCache, Typed, Copy
  <2>2. CASE cached' = [cached EXCEPT ![conv[h]] = Missing]
    BY <1>3, <2>2, EmptyHistory DEF Typed, Copy, Missing
  <2>3. CASE UNCHANGED cached
    BY <1>3, <2>3 DEF Typed
  <2>4. QED
    BY <1>1, <2>1, <2>2, <2>3 DEF Effect, stores
<1>8. OnDuty(h)'
  <2>1. op \in [Handlers -> Duties]
    BY <1>3 DEF Typed
  <2>2. h \in Queries \/ h \in Clients
    BY DEF Handlers
  <2>3. h \in Queries => h \notin Clients
    BY ConstantsAssumption
  <2>4. CASE h \in Queries
    BY <1>1, <1>2, <1>3, <2>1, <2>3, <2>4 DEF Effect, Returns, OnDuty, stores
  <2>5. CASE h \in Clients
    BY <1>1, <1>2, <1>3, <2>1, <2>3, <2>5 DEF Effect, Returns, OnDuty, stores
  <2>6. QED
    BY <2>2, <2>4, <2>5
<1>9. \A g \in Handlers : OnDuty(g)'
  BY <1>2, <1>5, <1>8, OthersOnDuty DEF TInv
<1>10. QED
  BY <1>2, <1>4, <1>5, <1>6, <1>7, <1>9 DEF TInv, Typed

(* The other steps: a call begins, a key expires, nothing happens. *)
Begins(h) ==
    \/ StartQuery(h)
    \/ \E kind \in {"read", "create", "delete"}, c \in Conversations : StartCall(h, kind, c)

(* A call that begins has nothing in hand and touches no store. *)
LEMMA BeginEffect ==
    ASSUME TInv, NEW h \in Handlers, Begins(h)
    PROVE  /\ pc[h] = "idle" /\ pc'[h] \in {"get", "insert", "find"}
           /\ \A g \in Handlers \ {h} : /\ pc'[g] = pc[g] /\ op'[g] = op[g]
                                        /\ conv'[g] = conv[g]
           /\ h \in Queries => op'[h] = "lookup" /\ Unseen(h)
           /\ UNCHANGED <<stores, list>>
           /\ pc'[h] # "insert" => row[conv'[h]].state # "unused"
           /\ TInv'
<1> USE DEF TInv, Typed
<1>1. CASE StartQuery(h)
  <2>1. h \in Queries /\ h \notin Clients
    BY <1>1, ConstantsAssumption DEF StartQuery
  <2>2. /\ pc' \in [Handlers -> Calls] /\ conv' \in [Handlers -> Conversations]
        /\ op' \in [Handlers -> Duties] /\ op'[h] = "lookup" /\ Unseen(h)
        /\ UNCHANGED <<row, cached, list>>
        /\ pc[h] = "idle" /\ pc'[h] \in {"get", "insert"}
        /\ \A g \in Handlers \ {h} : pc'[g] = pc[g] /\ op'[g] = op[g] /\ conv'[g] = conv[g]
    BY <1>1 DEF StartQuery, stores, Calls, Duties
  <2>3. pc'[h] # "insert" => row[conv'[h]].state # "unused"
    BY <1>1 DEF StartQuery
  <2>4. OnDuty(h)'
    BY <2>1, <2>2 DEF OnDuty
  <2>5. \A g \in Handlers : OnDuty(g)'
    BY <2>2, <2>4, OthersOnDuty
  <2>6. QED
    BY <2>2, <2>3, <2>5 DEF stores
<1>2. ASSUME NEW kind \in {"read", "create", "delete"}, NEW c \in Conversations,
             StartCall(h, kind, c)
      PROVE  /\ pc[h] = "idle" /\ pc'[h] \in {"get", "insert", "find"}
             /\ \A g \in Handlers \ {h} : /\ pc'[g] = pc[g] /\ op'[g] = op[g]
                                          /\ conv'[g] = conv[g]
             /\ h \in Queries => op'[h] = "lookup" /\ Unseen(h)
             /\ UNCHANGED <<stores, list>>
             /\ pc'[h] # "insert" => row[conv'[h]].state # "unused"
             /\ TInv'
  <2>1. h \in Clients /\ h \notin Queries
    BY <1>2, ConstantsAssumption DEF StartCall
  <2>2. /\ pc' \in [Handlers -> Calls] /\ conv' \in [Handlers -> Conversations]
        /\ op' \in [Handlers -> Duties]
        /\ UNCHANGED <<row, cached, list>>
        /\ \A g \in Handlers \ {h} : pc'[g] = pc[g] /\ op'[g] = op[g] /\ conv'[g] = conv[g]
    BY <1>2 DEF StartCall, stores, Calls, Duties
  <2>3. pc[h] = "idle" /\ conv'[h] = c /\ op'[h] = kind
        /\ pc'[h] = CASE kind = "read"   -> "get"
                      [] kind = "create" -> "insert"
                      [] OTHER           -> "find"
    BY <1>2 DEF StartCall
  <2>4. kind = "create" \/ row[c].state # "unused"
    BY <1>2 DEF StartCall
  <2>5. OnDuty(h)'
    BY <2>1, <2>3 DEF OnDuty
  <2>6. \A g \in Handlers : OnDuty(g)'
    BY <2>2, <2>5, OthersOnDuty
  <2>7. QED
    BY <2>1, <2>2, <2>3, <2>4, <2>6 DEF stores
<1>3. QED
  BY <1>1, <1>2 DEF Begins

LEMMA ExpireEffect ==
    ASSUME TInv, NEW c \in Conversations, Expire(c)
    PROVE  TInv'
<1>1. cached' \in [Conversations -> Copy]
  BY EmptyHistory DEF TInv, Typed, Expire, Copy, Missing
<1>2. UNCHANGED <<row, pc, op, conv, list>>
  BY DEF Expire, handlers
<1>3. QED
  BY <1>1, <1>2 DEF TInv, Typed, OnDuty

LEMMA MovesCases ==
    ASSUME Moves
    PROVE  \/ \E h \in Handlers : Begins(h)
           \/ \E h \in Handlers : Step(h) \/ Fails(h)
           \/ \E c \in Conversations : Expire(c)
BY DEF Moves, Begins, Handlers

LEMMA NextTInv == ASSUME TInv, [Next]_vars PROVE TInv'
<1>1. CASE Moves
  BY <1>1, MovesCases, StepTInv, BeginEffect, ExpireEffect
<1>2. CASE UNCHANGED vars
  BY <1>2 DEF vars, stores, handlers, TInv, Typed, OnDuty
<1>3. QED
  BY <1>1, <1>2 DEF Next

LEMMA NextDisturbed ==
    ASSUME disturbed \subseteq Conversations, [Next]_vars
    PROVE  disturbed' \subseteq Conversations /\ disturbed \subseteq disturbed'
BY DEF Next, Observe, vars

(* The stores and the handlers keep their types. *)
THEOREM TypeCorrect == Spec => []TypeOK
<1> DEFINE I == TInv /\ disturbed \subseteq Conversations
<1>1. Init => I
  BY InitTInv DEF TypeOK
<1>2. I /\ [Next]_vars => I'
  BY NextTInv, NextDisturbed
<1>3. I => TypeOK
  BY DEF TInv, Typed, TypeOK
<1>4. QED
  BY <1>1, <1>2, <1>3, PTL DEF Spec

-----------------------------------------------------------------------------
(* The row and its copy.  The invariant: of a conversation that is not        *)
(* disturbed at most one handler holds the messages, and what it holds is     *)
(* what the row has or the one update of it that it is about to make.         *)

Untouched ==
    \A c \in Conversations :
        row[c].state = "unused" =>
            /\ ~cached[c].hit
            /\ \A h \in Handlers : conv[h] = c => pc[h] \in {"idle", "insert"}

InHand(h) ==
    conv[h] \notin disturbed /\ row[conv[h]].state = "stored" =>
        /\ pc[h] \in {"refill", "seed", "setex"} => list[h] = row[conv[h]].messages
        /\ pc[h] = "update" =>
              \E m \in Message : list[h] = Recent(Append(row[conv[h]].messages, m))

Current(c) ==
    /\ c \notin disturbed
    /\ row[c].state = "stored"
    /\ cached[c].hit
    /\ ~ \E h \in Handlers : conv[h] = c /\ pc[h] = "setex"
    => cached[c].messages = row[c].messages

CInv ==
    /\ TInv
    /\ disturbed \subseteq Conversations
    /\ \A c \in Conversations : Overlap(c) => c \in disturbed
    /\ Untouched
    /\ \A h \in Handlers : InHand(h)
    /\ \A c \in Conversations : Current(c)

LEMMA InitCInv == Init => CInv
<1> SUFFICES ASSUME Init PROVE CInv
  OBVIOUS
<1>1. TInv
  BY InitTInv
<1>2. Untouched
  BY DEF Init, Untouched, Missing
<1>3. \A c \in Conversations : ~Overlap(c) /\ Current(c)
  BY DEF Init, Overlap, Holds, Current, Missing
<1>4. \A h \in Handlers : InHand(h)
  BY DEF Init, InHand
<1>5. QED
  BY <1>1, <1>2, <1>3, <1>4 DEF CInv, Init

LEMMA StepUntouched ==
    ASSUME CInv, NEW h \in Handlers, NEW next \in Calls, NEW kept \in Histories,
           Goto(h, next, kept), Effect(h, next, kept)
    PROVE  Untouched'
<1>0. /\ Typed /\ Untouched /\ OnDuty(h)
      /\ conv[h] \in Conversations
      /\ pc'[h] = next /\ \A g \in Handlers \ {h} : pc'[g] = pc[g]
  BY GotoEffect DEF CInv, TInv, Typed
<1>1. \A g \in Handlers \ {h} : conv'[g] = conv[g]
  BY <1>0 DEF Effect, Typed
<1> SUFFICES ASSUME NEW c \in Conversations, row'[c].state = "unused"
             PROVE  /\ ~cached'[c].hit
                    /\ \A g \in Handlers : conv'[g] = c => pc'[g] \in {"idle", "insert"}
  BY DEF Untouched
<1>2. row[c].state = "unused"
  <2>1. CASE row' = row
    BY <2>1
  <2>2. ASSUME NEW d \in Conversations,
               row' = [row EXCEPT ![d] = [state |-> "stored", messages |-> <<>>]]
        PROVE  row[c].state = "unused"
    BY <1>0, <2>2 DEF Typed
  <2>3. CASE row' = [row EXCEPT ![conv[h]].messages =
                       IF row[conv[h]].state = "stored" THEN list[h] ELSE @]
    <3>1. row[conv[h]] \in Row
      BY <1>0 DEF Typed
    <3>2. QED
      BY <1>0, <2>3, <3>1 DEF Typed, Row
  <2>4. CASE row' = [row EXCEPT ![conv[h]] = [state |-> "deleted", messages |-> <<>>]]
    BY <1>0, <2>4 DEF Typed
  <2>5. QED
    BY <2>1, <2>2, <2>3, <2>4 DEF Effect, stores
<1>3. /\ ~cached[c].hit
      /\ \A g \in Handlers : conv[g] = c => pc[g] \in {"idle", "insert"}
  BY <1>0, <1>2 DEF Untouched
<1>4. ~cached'[c].hit
  <2>1. CASE SetCache(conv[h], list[h]) /\ pc[h] \in {"refill", "seed", "setex"}
    BY <1>0, <1>3, <2>1 DEF SetCache, Typed
  <2>2. CASE cached' = [cached EXCEPT ![conv[h]] = Missing]
    BY <1>0, <1>3, <2>2 DEF Typed, Missing
  <2>3. CASE UNCHANGED cached
    BY <1>3, <2>3
  <2>4. QED
    BY <2>1, <2>2, <2>3 DEF Effect, stores
<1>5. ASSUME conv'[h] = c PROVE next \in {"idle", "insert"}
  <2>1. CASE pc[h] = "insert" /\ next = "idle"
    BY <2>1
  <2>2. ASSUME NEW d \in Conversations, conv' = [conv EXCEPT ![h] = d],
               row' = [row EXCEPT ![d] = [state |-> "stored", messages |-> <<>>]]
        PROVE  FALSE
    BY <1>0, <1>5, <2>2 DEF Typed
  <2>3. CASE UNCHANGED conv
    <3>1. pc[h] \in {"idle", "insert"}
      BY <1>3, <1>5, <2>3
    <3>2. QED
      BY <2>2, <3>1 DEF Effect
  <2>4. QED
    BY <2>1, <2>2, <2>3 DEF Effect
<1>6. QED
  BY <1>0, <1>1, <1>3, <1>4, <1>5

(* What a step does to a row that is stored after it. *)
LEMMA RowEffect ==
    ASSUME CInv, NEW h \in Handlers, NEW next \in Calls, NEW kept \in Histories,
           Goto(h, next, kept), Effect(h, next, kept),
           NEW c \in Conversations, row'[c].state = "stored"
    PROVE  \/ row'[c] = row[c]
           \/ row[c].state = "unused" /\ row'[c].messages = <<>>
           \/ /\ row[c].state = "stored" /\ pc[h] = "update" /\ conv[h] = c
              /\ next = "setex" /\ row'[c].messages = list[h]
<1>0. /\ row \in [Conversations -> Row] /\ conv[h] \in Conversations
      /\ row[conv[h]] \in Row
  BY DEF CInv, TInv, Typed
<1>1. CASE row' = row
  BY <1>1
<1>2. ASSUME NEW d \in Conversations, row[d].state = "unused",
             row' = [row EXCEPT ![d] = [state |-> "stored", messages |-> <<>>]]
      PROVE  row'[c] = row[c] \/ (row[c].state = "unused" /\ row'[c].messages = <<>>)
  BY <1>0, <1>2
<1>3. CASE /\ pc[h] = "update" /\ next = "setex"
           /\ row' = [row EXCEPT ![conv[h]].messages =
                         IF row[conv[h]].state = "stored" THEN list[h] ELSE @]
  <2>1. CASE c = conv[h]
    BY <1>0, <1>3, <2>1 DEF Row
  <2>2. CASE c # conv[h]
    BY <1>0, <1>3, <2>2
  <2>3. QED
    BY <2>1, <2>2
<1>4. CASE row' = [row EXCEPT ![conv[h]] = [state |-> "deleted", messages |-> <<>>]]
  BY <1>0, <1>4
<1>5. QED
  BY <1>1, <1>2, <1>3, <1>4 DEF Effect, stores

LEMMA StepInHand ==
    ASSUME CInv, NEW h \in Handlers, NEW next \in Calls, NEW kept \in Histories,
           Goto(h, next, kept), Effect(h, next, kept), Observe
    PROVE  \A g \in Handlers : InHand(g)'
<1>0. /\ Typed /\ OnDuty(h) /\ Untouched /\ InHand(h)
      /\ conv[h] \in Conversations
      /\ pc'[h] = next /\ list'[h] = kept
      /\ \A g \in Handlers \ {h} : pc'[g] = pc[g] /\ list'[g] = list[g]
      /\ disturbed \subseteq disturbed'
  BY GotoEffect DEF CInv, TInv, Typed, Observe
<1>1. \A g \in Handlers \ {h} : conv'[g] = conv[g]
  BY <1>0 DEF Effect, Typed
<1>2. ASSUME NEW g \in Handlers, g # h
      PROVE  InHand(g)'
  <2>1. conv[g] \in Conversations /\ conv'[g] = conv[g] /\ pc'[g] = pc[g] /\ list'[g] = list[g]
    BY <1>0, <1>1, <1>2 DEF Typed
  <2>2. SUFFICES ASSUME conv[g] \notin disturbed', row'[conv[g]].state = "stored",
                        pc[g] \in {"refill", "seed", "update", "setex"}
                 PROVE  row'[conv[g]] = row[conv[g]] /\ InHand(g)
    BY <1>0, <2>1 DEF InHand
  <2>3. row[conv[g]].state # "unused"
    BY <1>0, <2>1, <2>2 DEF Untouched
  <2>4. ~(pc[h] = "update" /\ conv[h] = conv[g])
    <3>1. ~Overlap(conv[g])
      BY <1>0, <2>1, <2>2 DEF CInv
    <3>2. QED
      BY <1>2, <2>2, <3>1 DEF Overlap, Holds
  <2>5. QED
    BY <2>1, <2>2, <2>3, <2>4, RowEffect DEF CInv
<1>3. InHand(h)'
  <2>1. SUFFICES ASSUME conv'[h] \notin disturbed', row'[conv'[h]].state = "stored",
                        next \in {"refill", "seed", "update", "setex"}
                 PROVE  /\ next \in {"refill", "seed", "setex"} => kept = row'[conv'[h]].messages
                        /\ next = "update" =>
                             \E m \in Message : kept = Recent(Append(row'[conv'[h]].messages, m))
    BY <1>0 DEF InHand
  <2>2. CASE next = "refill"
    BY <2>2 DEF Effect, Returns, stores
  <2>3. CASE next = "seed"
    BY <1>0, <2>3 DEF Effect, Returns, Typed, stores
  <2>4. CASE next = "setex"
    <3>1. /\ pc[h] = "update" /\ kept = list[h] /\ UNCHANGED conv
          /\ row' = [row EXCEPT ![conv[h]].messages =
                         IF row[conv[h]].state = "stored" THEN list[h] ELSE @]
      BY <2>4 DEF Effect, Returns
    <3>2. row[conv[h]] \in Row
      BY <1>0 DEF Typed
    <3>3. row'[conv[h]].messages = list[h]
      BY <1>0, <2>1, <3>1, <3>2 DEF Typed, Row
    <3>4. QED
      BY <2>4, <3>1, <3>3
  <2>5. CASE next = "update"
    <3>1. PICK messages :
             /\ Returns(h, messages, next, kept)
             /\ UNCHANGED <<row, conv>>
             /\ \/ pc[h] = "get" /\ cached[conv[h]].hit /\ messages = cached[conv[h]].messages
                \/ pc[h] = "refill" /\ messages = list[h]
      BY <2>5 DEF Effect, stores
    <3>2. [query |-> h, role |-> op[h]] \in Message
      BY <2>5, <3>1 DEF Returns, Message
    <3>3. kept = Recent(Append(messages, [query |-> h, role |-> op[h]]))
      BY <2>5, <3>1 DEF Returns
    <3>4. messages = row[conv[h]].messages
      <4>1. CASE pc[h] = "refill"
        BY <1>0, <2>1, <3>1, <4>1 DEF InHand
      <4>2. CASE pc[h] = "get"
        <5>1. ASSUME NEW g \in Handlers, conv[g] = conv[h], pc[g] = "setex"
              PROVE  FALSE
          <6>1. g # h
            BY <4>2, <5>1
          <6>2. Holds(g, conv[h])' /\ Holds(h, conv[h])'
            BY <1>0, <1>1, <2>5, <3>1, <5>1, <6>1 DEF Holds
          <6>3. Overlap(conv[h])'
            BY <6>1, <6>2 DEF Overlap
          <6>4. QED
            BY <1>0, <2>1, <3>1, <6>3 DEF Observe
        <5>2. Current(conv[h])
          BY <1>0 DEF CInv
        <5>3. QED
          BY <1>0, <2>1, <3>1, <4>2, <5>1, <5>2 DEF Current
      <4>3. QED
        BY <3>1, <4>1, <4>2
    <3>5. QED
      BY <2>5, <3>1, <3>2, <3>3, <3>4
  <2>6. QED
    BY <2>1, <2>2, <2>3, <2>4, <2>5
<1>4. QED
  BY <1>2, <1>3

LEMMA StepCurrent ==
    ASSUME CInv, NEW h \in Handlers, NEW next \in Calls, NEW kept \in Histories,
           Goto(h, next, kept), Effect(h, next, kept), Observe
    PROVE  \A c \in Conversations : Current(c)'
<1> TAKE c \in Conversations
<1>0. /\ Typed /\ OnDuty(h) /\ Untouched /\ InHand(h) /\ Current(c)
      /\ conv[h] \in Conversations /\ list[h] \in Histories
      /\ pc'[h] = next
      /\ \A g \in Handlers \ {h} : pc'[g] = pc[g]
      /\ disturbed \subseteq disturbed'
  BY GotoEffect DEF CInv, TInv, Typed, Observe
<1>1. \A g \in Handlers \ {h} : conv'[g] = conv[g]
  BY <1>0 DEF Effect, Typed
<1> SUFFICES ASSUME c \notin disturbed', row'[c].state = "stored", cached'[c].hit,
                    ~ \E g \in Handlers : conv'[g] = c /\ pc'[g] = "setex"
             PROVE  cached'[c].messages = row'[c].messages
  BY DEF Current
<1>2. CASE SetCache(conv[h], list[h]) /\ pc[h] \in {"refill", "seed", "setex"} /\ c = conv[h]
  <2>1. UNCHANGED row
    BY <1>2 DEF Effect, stores
  <2>2. cached'[c].messages = list[h]
    BY <1>0, <1>2 DEF SetCache, Typed
  <2>3. list[h] = row[c].messages
    BY <1>0, <1>2, <2>1 DEF InHand
  <2>4. QED
    BY <2>1, <2>2, <2>3
<1>3. CASE cached'[c] = cached[c] /\ ~(pc[h] = "setex" /\ conv[h] = c)
  <2>1. \A g \in Handlers : ~(conv[g] = c /\ pc[g] = "setex")
    BY <1>0, <1>1, <1>3
  <2>2. row[c].state # "unused"
    BY <1>0, <1>3 DEF Untouched
  <2>3. ~(pc[h] = "update" /\ conv[h] = c /\ next = "setex")
    <3>1. pc[h] = "update" => UNCHANGED conv
      BY DEF Effect
    <3>2. QED
      BY <1>0, <3>1
  <2>4. row'[c] = row[c]
    BY <2>2, <2>3, RowEffect
  <2>5. QED
    BY <1>0, <1>3, <2>1, <2>4 DEF Current
<1>4. CASE pc[h] = "setex" /\ conv[h] = c /\ UNCHANGED cached
  <2>1. next # "setex"
    BY <1>4 DEF Effect
  <2>2. BrokenOff(c)
    BY <1>0, <1>4, <2>1 DEF BrokenOff
  <2>3. QED
    BY <2>2 DEF Observe
<1>5. CASE cached' = [cached EXCEPT ![conv[h]] = Missing] /\ pc[h] # "setex"
  <2>1. c # conv[h]
    BY <1>0, <1>5 DEF Missing, Typed
  <2>2. cached'[c] = cached[c]
    BY <1>0, <1>5, <2>1 DEF Typed
  <2>3. QED
    BY <1>3, <1>5, <2>1, <2>2
<1>6. CASE SetCache(conv[h], list[h]) /\ pc[h] \in {"refill", "seed", "setex"} /\ c # conv[h]
  <2>1. cached'[c] = cached[c]
    BY <1>0, <1>6 DEF SetCache, Typed
  <2>2. QED
    BY <1>3, <1>6, <2>1
<1>7. QED
  <2>1. \/ SetCache(conv[h], list[h]) /\ pc[h] \in {"refill", "seed", "setex"}
        \/ UNCHANGED cached
        \/ cached' = [cached EXCEPT ![conv[h]] = Missing] /\ pc[h] # "setex"
    BY DEF Effect, stores
  <2>2. QED
    BY <1>2, <1>3, <1>4, <1>5, <1>6, <2>1

LEMMA NextCInv == ASSUME CInv, [Next]_vars PROVE CInv'
<1>0. TInv' /\ disturbed' \subseteq Conversations /\ disturbed \subseteq disturbed'
  BY NextTInv, NextDisturbed DEF CInv
<1>1. ASSUME NEW h \in Handlers, Step(h) \/ Fails(h), Observe
      PROVE  CInv'
  <2>1. PICK next \in Calls, kept \in Histories : Goto(h, next, kept) /\ Effect(h, next, kept)
    BY <1>1, StepEffect DEF CInv
  <2>2. Untouched' /\ (\A g \in Handlers : InHand(g)') /\ (\A c \in Conversations : Current(c)')
    BY <1>1, <2>1, StepUntouched, StepInHand, StepCurrent
  <2>3. \A c \in Conversations : Overlap(c)' => c \in disturbed'
    BY <1>1 DEF Observe
  <2>4. QED
    BY <1>0, <2>2, <2>3 DEF CInv
<1>2. ASSUME NEW h \in Handlers, Begins(h), Observe
      PROVE  CInv'
  <2>1. /\ pc[h] = "idle" /\ pc'[h] \in {"get", "insert", "find"}
        /\ \A g \in Handlers \ {h} : pc'[g] = pc[g] /\ conv'[g] = conv[g]
        /\ row' = row /\ cached' = cached /\ list' = list
        /\ pc'[h] # "insert" => row[conv'[h]].state # "unused"
    BY <1>2, BeginEffect DEF CInv, stores
  <2>2. Untouched'
    BY <2>1 DEF CInv, Untouched
  <2>3. ASSUME NEW g \in Handlers PROVE InHand(g)'
    <3>1. CASE g = h
      BY <2>1, <3>1 DEF InHand
    <3>2. CASE g # h
      BY <1>0, <2>1, <3>2 DEF InHand, CInv
    <3>3. QED
      BY <3>1, <3>2
  <2>4. ASSUME NEW c \in Conversations PROVE Current(c)'
    <3>1. (\E g \in Handlers : conv[g] = c /\ pc[g] = "setex")
          => (\E g \in Handlers : conv'[g] = c /\ pc'[g] = "setex")
      BY <2>1
    <3>2. Current(c)
      BY DEF CInv
    <3>3. QED
      BY <1>0, <2>1, <3>1, <3>2 DEF Current
  <2>5. \A c \in Conversations : Overlap(c)' => c \in disturbed'
    BY <1>2 DEF Observe
  <2>6. QED
    BY <1>0, <2>2, <2>3, <2>4, <2>5 DEF CInv
<1>3. ASSUME NEW c \in Conversations, Expire(c), Observe
      PROVE  CInv'
  <2>1. /\ row' = row /\ pc' = pc /\ conv' = conv /\ list' = list
        /\ \A d \in Conversations : cached'[d] = cached[d] \/ ~cached'[d].hit
    BY <1>3 DEF Expire, handlers, CInv, TInv, Typed, Missing
  <2>2. Untouched'
    BY <2>1 DEF CInv, Untouched
  <2>3. \A g \in Handlers : InHand(g)'
    BY <1>0, <2>1 DEF InHand, CInv
  <2>4. \A d \in Conversations : Current(d)'
    BY <1>0, <2>1 DEF Current, CInv
  <2>5. \A d \in Conversations : Overlap(d)' => d \in disturbed'
    BY <1>3 DEF Observe
  <2>6. QED
    BY <1>0, <2>2, <2>3, <2>4, <2>5 DEF CInv
<1>4. CASE UNCHANGED vars
  BY <1>0, <1>4 DEF vars, stores, handlers, CInv, Untouched, InHand, Current, Overlap, Holds
<1>5. QED
  BY <1>1, <1>2, <1>3, <1>4, MovesCases DEF Next

LEMMA InvariantCInv == Spec => []CInv
<1>1. CInv /\ [Next]_vars => CInv'
  BY NextCInv
<1>2. QED
  BY <1>1, InitCInv, PTL DEF Spec

(* The key agrees with the row except while a handler is between its writes, *)
(* unless two handlers held the messages at one time or one broke off.       *)
THEOREM CopyIsCurrent == Spec => []CacheIsCurrent
<1>1. CInv => CacheIsCurrent
  BY DEF CInv, Current, CacheIsCurrent
<1>2. QED
  BY <1>1, InvariantCInv, PTL

AppendsIt ==
    \A c \in Conversations \ disturbed' :
        row[c].state = "stored" /\ row'[c].state = "stored" /\ row'[c] # row[c]
        => \E m \in Message : row'[c].messages = Recent(Append(row[c].messages, m))

(* A message leaves the row only by the limit or with the row, unless two    *)
(* handlers overlapped or one broke off between its writes.                  *)
THEOREM RowsOnlyGrow == Spec => AppendsOnly
<1>1. ASSUME CInv, [Next]_vars PROVE AppendsIt
  <2>1. SUFFICES ASSUME NEW c \in Conversations \ disturbed', row[c].state = "stored",
                        row'[c].state = "stored", row'[c] # row[c]
                 PROVE  \E m \in Message : row'[c].messages = Recent(Append(row[c].messages, m))
    BY DEF AppendsIt
  <2>2. PICK h \in Handlers : Step(h) \/ Fails(h)
    <3>1. Moves
      BY <1>1, <2>1 DEF Next, vars, stores
    <3>2. ASSUME NEW h \in Handlers, Begins(h) PROVE FALSE
      BY <1>1, <2>1, <3>2, BeginEffect DEF CInv, stores
    <3>3. ASSUME NEW d \in Conversations, Expire(d) PROVE FALSE
      BY <2>1, <3>3 DEF Expire
    <3>4. QED
      BY <3>1, <3>2, <3>3, MovesCases
  <2>3. PICK next \in Calls, kept \in Histories : Goto(h, next, kept) /\ Effect(h, next, kept)
    BY <1>1, <2>2, StepEffect DEF CInv
  <2>4. pc[h] = "update" /\ conv[h] = c /\ row'[c].messages = list[h]
    BY <1>1, <2>1, <2>3, RowEffect
  <2>5. c \notin disturbed
    BY <1>1, <2>1, NextDisturbed DEF CInv
  <2>6. InHand(h)
    BY <1>1 DEF CInv
  <2>7. QED
    BY <2>1, <2>4, <2>5, <2>6 DEF InHand
<1>2. CInv /\ [Next]_vars => [AppendsIt]_vars
  BY <1>1
<1>3. QED
  BY <1>2, InvariantCInv, PTL DEF Spec, AppendsOnly, AppendsIt

-----------------------------------------------------------------------------
(* Histories.  The invariant: before a query has written a message, nobody    *)
(* but the query itself has that message in hand, and it is in no store.      *)

Says(s, q, r) == \E i \in 1..Len(s) : s[i].query = q /\ s[i].role = r

LEMMA RecentSays ==
    ASSUME NEW s \in Seq(Message), NEW q, NEW r, Says(Recent(s), q, r)
    PROVE  Says(s, q, r)
<1>1. PICK k \in 0..Len(s) :
         /\ Len(Recent(s)) = Len(s) - k
         /\ \A i \in 1..Len(Recent(s)) : Recent(s)[i] = s[i + k]
  BY RecentDrops
<1>2. PICK i \in 1..Len(Recent(s)) : Recent(s)[i].query = q /\ Recent(s)[i].role = r
  BY DEF Says
<1>3. i + k \in 1..Len(s)
  BY <1>1, <1>2
<1>4. QED
  BY <1>1, <1>2, <1>3 DEF Says

LEMMA RecentWellFormed ==
    ASSUME NEW s \in Seq(Message), WellFormed(s)
    PROVE  WellFormed(Recent(s))
<1>1. PICK k \in 0..Len(s) :
         /\ Len(Recent(s)) = Len(s) - k
         /\ \A i \in 1..Len(Recent(s)) : Recent(s)[i] = s[i + k]
  BY RecentDrops
<1>2. \A i \in 1..Len(Recent(s)) : i + k \in 1..Len(s)
  BY <1>1
<1>3. ASSUME NEW i \in 1..Len(Recent(s)), NEW j \in 1..Len(Recent(s)),
             i < j, Recent(s)[i].query = Recent(s)[j].query
      PROVE  Recent(s)[i].role = "user" /\ Recent(s)[j].role = "assistant"
  <2>1. i + k < j + k
    BY <1>1, <1>3
  <2>2. QED
    BY <1>1, <1>2, <1>3, <2>1 DEF WellFormed
<1>4. QED
  BY <1>3 DEF WellFormed

LEMMA AppendSays ==
    ASSUME NEW s \in Seq(Message), NEW m \in Message, NEW q, NEW r,
           Says(Append(s, m), q, r)
    PROVE  Says(s, q, r) \/ (m.query = q /\ m.role = r)
BY AppendProperties DEF Says

(* A message that is new to a history is fit for its end. *)
Fits(s, m) ==
    /\ ~Says(s, m.query, m.role)
    /\ m.role = "user" => ~Says(s, m.query, "assistant")

LEMMA AppendWellFormed ==
    ASSUME NEW s \in Seq(Message), NEW m \in Message, WellFormed(s), Fits(s, m)
    PROVE  WellFormed(Append(s, m))
<1>0. /\ Len(s) \in Nat /\ Len(Append(s, m)) = Len(s) + 1
      /\ \A i \in 1..Len(s) : Append(s, m)[i] = s[i] /\ s[i] \in Message
      /\ Append(s, m)[Len(s) + 1] = m
  BY AppendProperties
<1>1. ASSUME NEW i \in 1..Len(Append(s, m)), NEW j \in 1..Len(Append(s, m)),
             i < j, Append(s, m)[i].query = Append(s, m)[j].query
      PROVE  Append(s, m)[i].role = "user" /\ Append(s, m)[j].role = "assistant"
  <2>1. CASE j \in 1..Len(s)
    BY <1>0, <1>1, <2>1 DEF WellFormed
  <2>2. CASE j = Len(s) + 1
    <3>1. i \in 1..Len(s) /\ s[i].query = m.query
      BY <1>0, <1>1, <2>2
    <3>2. Says(s, m.query, s[i].role)
      BY <3>1 DEF Says
    <3>3. s[i].role \in {"user", "assistant"} /\ m.role \in {"user", "assistant"}
      BY <1>0, <3>1 DEF Message
    <3>4. s[i].role = "user" /\ m.role = "assistant"
      BY <3>2, <3>3 DEF Fits
    <3>5. QED
      BY <1>0, <2>2, <3>1, <3>4
  <2>3. QED
    BY <1>0, <2>1, <2>2
<1>2. QED
  BY <1>1 DEF WellFormed

LEMMA EmptySaysNothing ==
    WellFormed(<<>>) /\ \A q, r : ~Says(<<>>, q, r)
BY DEF WellFormed, Says

(* Before the question, or the answer, of query q is added to a list. *)
Unsaid(q, r) ==
    \/ op[q] = "lookup"
    \/ op[q] = "user" /\ r = "assistant"
    \/ op[q] = r /\ pc[q] \in {"get", "select", "refill"}

Unwritten(q, r) == op[q] = r /\ pc[q] = "update"

Roles == {"user", "assistant"}

HInv ==
    /\ TInv
    /\ \A c \in Conversations : WellFormed(row[c].messages) /\ WellFormed(cached[c].messages)
    /\ \A h \in Handlers : WellFormed(list[h])
    /\ \A q \in Queries, r \in Roles : Unsaid(q, r) \/ Unwritten(q, r) =>
          /\ \A c \in Conversations : /\ ~Says(row[c].messages, q, r)
                                     /\ ~Says(cached[c].messages, q, r)
          /\ \A h \in Handlers : h # q \/ Unsaid(q, r) => ~Says(list[h], q, r)

LEMMA InitHInv == Init => HInv
BY InitTInv, EmptySaysNothing DEF Init, HInv, Missing

(* Where the histories of the stores come from. *)
LEMMA StoreSources ==
    ASSUME TInv, NEW h \in Handlers, NEW next \in Calls, NEW kept \in Histories,
           Effect(h, next, kept), NEW c \in Conversations
    PROVE  /\ \/ row'[c].messages \in {row[c].messages, <<>>}
              \/ row'[c].messages = list[h] /\ pc[h] = "update" /\ next = "setex"
           /\ \/ cached'[c].messages \in {cached[c].messages, <<>>}
              \/ cached'[c].messages = list[h] /\ pc[h] \in {"refill", "seed", "setex"}
<1>0. /\ row \in [Conversations -> Row] /\ cached \in [Conversations -> Copy]
      /\ conv[h] \in Conversations /\ row[conv[h]] \in Row
  BY DEF TInv, Typed
<1>1. \/ row'[c].messages \in {row[c].messages, <<>>}
      \/ row'[c].messages = list[h] /\ pc[h] = "update" /\ next = "setex"
  <2>1. CASE UNCHANGED row
    BY <2>1
  <2>2. ASSUME NEW d \in Conversations,
               row' = [row EXCEPT ![d] = [state |-> "stored", messages |-> <<>>]]
        PROVE  row'[c].messages \in {row[c].messages, <<>>}
    BY <1>0, <2>2
  <2>3. CASE /\ pc[h] = "update" /\ next = "setex"
             /\ row' = [row EXCEPT ![conv[h]].messages =
                           IF row[conv[h]].state = "stored" THEN list[h] ELSE @]
    <3>1. CASE c = conv[h]
      BY <1>0, <2>3, <3>1 DEF Row
    <3>2. CASE c # conv[h]
      BY <1>0, <2>3, <3>2
    <3>3. QED
      BY <3>1, <3>2
  <2>4. CASE row' = [row EXCEPT ![conv[h]] = [state |-> "deleted", messages |-> <<>>]]
    BY <1>0, <2>4
  <2>5. QED
    BY <2>1, <2>2, <2>3, <2>4 DEF Effect, stores
<1>2. \/ cached'[c].messages \in {cached[c].messages, <<>>}
      \/ cached'[c].messages = list[h] /\ pc[h] \in {"refill", "seed", "setex"}
  <2>1. CASE SetCache(conv[h], list[h]) /\ pc[h] \in {"refill", "seed", "setex"}
    BY <1>0, <2>1 DEF SetCache
  <2>2. CASE cached' = [cached EXCEPT ![conv[h]] = Missing]
    BY <1>0, <2>2 DEF Missing
  <2>3. CASE UNCHANGED cached
    BY <2>3
  <2>4. QED
    BY <2>1, <2>2, <2>3 DEF Effect, stores
<1>3. QED
  BY <1>1, <1>2

(* What the handler has in hand after its step. *)
LEMMA KeptSources ==
    ASSUME TInv, NEW h \in Handlers, NEW next \in Calls, NEW kept \in Histories,
           Effect(h, next, kept)
    PROVE  \/ kept = <<>>
           \/ kept = row[conv[h]].messages /\ next = "refill"
           \/ kept = list[h] /\ pc[h] \in {"think", "update"}
           \/ /\ h \in Queries /\ op[h] \in Roles /\ op'[h] = op[h] /\ next = "update"
              /\ pc[h] \in {"get", "refill"}
              /\ \E s \in {cached[conv[h]].messages, list[h]} :
                    kept = Recent(Append(s, [query |-> h, role |-> op[h]]))
BY DEF Effect, Returns, Roles

(* What a query has still to say it had still to say before the step. *)
LEMMA UnsaidBefore ==
    ASSUME TInv, NEW h \in Queries, NEW next \in Calls, NEW kept \in Histories,
           Goto(h, next, kept), Effect(h, next, kept), NEW r \in Roles
    PROVE  /\ Unsaid(h, r)' => Unsaid(h, r)
           /\ Unwritten(h, r)' => Unsaid(h, r) /\ next = "update" /\ pc[h] \in {"get", "refill"}
<1>0. /\ h \in Handlers /\ OnDuty(h) /\ op \in [Handlers -> Duties] /\ pc \in [Handlers -> Calls]
      /\ pc'[h] = next
  BY GotoEffect DEF TInv, Typed, Handlers
<1>1. CASE op'[h] = op[h]
  <2>1. next \in {"get", "select", "refill"} /\ op[h] \in Roles => pc[h] \in {"get", "select", "refill"}
    BY <1>0, <1>1 DEF Effect, Returns, OnDuty, Roles
  <2>2. next = "update" => pc[h] \in {"get", "refill"}
    BY <1>0, <1>1 DEF Effect, Returns
  <2>3. QED
    BY <1>0, <1>1, <2>1, <2>2 DEF Unsaid, Unwritten
<1>2. CASE op'[h] # op[h]
  <2>1. \/ pc[h] = "think" /\ op'[h] = "user" /\ next = "get"
        \/ /\ pc[h] = "setex" /\ op'[h] = "assistant"
           /\ next = (IF op[h] = "user" THEN "get" ELSE "idle")
    BY <1>0, <1>2 DEF Effect
  <2>2. QED
    BY <1>0, <2>1 DEF Unsaid, Unwritten, OnDuty, Roles
<1>3. QED
  BY <1>1, <1>2

LEMMA StepHInv ==
    ASSUME HInv, NEW h \in Handlers, Step(h) \/ Fails(h)
    PROVE  HInv'
<1>1. PICK next \in Calls, kept \in Histories : Goto(h, next, kept) /\ Effect(h, next, kept)
  BY StepEffect DEF HInv
<1>2. /\ TInv /\ TInv' /\ Typed /\ OnDuty(h)
      /\ pc'[h] = next /\ list'[h] = kept
      /\ \A g \in Handlers \ {h} : pc'[g] = pc[g] /\ list'[g] = list[g] /\ op'[g] = op[g]
  <2>1. \A g \in Handlers \ {h} : op'[g] = op[g]
    BY <1>1 DEF Effect, HInv, TInv, Typed
  <2>2. QED
    BY <1>1, <2>1, GotoEffect, StepTInv DEF HInv, TInv
<1>3. /\ conv[h] \in Conversations /\ list[h] \in Seq(Message)
      /\ cached[conv[h]].messages \in Seq(Message)
      /\ row[conv[h]].messages \in Seq(Message)
  BY <1>2 DEF Typed, Histories, Row, Copy
(* An appended message fits. *)
<1>4. ASSUME h \in Queries, op[h] \in Roles, pc[h] \in {"get", "refill"},
             NEW s \in {cached[conv[h]].messages, list[h]}
      PROVE  /\ s \in Seq(Message) /\ [query |-> h, role |-> op[h]] \in Message
             /\ WellFormed(s) /\ Fits(s, [query |-> h, role |-> op[h]])
  <2>1. Unsaid(h, op[h]) /\ (op[h] = "user" => Unsaid(h, "assistant"))
    BY <1>4 DEF Unsaid, Roles
  <2>2. ~Says(s, h, op[h]) /\ (op[h] = "user" => ~Says(s, h, "assistant"))
    BY <1>3, <1>4, <2>1 DEF HInv, Roles
  <2>3. WellFormed(s)
    BY <1>3, <1>4 DEF HInv
  <2>4. QED
    BY <1>3, <1>4, <2>2, <2>3 DEF Fits, Message, Roles
<1>5. WellFormed(kept)
  <2>1. CASE kept \in {<<>>, row[conv[h]].messages, list[h]}
    BY <1>3, <2>1, EmptySaysNothing DEF HInv
  <2>2. ASSUME h \in Queries, op[h] \in Roles, pc[h] \in {"get", "refill"},
               NEW s \in {cached[conv[h]].messages, list[h]},
               kept = Recent(Append(s, [query |-> h, role |-> op[h]]))
        PROVE  WellFormed(kept)
    <3>1. /\ s \in Seq(Message) /\ [query |-> h, role |-> op[h]] \in Message
          /\ WellFormed(s) /\ Fits(s, [query |-> h, role |-> op[h]])
      BY <1>4, <2>2
    <3>2. /\ Append(s, [query |-> h, role |-> op[h]]) \in Seq(Message)
          /\ WellFormed(Append(s, [query |-> h, role |-> op[h]]))
      BY <3>1, AppendWellFormed, AppendProperties
    <3>3. QED
      BY <2>2, <3>2, RecentWellFormed
  <2>3. QED
    BY <1>1, <1>2, <2>1, <2>2, KeptSources
<1>6. \A c \in Conversations : WellFormed(row'[c].messages) /\ WellFormed(cached'[c].messages)
  BY <1>1, <1>2, StoreSources, EmptySaysNothing DEF HInv
<1>7. \A g \in Handlers : WellFormed(list'[g])
  BY <1>2, <1>5 DEF HInv
<1>8. ASSUME NEW q \in Queries, NEW r \in Roles, Unsaid(q, r)' \/ Unwritten(q, r)'
      PROVE  /\ \A c \in Conversations : /\ ~Says(row'[c].messages, q, r)
                                        /\ ~Says(cached'[c].messages, q, r)
             /\ \A g \in Handlers : g # q \/ Unsaid(q, r)' => ~Says(list'[g], q, r)
  <2>1. /\ Unsaid(q, r)' => Unsaid(q, r)
        /\ Unwritten(q, r)' => \/ q # h /\ Unwritten(q, r)
                               \/ q = h /\ Unsaid(q, r) /\ next = "update"
    <3>1. CASE q = h
      BY <1>1, <1>2, <3>1, UnsaidBefore
    <3>2. CASE q # h
      BY <1>2, <3>2 DEF Unsaid, Unwritten, Handlers
    <3>3. QED
      BY <3>1, <3>2
  <2>2. /\ \A c \in Conversations : /\ ~Says(row[c].messages, q, r)
                                   /\ ~Says(cached[c].messages, q, r)
        /\ \A g \in Handlers : g # q \/ Unsaid(q, r) => ~Says(list[g], q, r)
    BY <1>8, <2>1 DEF HInv
  <2>3. ~Says(list[h], q, r)
    BY <1>8, <2>1, <2>2
  <2>4. \A c \in Conversations : /\ ~Says(row'[c].messages, q, r)
                               /\ ~Says(cached'[c].messages, q, r)
    BY <1>1, <1>2, <2>2, <2>3, StoreSources, EmptySaysNothing
  <2>5. ASSUME h # q \/ Unsaid(q, r)' PROVE ~Says(kept, q, r)
    <3>1. CASE kept \in {<<>>, row[conv[h]].messages, list[h]}
      BY <1>3, <2>2, <2>3, <3>1, EmptySaysNothing
    <3>2. ASSUME h \in Queries, op[h] \in Roles, pc[h] \in {"get", "refill"}, next = "update",
                 op'[h] = op[h],
                 NEW s \in {cached[conv[h]].messages, list[h]},
                 kept = Recent(Append(s, [query |-> h, role |-> op[h]]))
          PROVE  ~Says(kept, q, r)
      <4>1. s \in Seq(Message) /\ [query |-> h, role |-> op[h]] \in Message
        BY <1>4, <3>2
      <4>2. ~Says(s, q, r)
        BY <1>3, <2>2, <2>3, <3>2
      <4>3. ~(h = q /\ op[h] = r)
        BY <1>2, <2>5, <3>2 DEF Unsaid, Roles
      <4>4. ~Says(Append(s, [query |-> h, role |-> op[h]]), q, r)
        BY <4>1, <4>2, <4>3, AppendSays
      <4>5. Append(s, [query |-> h, role |-> op[h]]) \in Seq(Message)
        BY <4>1, AppendProperties
      <4>6. QED
        BY <3>2, <4>4, <4>5, RecentSays
    <3>3. QED
      BY <1>1, <1>2, <3>1, <3>2, KeptSources
  <2>6. ASSUME NEW g \in Handlers, g # q \/ Unsaid(q, r)' PROVE ~Says(list'[g], q, r)
    <3>1. CASE g = h
      BY <1>2, <2>5, <2>6, <3>1
    <3>2. CASE g # h
      BY <1>2, <2>1, <2>2, <2>6, <3>2
    <3>3. QED
      BY <3>1, <3>2
  <2>7. QED
    BY <2>4, <2>6
<1>9. QED
  BY <1>2, <1>6, <1>7, <1>8 DEF HInv

LEMMA NextHInv == ASSUME HInv, [Next]_vars PROVE HInv'
<1>0. TInv'
  BY NextTInv DEF HInv
<1>1. ASSUME NEW h \in Handlers, Step(h) \/ Fails(h) PROVE HInv'
  BY <1>1, StepHInv
<1>2. ASSUME NEW h \in Handlers, Begins(h) PROVE HInv'
  <2>1. /\ pc[h] = "idle"
        /\ \A g \in Handlers \ {h} : pc'[g] = pc[g] /\ op'[g] = op[g]
        /\ h \in Queries => op'[h] = "lookup" /\ Unseen(h)
        /\ row' = row /\ cached' = cached /\ list' = list
    BY <1>2, BeginEffect DEF HInv, stores
  <2>2. ASSUME NEW q \in Queries, NEW r \in Roles, Unsaid(q, r)' \/ Unwritten(q, r)'
        PROVE  /\ \A c \in Conversations : /\ ~Says(row[c].messages, q, r)
                                          /\ ~Says(cached[c].messages, q, r)
               /\ \A g \in Handlers : g # q \/ Unsaid(q, r)' => ~Says(list[g], q, r)
    <3>1. CASE q = h
      BY <2>1, <3>1 DEF Unseen, Says
    <3>2. CASE q # h
      <4>1. Unsaid(q, r)' = Unsaid(q, r) /\ Unwritten(q, r)' = Unwritten(q, r)
        BY <2>1, <3>2 DEF Unsaid, Unwritten, Handlers
      <4>2. QED
        BY <2>2, <4>1 DEF HInv
    <3>3. QED
      BY <3>1, <3>2
  <2>3. QED
    BY <1>0, <2>1, <2>2 DEF HInv
<1>3. ASSUME NEW c \in Conversations, Expire(c) PROVE HInv'
  <2>1. /\ row' = row /\ pc' = pc /\ op' = op /\ list' = list
        /\ \A d \in Conversations : cached'[d].messages \in {cached[d].messages, <<>>}
    BY <1>3 DEF Expire, handlers, HInv, TInv, Typed, Missing
  <2>2. \A q \in Queries, r \in Roles : /\ Unsaid(q, r)' <=> Unsaid(q, r)
                                        /\ Unwritten(q, r)' <=> Unwritten(q, r)
    BY <2>1 DEF Unsaid, Unwritten
  <2>3. QED
    BY <1>0, <2>1, <2>2, EmptySaysNothing DEF HInv
<1>4. CASE UNCHANGED vars
  <2>1. row' = row /\ cached' = cached /\ pc' = pc /\ op' = op /\ list' = list
    BY <1>4 DEF vars, stores, handlers
  <2>2. QED
    BY <1>0, <2>1 DEF HInv, Unsaid, Unwritten
<1>5. QED
  BY <1>1, <1>2, <1>3, <1>4, MovesCases DEF Next

(* However the handlers overlap and fail, no message is stored twice and no  *)
(* answer before its question.                                               *)
THEOREM HistoriesAreWellFormed == Spec => []HistoryWellFormed
<1>1. HInv => HistoryWellFormed
  BY DEF HInv, HistoryWellFormed
<1>2. HInv /\ [Next]_vars => HInv'
  BY NextHInv
<1>3. QED
  BY <1>1, <1>2, InitHInv, PTL DEF Spec

-----------------------------------------------------------------------------
(* Deleted conversations.  Of one that has no row, no key and no holder every *)
(* handler that still names it is before its reading or past its writing, and *)
(* the reading finds nothing.                                                 *)

Gone(c) ==
    /\ row[c].state = "deleted"
    /\ ~cached[c].hit
    /\ ~ \E h \in Handlers : Holds(h, c)

LEMMA StepGone ==
    ASSUME TInv, NEW h \in Handlers, Step(h) \/ Fails(h), NEW c \in Conversations, Gone(c)
    PROVE  Gone(c)'
<1>1. PICK next \in Calls, kept \in Histories : Goto(h, next, kept) /\ Effect(h, next, kept)
  BY StepEffect
<1>2. /\ Typed /\ OnDuty(h) /\ conv[h] \in Conversations /\ row[conv[h]] \in Row
      /\ pc'[h] = next /\ \A g \in Handlers \ {h} : pc'[g] = pc[g]
  BY <1>1, GotoEffect DEF TInv, Typed
<1>3. \A g \in Handlers \ {h} : conv'[g] = conv[g]
  BY <1>1, <1>2 DEF Effect, Typed
<1>4. ~(conv[h] = c /\ pc[h] \in {"refill", "seed", "update", "setex"})
  BY DEF Gone, Holds
<1>5. row'[c].state = "deleted"
  <2>1. CASE row' = row
    BY <2>1 DEF Gone
  <2>2. ASSUME NEW d \in Conversations, row[d].state = "unused",
               row' = [row EXCEPT ![d] = [state |-> "stored", messages |-> <<>>]]
        PROVE  row'[c].state = "deleted"
    BY <1>2, <2>2 DEF Gone, Typed
  <2>3. CASE row' = [row EXCEPT ![conv[h]].messages =
                       IF row[conv[h]].state = "stored" THEN list[h] ELSE @]
    BY <1>2, <2>3 DEF Gone, Typed, Row
  <2>4. CASE row' = [row EXCEPT ![conv[h]] = [state |-> "deleted", messages |-> <<>>]]
    BY <1>2, <2>4 DEF Gone, Typed
  <2>5. QED
    BY <1>1, <2>1, <2>2, <2>3, <2>4 DEF Effect, stores
<1>6. ~cached'[c].hit
  <2>1. CASE SetCache(conv[h], list[h]) /\ pc[h] \in {"refill", "seed", "setex"}
    BY <1>2, <1>4, <2>1 DEF SetCache, Gone, Typed
  <2>2. CASE cached' = [cached EXCEPT ![conv[h]] = Missing]
    BY <1>2, <2>2 DEF Gone, Typed, Missing
  <2>3. CASE UNCHANGED cached
    BY <2>3 DEF Gone
  <2>4. QED
    BY <1>1, <2>1, <2>2, <2>3 DEF Effect, stores
<1>7. ~Holds(h, c)'
  <2>1. SUFFICES ASSUME conv'[h] = c, next \in {"refill", "seed", "update", "setex"}
                 PROVE  FALSE
    BY <1>2 DEF Holds
  <2>2. CASE pc[h] = "insert"
    BY <1>1, <1>2, <2>1, <2>2 DEF Effect, Gone, Typed
  <2>3. CASE pc[h] # "insert"
    <3>1. conv[h] = c
      BY <1>1, <2>1, <2>3 DEF Effect
    <3>2. pc[h] \in {"get", "select"}
      BY <1>1, <1>4, <2>1, <2>3, <3>1 DEF Effect, Returns
    <3>3. QED
      BY <1>1, <2>1, <3>1, <3>2 DEF Effect, Gone
  <2>4. QED
    BY <2>2, <2>3
<1>8. QED
  BY <1>2, <1>3, <1>5, <1>6, <1>7 DEF Gone, Holds

LEMMA NextGone ==
    ASSUME TInv, [Next]_vars, NEW c \in Conversations, Gone(c)
    PROVE  Gone(c)'
<1>1. ASSUME NEW h \in Handlers, Step(h) \/ Fails(h) PROVE Gone(c)'
  BY <1>1, StepGone
<1>2. ASSUME NEW h \in Handlers, Begins(h) PROVE Gone(c)'
  BY <1>2, BeginEffect DEF Gone, Holds, stores
<1>3. ASSUME NEW d \in Conversations, Expire(d) PROVE Gone(c)'
  BY <1>3 DEF Expire, handlers, Gone, Holds, TInv, Typed, Missing
<1>4. CASE UNCHANGED vars
  BY <1>4 DEF vars, stores, handlers, Gone, Holds
<1>5. QED
  BY <1>1, <1>2, <1>3, <1>4, MovesCases DEF Next

(* A conversation without a row that nobody holds does not come back to      *)
(* Redis: no query, read or deletion that still names it writes its key.     *)
THEOREM GoneIsGone == Spec => GoneStaysGone
<1> SUFFICES ASSUME NEW c \in Conversations
             PROVE  Spec => []( /\ row[c].state = "deleted" /\ ~cached[c].hit
                                /\ ~ \E h \in Handlers : Holds(h, c)
                                => [](~cached[c].hit) )
  BY DEF GoneStaysGone
<1>1. Init => TInv
  BY InitTInv
<1>2. TInv /\ [Next]_vars => TInv'
  BY NextTInv
<1>3. TInv /\ Gone(c) /\ [Next]_vars => Gone(c)'
  BY NextGone
<1>4. Gone(c) <=> /\ row[c].state = "deleted" /\ ~cached[c].hit
                  /\ ~ \E h \in Handlers : Holds(h, c)
  BY DEF Gone
<1>5. Gone(c) => ~cached[c].hit
  BY DEF Gone
<1>6. QED
  BY <1>1, <1>2, <1>3, <1>4, <1>5, PTL DEF Spec

=============================================================================
