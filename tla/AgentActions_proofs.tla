------------------------ MODULE AgentActions_proofs ------------------------
(***************************************************************************)
(* Proofs about AgentActions, for any requests, processes and connections: *)
(* the three stores agree, an action is carried out at most once and only   *)
(* when approved, and what a broadcast does while the list of connections   *)
(* changes under it.                                                        *)
(***************************************************************************)
EXTENDS AgentActions, FiniteSetTheorems, FunctionTheorems, SequenceTheorems, TLAPS

IInv == StoresTypeOK /\ StoresAgree /\ PerformedOnce

LEMMA InitIInv == Init => IInv
BY DEF Init, IInv, StoresTypeOK, StoresAgree, PerformedOnce

(* What a step does to the stores: one request moves, or those of a process   *)
(* are lost.                                                                  *)
Moved(r) ==
    \/ /\ task[r] \in {"new", "executing"}
       /\ \E s \in {"executing", "completed", "failed"} : SetTask(r, s)
       /\ UNCHANGED <<approval, home, pending, performed>>
    \/ Propose(r)
    \/ Approve(r)
    \/ Reject(r)

LEMMA StepsOfStores ==
    ASSUME [Next]_vars
    PROVE  \/ \E r \in Requests : Moved(r)
           \/ \E p \in Processes : Restart(p)
           \/ UNCHANGED stores
<1>1. ASSUME NEW r \in Requests,
             StartReading(r) \/ FinishReading(r) \/ Plan(r) \/ Refuse(r)
      PROVE  Moved(r)
  <2>1. CASE StartReading(r)
    BY <2>1 DEF StartReading, Moved
  <2>2. CASE FinishReading(r)
    BY <2>2 DEF FinishReading, Moved
  <2>3. CASE Plan(r)
    BY <2>3 DEF Plan, Moved
  <2>4. CASE Refuse(r)
    BY <2>4 DEF Refuse, Moved
  <2>5. QED
    BY <1>1, <2>1, <2>2, <2>3, <2>4
<1>2. ASSUME NEW s \in Sockets, NEW p \in Processes, Hangup(s) \/ Connect(s, p) \/ Leave(s, p)
      PROVE  UNCHANGED stores
  BY <1>2 DEF Hangup, Connect, Leave
<1>3. ASSUME NEW s \in Sockets, Hangup(s)
      PROVE  UNCHANGED stores
  BY <1>3 DEF Hangup
<1>4. ASSUME NEW b \in Casts, StartCast(b) \/ Send(b) \/ EndCast(b)
      PROVE  UNCHANGED stores
  BY <1>4 DEF StartCast, Send, EndCast
<1>5. CASE UNCHANGED vars
  BY <1>5 DEF vars
<1>6. QED
  BY <1>1, <1>2, <1>3, <1>4, <1>5 DEF Next, Moved

LEMMA MovedKeeps == ASSUME IInv, NEW r \in Requests, Moved(r) PROVE IInv'
<1> USE DEF IInv, StoresTypeOK
<1> DEFINE Reads == /\ task[r] \in {"new", "executing"}
                    /\ \E s \in {"executing", "completed", "failed"} : SetTask(r, s)
                    /\ UNCHANGED <<approval, home, pending, performed>>
<1>0. home[r] \in Processes
  OBVIOUS
<1>1. StoresTypeOK'
  BY <1>0 DEF Moved, Propose, Approve, Reject, Settle, SetTask
<1>2. StoresAgree'
  <2>1. CASE Reads
    BY <2>1 DEF SetTask, StoresAgree
  <2>2. CASE Propose(r)
    BY <2>2 DEF Propose, SetTask, StoresAgree
  <2>3. CASE Approve(r)
    BY <2>3 DEF Approve, Settle, SetTask, StoresAgree
  <2>4. CASE Reject(r)
    BY <2>4 DEF Reject, Settle, SetTask, StoresAgree
  <2>5. QED
    BY <2>1, <2>2, <2>3, <2>4 DEF Moved
<1>3. PerformedOnce'
  <2>1. CASE Reads
    BY <2>1 DEF SetTask, PerformedOnce
  <2>2. CASE Propose(r)
    BY <2>2 DEF Propose, SetTask, PerformedOnce
  <2>3. CASE Approve(r)
    <3>1. task[r] = "awaiting_approval"
      BY <2>3 DEF Approve, StoresAgree
    <3>2. performed[r] = 0
      BY <3>1 DEF PerformedOnce
    <3>3. QED
      BY <2>3, <3>2 DEF Approve, Settle, SetTask, PerformedOnce
  <2>4. CASE Reject(r)
    <3>1. task[r] = "awaiting_approval"
      BY <2>4 DEF Reject, StoresAgree
    <3>2. QED
      BY <2>4, <3>1 DEF Reject, Settle, SetTask, PerformedOnce
  <2>5. QED
    BY <2>1, <2>2, <2>3, <2>4 DEF Moved
<1>4. QED
  BY <1>1, <1>2, <1>3

LEMMA NextIInv == ASSUME IInv, [Next]_vars PROVE IInv'
<1>1. ASSUME NEW r \in Requests, Moved(r)
      PROVE  IInv'
  BY <1>1, MovedKeeps
<1>2. ASSUME NEW p \in Processes, Restart(p)
      PROVE  IInv'
  <2>1. StoresTypeOK'
    BY <1>2 DEF Restart, IInv, StoresTypeOK
  <2>2. StoresAgree'
    BY <1>2 DEF Restart, IInv, StoresTypeOK, StoresAgree
  <2>3. PerformedOnce'
    BY <1>2 DEF Restart, IInv, StoresTypeOK, PerformedOnce
  <2>4. QED
    BY <2>1, <2>2, <2>3 DEF IInv
<1>3. CASE UNCHANGED stores
  BY <1>3 DEF stores, IInv, StoresTypeOK, StoresAgree, PerformedOnce
<1>4. QED
  BY <1>1, <1>2, <1>3, StepsOfStores

LEMMA InvariantIInv == Spec => []IInv
<1>1. IInv /\ [Next]_vars => IInv'
  BY NextIInv
<1>2. QED
  BY <1>1, InitIInv, PTL DEF Spec

(* The types of the stores of main.py and of the agent.                       *)
THEOREM StoresTypeCorrect == Spec => []StoresTypeOK
<1>1. IInv => StoresTypeOK
  BY DEF IInv
<1>2. QED
  BY <1>1, InvariantIInv, PTL

(* _task_store, _approval_store and _pending_actions never disagree on what   *)
(* waits for a decision, in any process.                                      *)
THEOREM StoresAlwaysAgree == Spec => []StoresAgree
<1>1. IInv => StoresAgree
  BY DEF IInv
<1>2. QED
  BY <1>1, InvariantIInv, PTL

(* However many people decide however often, and however often the service    *)
(* restarts, an action is carried out at most once and only when approved.    *)
THEOREM ActionsArePerformedOnce == Spec => []PerformedOnce
<1>1. IInv => PerformedOnce
  BY DEF IInv
<1>2. QED
  BY <1>1, InvariantIInv, PTL

(* What was decided is never decided again: a request that is completed,      *)
(* failed or rejected keeps its status until a restart loses it.              *)
Settled == {"completed", "failed", "rejected"}

LEMMA SettledStep ==
    ASSUME IInv, [Next]_vars, NEW r \in Requests, task[r] \in Settled
    PROVE  task'[r] \in {task[r], "lost"}
<1> USE DEF IInv, StoresTypeOK, Settled
<1>1. ASSUME NEW q \in Requests, Moved(q)
      PROVE  task'[r] = task[r]
  <2>1. task[q] \notin Settled
    BY <1>1 DEF Moved, Propose, Approve, Reject, StoresAgree
  <2>2. QED
    BY <1>1, <2>1 DEF Moved, Propose, Approve, Reject, Settle, SetTask
<1>2. ASSUME NEW p \in Processes, Restart(p)
      PROVE  task'[r] \in {task[r], "lost"}
  BY <1>2 DEF Restart
<1>3. CASE UNCHANGED stores
  BY <1>3 DEF stores
<1>4. QED
  BY <1>1, <1>2, <1>3, StepsOfStores

THEOREM DecisionsAreFinal ==
    Spec => [][\A r \in Requests : task[r] \in Settled => task'[r] \in {task[r], "lost"}]_vars
<1>1. IInv /\ [Next]_vars =>
          [\A r \in Requests : task[r] \in Settled => task'[r] \in {task[r], "lost"}]_vars
  BY SettledStep
<1>2. QED
  BY <1>1, InvariantIInv, PTL DEF Spec

(***************************************************************************)
(* The lists of connections.                                               *)
(***************************************************************************)

(* Indices have different places, in their order, and every place is taken.   *)
LEMMA Places ==
    ASSUME NEW n \in Nat, NEW I \in SUBSET (1..n)
    PROVE  /\ IsFiniteSet(I) /\ Cardinality(I) \in Nat
           /\ \A i \in I : Place(I, i) \in 1..Cardinality(I)
           /\ \A i, j \in I : i < j => Place(I, i) < Place(I, j)
           /\ \A k \in 1..Cardinality(I) : \E i \in I : Place(I, i) = k
<1> DEFINE UpTo(i) == {j \in I : j <= i}
           c == Cardinality(I)
           F == [i \in I |-> Place(I, i)]
<1>1. I \subseteq Nat /\ IsFiniteSet(I) /\ c \in Nat
  <2>1. IsFiniteSet(1..n)
    BY FS_Interval
  <2>2. I \subseteq Nat
    OBVIOUS
  <2>3. IsFiniteSet(I)
    BY <2>1, FS_Subset
  <2>4. QED
    BY <2>2, <2>3, FS_CardinalityType
<1>2. ASSUME NEW i \in I
      PROVE  IsFiniteSet(UpTo(i)) /\ Place(I, i) \in Nat /\ Place(I, i) \in 1..c
  <2>1. UpTo(i) \in SUBSET I /\ i \in UpTo(i)
    BY <1>1
  <2>2. IsFiniteSet(UpTo(i)) /\ Cardinality(UpTo(i)) \in Nat /\ Cardinality(UpTo(i)) <= c
    BY <1>1, <2>1, FS_Subset, FS_CardinalityType
  <2>3. Cardinality(UpTo(i)) # 0
    BY <2>1, <2>2, FS_EmptySet
  <2>4. QED
    BY <1>1, <2>2, <2>3 DEF Place
<1>3. ASSUME NEW i \in I, NEW j \in I, i < j
      PROVE  Place(I, i) < Place(I, j)
  <2>1. UpTo(i) \in SUBSET UpTo(j) /\ j \in UpTo(j) /\ j \notin UpTo(i)
    <3>1. i \in Nat /\ j \in Nat /\ \A x \in I : x \in Nat
      BY <1>1
    <3>2. \A x \in Nat : x <= i => x <= j
      BY <1>3, <3>1
    <3>3. UpTo(i) \subseteq UpTo(j) /\ j \in UpTo(j) /\ ~(j <= i)
      <4>1. \A x \in I : x <= i => x <= j
        BY <3>1, <3>2
      <4>2. UpTo(i) \subseteq UpTo(j)
        BY <4>1
      <4>3. j <= j /\ ~(j <= i)
        BY <1>3, <3>1
      <4>4. QED
        BY <4>2, <4>3
    <3>4. QED
      BY <3>3
  <2>2. Cardinality(UpTo(i)) <= Cardinality(UpTo(j)) /\ Cardinality(UpTo(i)) # Cardinality(UpTo(j))
    BY <1>2, <2>1, FS_Subset
  <2>3. QED
    BY <1>2, <2>2 DEF Place
<1>4a. \A i \in I : Place(I, i) \in Nat
  <2> TAKE i \in I
  <2> QED
    BY <1>2
<1>4. F \in Injection(I, 1..c)
  <2>1. F \in [I -> 1..c]
    BY <1>2
  <2>2. ASSUME NEW i \in I, NEW j \in I, F[i] = F[j]
        PROVE  i = j
    <3>1. Place(I, i) = Place(I, j) /\ Place(I, i) \in Nat
      BY <1>4a, <2>2
    <3>2. ~(i < j) /\ ~(j < i)
      BY <1>3, <3>1
    <3>3. QED
      BY <1>1, <3>2
  <2>3. QED
    BY <2>1, <2>2 DEF Injection, IsInjective
<1>5. F \in Surjection(I, 1..c)
  <2>1. IsFiniteSet(1..c) /\ Cardinality(1..c) = c
    BY <1>1, FS_Interval
  <2>2. QED
    BY <1>4, <2>1, FS_Injection
<1>6. \A k \in 1..c : \E i \in I : Place(I, i) = k
  BY <1>5 DEF Surjection
<1>7. QED
  BY <1>1, <1>2, <1>3, <1>6

(* What is kept, by its place. *)
LEMMA KeptPlaces ==
    ASSUME NEW S, NEW s \in Seq(S), NEW I \in SUBSET DOMAIN s
    PROVE  /\ Keep(s, I) \in Seq(S)
           /\ Len(Keep(s, I)) = Cardinality(I)
           /\ \A k \in 1..Cardinality(I) :
                 \E i \in I : Place(I, i) = k /\ Keep(s, I)[k] = s[i]
           /\ \A i \in I : Keep(s, I)[Place(I, i)] = s[i]
<1> DEFINE c == Cardinality(I)
           At(k) == CHOOSE i \in I : Place(I, i) = k
<1>1. DOMAIN s = 1..Len(s) /\ Len(s) \in Nat /\ \A i \in DOMAIN s : s[i] \in S
  OBVIOUS
<1>2. /\ c \in Nat
      /\ \A i \in I : Place(I, i) \in 1..c
      /\ \A i, j \in I : i < j => Place(I, i) < Place(I, j)
      /\ \A k \in 1..c : \E i \in I : Place(I, i) = k
  <2>1. Len(s) \in Nat /\ I \in SUBSET (1..Len(s))
    BY <1>1
  <2>2. QED
    BY <2>1, Places
<1>3. ASSUME NEW k \in 1..c
      PROVE  At(k) \in I /\ Place(I, At(k)) = k /\ Keep(s, I)[k] = s[At(k)]
  BY <1>2 DEF Keep
<1>4. ASSUME NEW i \in I
      PROVE  Keep(s, I)[Place(I, i)] = s[i]
  <2>1. Place(I, i) \in 1..c
    BY <1>2
  <2>2. At(Place(I, i)) \in I /\ Place(I, At(Place(I, i))) = Place(I, i)
    BY <1>3, <2>1
  <2>3. At(Place(I, i)) = i
    BY <1>1, <1>2, <2>2
  <2>4. QED
    BY <1>3, <2>1, <2>3
<1>5. Keep(s, I) \in [1..c -> S]
  <2>1. \A k \in 1..c : s[At(k)] \in S
    BY <1>1, <1>3
  <2>2. QED
    BY <2>1 DEF Keep
<1>6. Keep(s, I) \in Seq(S) /\ Len(Keep(s, I)) = c
  BY <1>2, <1>5
<1>7. QED
  BY <1>3, <1>4, <1>6
(* No element moves up the list, and nothing moves when everything is kept.   *)
LEMMA KeptOnlyMovesDown ==
    ASSUME NEW n \in Nat, NEW I \in SUBSET (1..n), NEW i \in I
    PROVE  Place(I, i) <= i /\ (I = 1..n => Place(I, i) = i)
<1> DEFINE U == {j \in I : j <= i}
<1>1. i \in Nat /\ i <= n /\ 1 <= i
  OBVIOUS
<1>2. IsFiniteSet(1..i) /\ Cardinality(1..i) = i
  <2>1. 1 \in Int /\ i \in Int
    BY <1>1
  <2>2. IsFiniteSet(1..i) /\ Cardinality(1..i) = IF 1 > i THEN 0 ELSE i - 1 + 1
    BY <2>1, FS_Interval
  <2>3. QED
    BY <1>1, <2>2
<1>3. U \in SUBSET (1..i)
  <2>1. \A j \in I : j \in Nat /\ 1 <= j
    OBVIOUS
  <2>2. \A j \in I : j <= i => j \in 1..i
    BY <1>1, <2>1
  <2>3. QED
    BY <2>2
<1>4. Cardinality(U) <= i
  BY <1>2, <1>3, FS_Subset
<1>5. I = 1..n => U = 1..i
  BY <1>1
<1>6. QED
  BY <1>2, <1>4, <1>5 DEF Place

LEMMA KeepAll ==
    ASSUME NEW S, NEW s \in Seq(S)
    PROVE  Keep(s, DOMAIN s) = s
<1> DEFINE n == Len(s)
           k == Keep(s, 1..n)
<1>1. n \in Nat /\ DOMAIN s = 1..n /\ (1..n) \in SUBSET DOMAIN s /\ (1..n) \in SUBSET (1..n)
  OBVIOUS
<1>2. Cardinality(1..n) = n
  <2>1. 1 \in Int /\ n \in Int
    BY <1>1
  <2>2. Cardinality(1..n) = IF 1 > n THEN 0 ELSE n - 1 + 1
    BY <2>1, FS_Interval
  <2>3. QED
    BY <1>1, <2>2
<1>3. /\ k \in Seq(S) /\ Len(k) = n
      /\ \A i \in 1..n : k[Place(1..n, i)] = s[i]
  BY <1>1, <1>2, KeptPlaces
<1>4. \A i \in 1..n : Place(1..n, i) = i
  BY <1>1, KeptOnlyMovesDown
<1>5. \A i \in 1..n : k[i] = s[i]
  BY <1>3, <1>4
<1>6. k = s
  BY <1>3, <1>5, SeqEqual
<1>7. QED
  BY <1>1, <1>6

(* A connection is in one list at most, and there once. *)
ListsApart ==
    \A p, q \in Processes : \A i \in DOMAIN connections[p], j \in DOMAIN connections[q] :
        connections[p][i] = connections[q][j] => p = q /\ i = j

(* What a removal does to the lists: only the list of its process changes,    *)
(* its elements move down or stay, and nothing changes if nobody is removed.  *)
LEMMA Removal ==
    ASSUME ChannelTypeOK, NEW p \in Processes, NEW gone, Remove(p, gone)
    PROVE  /\ connections' \in [Processes -> Seq(Sockets)]
           /\ \A q \in Processes \ {p} : connections'[q] = connections[q]
           /\ \A k \in DOMAIN connections'[p] :
                 \E i \in DOMAIN connections[p] :
                    k <= i /\ connections'[p][k] = connections[p][i]
           /\ ListsApart => \A k, l \in DOMAIN connections'[p] :
                               connections'[p][k] = connections'[p][l] => k = l
           /\ gone \cap Listening(p) = {} => connections'[p] = connections[p]
<1> DEFINE list == connections[p]
           I == {i \in DOMAIN list : list[i] \notin gone}
           kept == Keep(list, I)
<1>1. list \in Seq(Sockets) /\ Len(list) \in Nat /\ DOMAIN list = 1..Len(list)
  BY DEF ChannelTypeOK
<1>2. I \in SUBSET DOMAIN list /\ I \in SUBSET (1..Len(list))
  BY <1>1
<1>3. /\ connections' = [connections EXCEPT ![p] = kept]
      /\ connections'[p] = kept
      /\ \A q \in Processes \ {p} : connections'[q] = connections[q]
  BY DEF Remove, ChannelTypeOK
<1>4. /\ kept \in Seq(Sockets) /\ Len(kept) = Cardinality(I)
      /\ \A k \in 1..Cardinality(I) : \E i \in I : Place(I, i) = k /\ kept[k] = list[i]
  <2>1. list \in Seq(Sockets)
    BY <1>1
  <2>2. \A J \in SUBSET DOMAIN list :
           /\ Keep(list, J) \in Seq(Sockets) /\ Len(Keep(list, J)) = Cardinality(J)
           /\ \A k \in 1..Cardinality(J) :
                 \E i \in J : Place(J, i) = k /\ Keep(list, J)[k] = list[i]
    BY <2>1, KeptPlaces
  <2>3. QED
    BY <1>2, <2>2
<1>5. DOMAIN kept = 1..Cardinality(I)
  BY <1>4
<1>6. ASSUME NEW k \in DOMAIN kept
      PROVE  \E i \in DOMAIN list : k <= i /\ kept[k] = list[i]
  <2>1. PICK i \in I : Place(I, i) = k /\ kept[k] = list[i]
    BY <1>4, <1>5
  <2>2. k <= i
    BY <1>1, <1>2, <2>1, KeptOnlyMovesDown
  <2>3. QED
    BY <1>2, <2>1, <2>2
<1>7. ASSUME ListsApart, NEW k \in DOMAIN kept, NEW l \in DOMAIN kept, kept[k] = kept[l]
      PROVE  k = l
  <2>1. PICK i \in I : Place(I, i) = k /\ kept[k] = list[i]
    BY <1>4, <1>5
  <2>2. PICK j \in I : Place(I, j) = l /\ kept[l] = list[j]
    BY <1>4, <1>5
  <2>3. i = j
    BY <1>2, <1>7, <2>1, <2>2 DEF ListsApart
  <2>4. QED
    BY <2>1, <2>2, <2>3
<1>8. ASSUME gone \cap Listening(p) = {}
      PROVE  kept = list
  <2>1. I = DOMAIN list
    BY <1>1, <1>8 DEF Listening
  <2>2. QED
    BY <1>1, <2>1, KeepAll
<1>9. connections' \in [Processes -> Seq(Sockets)]
  BY <1>3, <1>4 DEF ChannelTypeOK
<1>10. QED
  BY <1>3, <1>6, <1>7, <1>8, <1>9

(***************************************************************************)
(* Types.                                                                  *)
(***************************************************************************)

(* What a step about a request does to the channel: at most it announces one  *)
(* update, and the status of the task says which.                             *)
Reports(r) ==
    /\ UNCHANGED <<home, connections, socket, received, audience, restarts>>
    /\ \E status \in {"executing", "awaiting_approval", "completed", "failed", "rejected"} :
          /\ SetTask(r, status)
          /\ \/ /\ task[r] \in {"new", "executing"}
                /\ status \in {"executing", "failed"}
                /\ UNCHANGED cast
             \/ /\ task[r] \in {"new", "executing"}
                /\ status # "executing"
                /\ Announce(r, "executed")
             \/ /\ task[r] = "awaiting_approval"
                /\ status \in {"completed", "rejected"}
                /\ Announce(r, "decided")

LEMMA RequestsReport ==
    ASSUME IInv, NEW r \in Requests,
           \/ StartReading(r) \/ FinishReading(r) \/ Plan(r)
           \/ Refuse(r) \/ Propose(r) \/ Approve(r) \/ Reject(r)
    PROVE  Reports(r)
<1>1. CASE StartReading(r)
  BY <1>1 DEF StartReading, Reports, channel
<1>2. CASE FinishReading(r)
  BY <1>2 DEF FinishReading, Reports, NoCastChange
<1>3. CASE Plan(r)
  BY <1>3 DEF Plan, Reports, NoCastChange
<1>4. CASE Refuse(r)
  BY <1>4 DEF Refuse, Reports, NoCastChange
<1>5. CASE Propose(r)
  BY <1>5 DEF Propose, Reports, NoCastChange
<1>6. CASE Approve(r)
  <2>1. task[r] = "awaiting_approval"
    BY <1>6 DEF Approve, IInv, StoresAgree
  <2>2. QED
    BY <1>6, <2>1 DEF Approve, Settle, Reports, NoCastChange
<1>7. CASE Reject(r)
  <2>1. task[r] = "awaiting_approval"
    BY <1>7 DEF Reject, IInv, StoresAgree
  <2>2. QED
    BY <1>7, <2>1 DEF Reject, Settle, Reports, NoCastChange
<1>8. QED
  BY <1>1, <1>2, <1>3, <1>4, <1>5, <1>6, <1>7

CastStates == [state : {"none", "queued", "sending", "ended"},
               at : Nat \ {0}, failed : SUBSET Sockets]

LEMMA NextChannelTyped ==
    ASSUME IInv, IInv', ChannelTypeOK, restarts \in 0..MaxRestarts, [Next]_vars
    PROVE  ChannelTypeOK' /\ (restarts \in 0..MaxRestarts)'
<1> USE DEF ChannelTypeOK
<1>0. \A p \in Processes : connections[p] \in Seq(Sockets) /\ Listening(p) \subseteq Sockets
  BY DEF Listening
<1>1. ASSUME NEW r \in Requests, Reports(r)
      PROVE  ChannelTypeOK' /\ (restarts \in 0..MaxRestarts)'
  <2>1. <<r, "executed">> \in Casts /\ <<r, "decided">> \in Casts
    BY DEF Casts
  <2>2. ASSUME NEW b \in Casts
        PROVE  [cast EXCEPT ![b].state = "queued"] \in [Casts -> CastStates]
    BY DEF CastStates
  <2>3. cast' \in [Casts -> CastStates]
    <3>1. cast \in [Casts -> CastStates]
      BY DEF CastStates
    <3>2. \/ cast' = cast
          \/ cast' = [cast EXCEPT ![<<r, "executed">>].state = "queued"]
          \/ cast' = [cast EXCEPT ![<<r, "decided">>].state = "queued"]
      BY <1>1 DEF Reports, Announce
    <3>3. QED
      BY <2>1, <2>2, <3>1, <3>2
  <2>4. QED
    BY <1>1, <2>3 DEF Reports, CastStates
<1>2. ASSUME NEW s \in Sockets, NEW p \in Processes, Connect(s, p)
      PROVE  ChannelTypeOK' /\ (restarts \in 0..MaxRestarts)'
  <2>1. Append(connections[p], s) \in Seq(Sockets)
    BY <1>0
  <2>2. QED
    BY <1>2, <2>1 DEF Connect
<1>3. ASSUME NEW s \in Sockets, Hangup(s)
      PROVE  ChannelTypeOK' /\ (restarts \in 0..MaxRestarts)'
  BY <1>3 DEF Hangup
<1>4. ASSUME NEW p \in Processes, NEW gone, Remove(p, gone)
      PROVE  /\ connections' \in [Processes -> Seq(Sockets)]
             /\ audience' \in [Casts -> SUBSET Sockets]
  <2>1. connections' \in [Processes -> Seq(Sockets)]
    BY <1>4, Removal
  <2>2. audience' \in [Casts -> SUBSET Sockets]
    BY <1>4 DEF Remove
  <2>3. QED
    BY <2>1, <2>2
<1>5. ASSUME NEW s \in Sockets, NEW p \in Processes, Leave(s, p)
      PROVE  ChannelTypeOK' /\ (restarts \in 0..MaxRestarts)'
  <2>1. Remove(p, {s}) /\ UNCHANGED <<socket, cast, received, restarts>>
    BY <1>5 DEF Leave
  <2>2. QED
    BY <1>4, <2>1
<1>6. ASSUME NEW b \in Casts
      PROVE  home[b[1]] \in Processes
  BY DEF Casts, IInv, StoresTypeOK
<1>7. ASSUME NEW b \in Casts, StartCast(b)
      PROVE  ChannelTypeOK' /\ (restarts \in 0..MaxRestarts)'
  <2>1. cast' \in [Casts -> CastStates]
    BY <1>7 DEF StartCast, CastStates
  <2>2. audience' \in [Casts -> SUBSET Sockets]
    BY <1>0, <1>6, <1>7 DEF StartCast
  <2>3. QED
    BY <1>7, <2>1, <2>2 DEF StartCast, CastStates
<1>8. ASSUME NEW b \in Casts, Send(b)
      PROVE  ChannelTypeOK' /\ (restarts \in 0..MaxRestarts)'
  <2> DEFINE to == connections[home[b[1]]][cast[b].at]
  <2>1. to \in Sockets
    <3>1. cast[b].at \in Nat \ {0} /\ cast[b].at <= Len(connections[home[b[1]]])
      BY <1>8 DEF Send
    <3>2. QED
      BY <1>0, <1>6, <3>1
  <2>2. cast' \in [Casts -> CastStates]
    <3>1. cast[b].at + 1 \in Nat \ {0} /\ cast[b].failed \subseteq Sockets
      OBVIOUS
    <3>2. \A x \in Nat \ {0}, f \in SUBSET Sockets :
             [state |-> "sending", at |-> x, failed |-> f] \in CastStates
      BY DEF CastStates
    <3>3. PICK f \in SUBSET Sockets :
             cast' = [cast EXCEPT ![b] = [state |-> "sending", at |-> cast[b].at + 1, failed |-> f]]
      BY <1>8, <2>1, <3>1 DEF Send
    <3>4. QED
      BY <3>1, <3>2, <3>3 DEF CastStates
  <2>3. received' \in [Sockets -> [Casts -> Nat]]
    <3>1. received' = received \/ received' = [received EXCEPT ![to][b] = @ + 1]
      BY <1>8 DEF Send
    <3>2. [received EXCEPT ![to][b] = @ + 1] \in [Sockets -> [Casts -> Nat]]
      BY <2>1
    <3>3. QED
      BY <3>1, <3>2
  <2>4. QED
    BY <1>8, <2>2, <2>3 DEF Send, CastStates
<1>9. ASSUME NEW b \in Casts, EndCast(b)
      PROVE  ChannelTypeOK' /\ (restarts \in 0..MaxRestarts)'
  <2>1. Remove(home[b[1]], cast[b].failed) /\ UNCHANGED <<socket, received, restarts>>
    BY <1>9 DEF EndCast
  <2>2. cast' \in [Casts -> CastStates]
    BY <1>9 DEF EndCast, CastStates
  <2>3. QED
    BY <1>4, <1>6, <2>1, <2>2 DEF CastStates
<1>10. ASSUME NEW p \in Processes, Restart(p)
       PROVE  ChannelTypeOK' /\ (restarts \in 0..MaxRestarts)'
  <2>1. NoCast \in CastStates
    BY DEF NoCast, CastStates
  <2>2. cast' \in [Casts -> CastStates]
    <3>1. cast \in [Casts -> CastStates]
      BY DEF CastStates
    <3>2. \A b \in Casts : cast'[b] \in {cast[b], NoCast}
      BY <1>10 DEF Restart
    <3>3. cast' = [b \in Casts |-> cast'[b]]
      BY <1>10 DEF Restart
    <3>4. QED
      BY <2>1, <3>1, <3>2, <3>3
  <2>3. (restarts \in 0..MaxRestarts)'
    BY <1>10, ConstantsAssumption DEF Restart
  <2>4. QED
    BY <1>10, <2>2, <2>3 DEF Restart, CastStates
<1>11. CASE UNCHANGED vars
  BY <1>11 DEF vars, channel
<1>12. QED
  BY <1>1, <1>2, <1>3, <1>5, <1>7, <1>8, <1>9, <1>10, <1>11, RequestsReport DEF Next

(***************************************************************************)
(* Broadcasts.                                                             *)
(***************************************************************************)

(* A connection that nobody has opened is in no list, was sent nothing and is *)
(* owed nothing.                                                              *)
NewOnesOK ==
    \A s \in Sockets : socket[s] = "new" =>
        /\ \A p \in Processes : \A i \in DOMAIN connections[p] : connections[p][i] # s
        /\ \A b \in Casts : received[s][b] = 0 /\ s \notin audience[b]

(* What is announced later has not begun. *)
Unsent(b) ==
    /\ cast[b].state = "none" /\ cast[b].at = 1
    /\ \A s \in Sockets : received[s][b] = 0

LaterOK ==
    \A r \in Requests :
        /\ task[r] \in {"new", "executing"} => Unsent(<<r, "executed">>)
        /\ task[r] \in {"new", "executing", "awaiting_approval"} => Unsent(<<r, "decided">>)

List(b) == connections[home[b[1]]]

(* A loop begins at the head of the list, and nobody at its position or       *)
(* behind it has got the update.                                              *)
LoopsOK ==
    \A b \in Casts :
        /\ cast[b].state = "queued" =>
             cast[b].at = 1 /\ \A s \in Sockets : received[s][b] = 0
        /\ cast[b].state = "sending" =>
             \A i \in DOMAIN List(b) : cast[b].at <= i => received[List(b)[i]][b] = 0

(* Whom a loop owes the update is in the list, and has got it or has gone if  *)
(* the loop is past that place.                                               *)
OwedOK ==
    \A b \in Casts : cast[b].state = "sending" =>
        \A s \in audience[b] : \E i \in DOMAIN List(b) :
            /\ List(b)[i] = s
            /\ i < cast[b].at /\ socket[s] = "open" => received[s][b] > 0

BroadcastsOK ==
    /\ ListsApart /\ NewOnesOK /\ LaterOK /\ LoopsOK /\ OwedOK
    /\ NoUpdateTwice /\ QuietBroadcastReachesItsList

CastInv == IInv /\ ChannelTypeOK /\ restarts \in 0..MaxRestarts /\ BroadcastsOK

LEMMA InitCastInv == Init => CastInv
<1>1. SUFFICES ASSUME Init PROVE CastInv
  OBVIOUS
<1>2. IInv
  BY <1>1, InitIInv
<1>3. ChannelTypeOK /\ restarts \in 0..MaxRestarts
  BY <1>1, ConstantsAssumption DEF Init, ChannelTypeOK, NoCast
<1>4. \A b \in Casts : cast[b] = NoCast /\ \A s \in Sockets : received[s][b] = 0
  BY <1>1 DEF Init
<1>5. ListsApart /\ NewOnesOK
  BY <1>1 DEF Init, ListsApart, NewOnesOK
<1>6. LaterOK
  BY <1>4 DEF LaterOK, Unsent, NoCast, Casts
<1>7. LoopsOK /\ OwedOK /\ NoUpdateTwice /\ QuietBroadcastReachesItsList
  BY <1>4 DEF LoopsOK, OwedOK, NoUpdateTwice, QuietBroadcastReachesItsList, NoCast
<1>8. QED
  BY <1>2, <1>3, <1>5, <1>6, <1>7 DEF CastInv, BroadcastsOK

LEMMA CastHome ==
    ASSUME StoresTypeOK, ChannelTypeOK, NEW b \in Casts
    PROVE  /\ home[b[1]] \in Processes /\ List(b) \in Seq(Sockets)
           /\ Len(List(b)) \in Nat /\ DOMAIN List(b) = 1..Len(List(b))
           /\ \A i \in DOMAIN List(b) : List(b)[i] \in Sockets
           /\ cast[b].at \in Nat \ {0}
<1>1. home[b[1]] \in Processes
  BY DEF Casts, StoresTypeOK
<1>2. List(b) \in Seq(Sockets)
  BY <1>1 DEF ChannelTypeOK, List
<1>3. cast[b].at \in Nat \ {0}
  BY DEF ChannelTypeOK
<1>4. QED
  BY <1>1, <1>2, <1>3

LEMMA ReportsKeeps ==
    ASSUME CastInv, NEW r \in Requests, Reports(r)
    PROVE  BroadcastsOK'
<1> USE DEF CastInv, BroadcastsOK
<1>1. UNCHANGED <<home, connections, socket, received, audience>>
  BY DEF Reports
<1>2. /\ \A q \in Requests \ {r} : task'[q] = task[q]
      /\ task'[r] # "new"
      /\ task'[r] = "executing" => task[r] \in {"new", "executing"} /\ cast' = cast
      /\ task'[r] = "awaiting_approval" =>
            /\ task[r] \in {"new", "executing"}
            /\ cast' = [cast EXCEPT ![<<r, "executed">>].state = "queued"]
  BY DEF Reports, SetTask, Announce, IInv, StoresTypeOK
<1>3. \/ cast' = cast
      \/ /\ task[r] \in {"new", "executing"}
         /\ cast' = [cast EXCEPT ![<<r, "executed">>].state = "queued"]
      \/ /\ task[r] = "awaiting_approval"
         /\ cast' = [cast EXCEPT ![<<r, "decided">>].state = "queued"]
  BY DEF Reports, Announce
<1>4. <<r, "executed">> \in Casts /\ <<r, "decided">> \in Casts
  BY DEF Casts
<1>5. ASSUME NEW c \in Casts
      PROVE  \/ cast'[c] = cast[c]
             \/ Unsent(c) /\ cast'[c].state = "queued" /\ cast'[c].at = 1
  <2>1. cast[c] \in CastStates
    BY DEF ChannelTypeOK, CastStates
  <2>2. ASSUME NEW a \in Casts, Unsent(a), cast' = [cast EXCEPT ![a].state = "queued"]
        PROVE  \/ cast'[c] = cast[c]
               \/ Unsent(c) /\ cast'[c].state = "queued" /\ cast'[c].at = 1
    BY <2>1, <2>2 DEF ChannelTypeOK, Unsent, CastStates
  <2>3. QED
    BY <1>3, <1>4, <2>2 DEF LaterOK
<1>6. ASSUME NEW q \in Requests, NEW u \in {"executed", "decided"},
             cast'[<<q, u>>] = cast[<<q, u>>], Unsent(<<q, u>>)
      PROVE  Unsent(<<q, u>>)'
  BY <1>1, <1>6 DEF Unsent
<1>7. ASSUME NEW q \in Requests, q # r, NEW u \in {"executed", "decided"}
      PROVE  cast'[<<q, u>>] = cast[<<q, u>>]
  <2>1. <<q, u>> # <<r, "executed">> /\ <<q, u>> # <<r, "decided">> /\ <<q, u>> \in Casts
    BY <1>7 DEF Casts
  <2>2. QED
    BY <1>3, <2>1 DEF ChannelTypeOK
<1>8. LaterOK'
  <2>1. ASSUME NEW q \in Requests
        PROVE  /\ task'[q] \in {"new", "executing"} => Unsent(<<q, "executed">>)'
               /\ task'[q] \in {"new", "executing", "awaiting_approval"}
                    => Unsent(<<q, "decided">>)'
    <3>1. CASE q # r
      BY <1>2, <1>6, <1>7, <3>1 DEF LaterOK
    <3>2. CASE q = r
      <4>1. CASE task'[r] = "executing"
        BY <1>2, <1>6, <3>2, <4>1 DEF LaterOK
      <4>2. CASE task'[r] = "awaiting_approval"
        <5>1. cast'[<<r, "decided">>] = cast[<<r, "decided">>]
          BY <1>2, <1>4, <4>2 DEF ChannelTypeOK
        <5>2. QED
          BY <1>2, <1>6, <3>2, <4>2, <5>1 DEF LaterOK
      <4>3. QED
        BY <1>2, <3>2, <4>1, <4>2
    <3>3. QED
      BY <3>1, <3>2
  <2>2. QED
    BY <2>1 DEF LaterOK
<1>9. \A c \in Casts : List(c)' = List(c)
  BY <1>1 DEF List
<1>10. LoopsOK'
  BY <1>1, <1>5, <1>9 DEF LoopsOK, Unsent
<1>11. OwedOK' /\ QuietBroadcastReachesItsList'
  BY <1>1, <1>5, <1>9 DEF OwedOK, QuietBroadcastReachesItsList
<1>12. ListsApart' /\ NewOnesOK' /\ NoUpdateTwice'
  BY <1>1 DEF ListsApart, NewOnesOK, NoUpdateTwice
<1>13. QED
  BY <1>8, <1>10, <1>11, <1>12

LEMMA ConnectKeeps ==
    ASSUME CastInv, NEW s \in Sockets, NEW p \in Processes, Connect(s, p)
    PROVE  BroadcastsOK'
<1> USE DEF CastInv, BroadcastsOK
<1>1. /\ socket[s] = "new"
      /\ socket' = [socket EXCEPT ![s] = "open"]
      /\ connections' = [connections EXCEPT ![p] = Append(connections[p], s)]
      /\ UNCHANGED <<task, home, cast, received, audience>>
  BY DEF Connect, stores
<1>2. /\ connections[p] \in Seq(Sockets) /\ Len(connections[p]) \in Nat
      /\ \A q \in Processes \ {p} : connections'[q] = connections[q]
      /\ \A q \in Processes : DOMAIN connections[q] = 1..Len(connections[q]) /\ Len(connections[q]) \in Nat
      /\ connections'[p] = Append(connections[p], s)
      /\ socket'[s] = "open" /\ \A t \in Sockets \ {s} : socket'[t] = socket[t]
  BY <1>1 DEF ChannelTypeOK
<1>3. /\ DOMAIN connections'[p] = 1..(Len(connections[p]) + 1)
      /\ connections'[p][Len(connections[p]) + 1] = s
      /\ \A i \in DOMAIN connections[p] :
            i \in DOMAIN connections'[p] /\ connections'[p][i] = connections[p][i]
  BY <1>2
<1>4. \A i \in DOMAIN connections'[p] :
         i \in DOMAIN connections[p] \/ i = Len(connections[p]) + 1
  BY <1>2, <1>3
<1>5. /\ \A q \in Processes : \A i \in DOMAIN connections[q] : connections[q][i] # s
      /\ \A b \in Casts : received[s][b] = 0 /\ s \notin audience[b]
  BY <1>1 DEF NewOnesOK
<1>6. ListsApart'
  <2>1. ASSUME NEW q \in Processes, NEW i \in DOMAIN connections'[q]
        PROVE  \/ i \in DOMAIN connections[q] /\ connections'[q][i] = connections[q][i]
               \/ q = p /\ i = Len(connections[p]) + 1 /\ connections'[q][i] = s
    BY <1>2, <1>3, <1>4
  <2>2. QED
    BY <1>5, <2>1 DEF ListsApart
<1>7. NewOnesOK'
  BY <1>1, <1>2, <1>3, <1>4 DEF NewOnesOK
<1>8. LaterOK' /\ NoUpdateTwice'
  BY <1>1 DEF LaterOK, Unsent, NoUpdateTwice
<1>9. ASSUME NEW b \in Casts
      PROVE  /\ \A i \in DOMAIN List(b) : i \in DOMAIN List(b)' /\ List(b)'[i] = List(b)[i]
             /\ \A i \in DOMAIN List(b)' :
                   \/ i \in DOMAIN List(b) /\ List(b)'[i] = List(b)[i]
                   \/ List(b)'[i] = s
  <2>1. home[b[1]] \in Processes /\ home' = home
    BY <1>1, CastHome DEF IInv
  <2>2. CASE home[b[1]] = p
    BY <1>3, <1>4, <2>1, <2>2 DEF List
  <2>3. CASE home[b[1]] # p
    BY <1>2, <2>1, <2>3 DEF List
  <2>4. QED
    BY <2>2, <2>3
<1>10. LoopsOK'
  BY <1>1, <1>5, <1>9 DEF LoopsOK
<1>11. OwedOK'
  <2>1. SUFFICES ASSUME NEW b \in Casts, cast[b].state = "sending", NEW t \in audience[b]
                 PROVE  \E i \in DOMAIN List(b)' :
                           /\ List(b)'[i] = t
                           /\ i < cast[b].at /\ socket'[t] = "open" => received[t][b] > 0
    BY <1>1 DEF OwedOK
  <2>2. t # s /\ t \in Sockets
    BY <1>5 DEF ChannelTypeOK
  <2>3. socket'[t] = socket[t]
    BY <1>2, <2>2
  <2>4. PICK i \in DOMAIN List(b) :
           List(b)[i] = t /\ (i < cast[b].at /\ socket[t] = "open" => received[t][b] > 0)
    BY <2>1 DEF OwedOK
  <2>5. QED
    BY <1>9, <2>3, <2>4
<1>12. QuietBroadcastReachesItsList'
  <2>1. \A b \in Casts : \A t \in audience[b] : t # s /\ t \in Sockets
    BY <1>5 DEF ChannelTypeOK
  <2>2. QED
    BY <1>1, <1>2, <2>1 DEF QuietBroadcastReachesItsList
<1>13. QED
  BY <1>6, <1>7, <1>8, <1>10, <1>11, <1>12

LEMMA HangupKeeps ==
    ASSUME CastInv, NEW s \in Sockets, Hangup(s)
    PROVE  BroadcastsOK'
<1> USE DEF CastInv, BroadcastsOK
<1>1. /\ socket[s] = "open" /\ socket' = [socket EXCEPT ![s] = "closed"]
      /\ UNCHANGED <<task, home, connections, cast, received, audience>>
  BY DEF Hangup, stores
<1>2. \A t \in Sockets : /\ socket'[t] = "new" => socket[t] = "new"
                         /\ socket'[t] = "open" => socket[t] = "open"
  BY <1>1 DEF ChannelTypeOK
<1>3. \A b \in Casts : audience[b] \subseteq Sockets /\ List(b)' = List(b)
  BY <1>1 DEF ChannelTypeOK, List
<1>4. ListsApart' /\ LaterOK' /\ LoopsOK' /\ NoUpdateTwice'
  BY <1>1, <1>3 DEF ListsApart, LaterOK, Unsent, LoopsOK, NoUpdateTwice
<1>5. NewOnesOK'
  BY <1>1, <1>2 DEF NewOnesOK
<1>6. OwedOK'
  BY <1>1, <1>2, <1>3 DEF OwedOK
<1>7. QuietBroadcastReachesItsList'
  BY <1>1, <1>2, <1>3 DEF QuietBroadcastReachesItsList
<1>8. QED
  BY <1>4, <1>5, <1>6, <1>7

(* Connections leave the list of p, and at most one loop ends: one that owes  *)
(* nothing any more.                                                          *)
LEMMA RemovalKeeps ==
    ASSUME CastInv, NEW p \in Processes, NEW gone, Remove(p, gone),
           UNCHANGED <<task, home, socket, received>>, cast' \in [Casts -> CastStates],
           \A c \in Casts :
              \/ cast'[c] = cast[c]
              \/ /\ cast[c].state = "sending" /\ cast'[c].state = "ended"
                 /\ cast[c].at > Len(List(c))
    PROVE  BroadcastsOK'
<1> USE DEF CastInv, BroadcastsOK
<1>1. /\ connections' \in [Processes -> Seq(Sockets)]
      /\ \A q \in Processes \ {p} : connections'[q] = connections[q]
      /\ \A k \in DOMAIN connections'[p] :
            \E i \in DOMAIN connections[p] : k <= i /\ connections'[p][k] = connections[p][i]
      /\ \A k, l \in DOMAIN connections'[p] : connections'[p][k] = connections'[p][l] => k = l
      /\ gone \cap Listening(p) = {} => connections'[p] = connections[p]
  BY Removal
<1>2. \A b \in Casts : audience'[b] =
           IF home[b[1]] = p /\ cast'[b].state = "sending" /\ gone \cap Listening(p) # {}
           THEN {} ELSE audience[b]
  BY DEF Remove
<1>3. ASSUME NEW q \in Processes, NEW k \in DOMAIN connections'[q]
      PROVE  \E i \in DOMAIN connections[q] : connections'[q][k] = connections[q][i]
  BY <1>1
<1>4. ListsApart'
  <2>1. ASSUME NEW q \in Processes, NEW o \in Processes,
               NEW k \in DOMAIN connections'[q], NEW l \in DOMAIN connections'[o],
               connections'[q][k] = connections'[o][l]
        PROVE  q = o /\ k = l
    <3>1. q = o
      BY <1>3, <2>1 DEF ListsApart
    <3>2. CASE q = p
      BY <1>1, <2>1, <3>1, <3>2
    <3>3. CASE q # p
      BY <1>1, <2>1, <3>1, <3>3 DEF ListsApart
    <3>4. QED
      BY <3>1, <3>2, <3>3
  <2>2. QED
    BY <2>1 DEF ListsApart
<1>5. NewOnesOK'
  <2>1. ASSUME NEW s \in Sockets, socket[s] = "new"
        PROVE  /\ \A q \in Processes : \A k \in DOMAIN connections'[q] : connections'[q][k] # s
               /\ \A b \in Casts : received[s][b] = 0 /\ s \notin audience'[b]
    BY <1>2, <1>3, <2>1 DEF NewOnesOK
  <2>2. QED
    BY <2>1 DEF NewOnesOK
<1>6. LaterOK'
  <2>1. ASSUME NEW c \in Casts, Unsent(c)
        PROVE  Unsent(c)'
    BY <2>1 DEF Unsent
  <2>2. \A r \in Requests : <<r, "executed">> \in Casts /\ <<r, "decided">> \in Casts
    BY DEF Casts
  <2>3. QED
    BY <2>1, <2>2 DEF LaterOK
<1>7. LoopsOK'
  <2>1. ASSUME NEW b \in Casts
        PROVE  /\ cast'[b].state = "queued" =>
                    cast'[b].at = 1 /\ \A s \in Sockets : received[s][b] = 0
               /\ cast'[b].state = "sending" =>
                    \A i \in DOMAIN List(b)' : cast'[b].at <= i => received[List(b)'[i]][b] = 0
    <3>1. CASE cast'[b] = cast[b]
      <4>1. ASSUME cast[b].state = "sending", NEW k \in DOMAIN List(b)', cast[b].at <= k
            PROVE  received[List(b)'[k]][b] = 0
        <5>1. home[b[1]] \in Processes /\ cast[b].at \in Nat
          BY CastHome DEF IInv
        <5>2. PICK i \in DOMAIN List(b) : k <= i /\ List(b)'[k] = List(b)[i]
          <6>1. CASE home[b[1]] = p
            BY <1>1, <4>1, <6>1 DEF List
          <6>2. CASE home[b[1]] # p
            <7>1. List(b)' = List(b)
              BY <1>1, <5>1, <6>2 DEF List
            <7>2. k \in DOMAIN List(b) /\ k \in Nat
              BY <4>1, <7>1, CastHome DEF IInv
            <7>3. QED
              BY <7>1, <7>2
          <6>3. QED
            BY <6>1, <6>2
        <5>3. DOMAIN List(b) = 1..Len(List(b)) /\ Len(List(b)) \in Nat /\ k \in Nat
          <6>1. List(b)' \in Seq(Sockets)
            BY <1>1, <5>1 DEF List
          <6>2. QED
            BY <4>1, <6>1, CastHome DEF IInv
        <5>4. cast[b].at <= i
          BY <4>1, <5>1, <5>2, <5>3
        <5>5. QED
          BY <4>1, <5>2, <5>4 DEF LoopsOK
      <4>2. QED
        BY <3>1, <4>1 DEF LoopsOK
    <3>2. CASE cast'[b].state = "ended"
      BY <3>2
    <3>3. QED
      BY <3>1, <3>2
  <2>2. QED
    BY <2>1 DEF LoopsOK
<1>8. OwedOK'
  <2>1. SUFFICES ASSUME NEW b \in Casts, cast'[b].state = "sending", NEW s \in audience'[b]
                 PROVE  \E i \in DOMAIN List(b)' :
                           /\ List(b)'[i] = s
                           /\ i < cast'[b].at /\ socket[s] = "open" => received[s][b] > 0
    BY DEF OwedOK
  <2>2. cast'[b] = cast[b] /\ s \in audience[b]
    BY <1>2, <2>1
  <2>3. List(b)' = List(b)
    <3>1. home[b[1]] \in Processes
      BY CastHome DEF IInv
    <3>2. home[b[1]] # p \/ gone \cap Listening(p) = {}
      BY <1>2, <2>1
    <3>3. QED
      BY <1>1, <3>1, <3>2 DEF List
  <2>4. QED
    BY <2>1, <2>2, <2>3 DEF OwedOK
<1>9. QuietBroadcastReachesItsList'
  <2>1. SUFFICES ASSUME NEW b \in Casts, cast'[b].state = "ended",
                        NEW s \in audience'[b], socket[s] = "open"
                 PROVE  received[s][b] > 0
    BY DEF QuietBroadcastReachesItsList
  <2>2. s \in audience[b]
    BY <1>2, <2>1
  <2>3. CASE cast'[b] = cast[b]
    BY <2>1, <2>2, <2>3 DEF QuietBroadcastReachesItsList
  <2>4. CASE cast[b].state = "sending" /\ cast[b].at > Len(List(b))
    <3>1. PICK i \in DOMAIN List(b) :
             List(b)[i] = s /\ (i < cast[b].at /\ socket[s] = "open" => received[s][b] > 0)
      BY <2>2, <2>4 DEF OwedOK
    <3>2. i < cast[b].at
      BY <2>4, <3>1, CastHome DEF IInv
    <3>3. QED
      BY <2>1, <3>1, <3>2
  <2>5. QED
    BY <2>3, <2>4
<1>10. NoUpdateTwice'
  BY DEF NoUpdateTwice
<1>11. QED
  BY <1>4, <1>5, <1>6, <1>7, <1>8, <1>9, <1>10

LEMMA StartCastKeeps ==
    ASSUME CastInv, NEW a \in Casts, StartCast(a)
    PROVE  BroadcastsOK'
<1> USE DEF CastInv, BroadcastsOK
<1>1. /\ cast[a].state = "queued"
      /\ cast' = [cast EXCEPT ![a].state = "sending"]
      /\ audience' = [audience EXCEPT ![a] = Listening(home[a[1]])]
      /\ UNCHANGED <<task, home, connections, socket, received>>
  BY DEF StartCast, stores
<1>2. /\ cast'[a].state = "sending" /\ cast'[a].at = 1
      /\ audience'[a] = {List(a)[i] : i \in 1..Len(List(a))}
      /\ \A s \in Sockets : received[s][a] = 0
      /\ \A b \in Casts \ {a} : cast'[b] = cast[b] /\ audience'[b] = audience[b]
  <2>1. cast[a].at = 1 /\ \A s \in Sockets : received[s][a] = 0
    BY <1>1 DEF LoopsOK
  <2>2. cast[a] \in CastStates
    BY DEF ChannelTypeOK, CastStates
  <2>3. cast'[a].state = "sending" /\ cast'[a].at = 1
    BY <1>1, <2>1, <2>2 DEF ChannelTypeOK, CastStates
  <2>4. audience'[a] = {List(a)[i] : i \in 1..Len(List(a))}
    BY <1>1 DEF ChannelTypeOK, Listening, List
  <2>5. QED
    BY <1>1, <2>1, <2>3, <2>4 DEF ChannelTypeOK
<1>3. \A b \in Casts : List(b)' = List(b)
  BY <1>1 DEF List
<1>4. /\ home[a[1]] \in Processes /\ DOMAIN List(a) = 1..Len(List(a)) /\ Len(List(a)) \in Nat
      /\ \A i \in DOMAIN List(a) : List(a)[i] \in Sockets
  BY CastHome DEF IInv
<1>5. ListsApart' /\ NoUpdateTwice'
  BY <1>1 DEF ListsApart, NoUpdateTwice
<1>6. NewOnesOK'
  BY <1>1, <1>2, <1>4 DEF NewOnesOK, List
<1>7. LaterOK'
  <2>1. ASSUME NEW c \in Casts, Unsent(c)
        PROVE  Unsent(c)'
    BY <1>1, <1>2, <2>1 DEF Unsent
  <2>2. \A r \in Requests : <<r, "executed">> \in Casts /\ <<r, "decided">> \in Casts
    BY DEF Casts
  <2>3. QED
    BY <1>1, <2>1, <2>2 DEF LaterOK
<1>8. LoopsOK'
  <2>1. ASSUME NEW b \in Casts
        PROVE  /\ cast'[b].state = "queued" =>
                    cast'[b].at = 1 /\ \A s \in Sockets : received[s][b] = 0
               /\ cast'[b].state = "sending" =>
                    \A i \in DOMAIN List(b) : cast'[b].at <= i => received[List(b)[i]][b] = 0
    <3>1. CASE b = a
      BY <1>2, <1>4, <3>1
    <3>2. CASE b # a
      BY <1>2, <3>2 DEF LoopsOK
    <3>3. QED
      BY <3>1, <3>2
  <2>2. QED
    BY <1>1, <1>3, <2>1 DEF LoopsOK
<1>9. OwedOK'
  <2>0. socket' = socket /\ received' = received
    BY <1>1
  <2>1. SUFFICES ASSUME NEW b \in Casts, cast'[b].state = "sending", NEW s \in audience'[b]
                 PROVE  \E i \in DOMAIN List(b) :
                           /\ List(b)[i] = s
                           /\ i < cast'[b].at /\ socket[s] = "open" => received[s][b] > 0
    BY <1>3, <2>0 DEF OwedOK
  <2>2. CASE b = a
    <3>1. PICK i \in DOMAIN List(a) : List(a)[i] = s
      BY <1>2, <1>4, <2>1, <2>2
    <3>2. ~(i < 1)
      BY <1>4, <3>1
    <3>3. QED
      BY <1>2, <2>2, <3>1, <3>2
  <2>3. CASE b # a
    BY <1>2, <2>1, <2>3 DEF OwedOK
  <2>4. QED
    BY <2>2, <2>3
<1>10. QuietBroadcastReachesItsList'
  BY <1>1, <1>2 DEF QuietBroadcastReachesItsList
<1>11. QED
  BY <1>5, <1>6, <1>7, <1>8, <1>9, <1>10

LEMMA SendKeeps ==
    ASSUME CastInv, NEW a \in Casts, Send(a)
    PROVE  BroadcastsOK'
<1> USE DEF CastInv, BroadcastsOK
<1> DEFINE at == cast[a].at
           to == List(a)[at]
<1>1. /\ cast[a].state = "sending" /\ at <= Len(List(a))
      /\ received' = IF socket[to] = "open"
                     THEN [received EXCEPT ![to][a] = @ + 1] ELSE received
      /\ UNCHANGED <<task, home, connections, socket, audience>>
  BY DEF Send, stores, List
<1>2. /\ home[a[1]] \in Processes /\ DOMAIN List(a) = 1..Len(List(a)) /\ Len(List(a)) \in Nat
      /\ at \in Nat \ {0} /\ at \in DOMAIN List(a) /\ to \in Sockets
  <2>1. /\ home[a[1]] \in Processes /\ DOMAIN List(a) = 1..Len(List(a)) /\ Len(List(a)) \in Nat
        /\ at \in Nat \ {0} /\ \A i \in DOMAIN List(a) : List(a)[i] \in Sockets
    BY CastHome DEF IInv
  <2>2. QED
    BY <1>1, <2>1
<1>3. /\ cast'[a].state = "sending" /\ cast'[a].at = at + 1
      /\ \A b \in Casts \ {a} : cast'[b] = cast[b]
  BY DEF Send, ChannelTypeOK
<1>4. received[to][a] = 0
  BY <1>1, <1>2 DEF LoopsOK
<1>5. /\ socket[to] = "open" => received'[to][a] = 1
      /\ socket[to] # "open" => received' = received
      /\ \A s \in Sockets, b \in Casts : s # to \/ b # a => received'[s][b] = received[s][b]
  BY <1>1, <1>2, <1>4 DEF ChannelTypeOK
<1>6. \A b \in Casts : List(b)' = List(b)
  BY <1>1 DEF List
<1>7. ListsApart'
  BY <1>1 DEF ListsApart
<1>8. NoUpdateTwice'
  <2>1. ASSUME NEW s \in Sockets, NEW b \in Casts
        PROVE  received'[s][b] <= 1
    <3>1. received[s][b] <= 1
      BY DEF NoUpdateTwice
    <3>2. QED
      BY <1>5, <3>1
  <2>2. QED
    BY <2>1 DEF NoUpdateTwice
<1>9. socket[to] # "new"
  BY <1>2 DEF NewOnesOK, List
<1>10. NewOnesOK'
  <2>1. ASSUME NEW s \in Sockets, socket[s] = "new", NEW b \in Casts
        PROVE  received'[s][b] = 0
    BY <1>5, <1>9, <2>1 DEF NewOnesOK
  <2>2. QED
    BY <1>1, <2>1 DEF NewOnesOK
<1>11. LaterOK'
  <2>1. ASSUME NEW c \in Casts, Unsent(c)
        PROVE  Unsent(c)'
    <3>1. c # a
      BY <1>1, <2>1 DEF Unsent
    <3>2. QED
      BY <1>3, <1>5, <2>1, <3>1 DEF Unsent
  <2>2. \A r \in Requests : <<r, "executed">> \in Casts /\ <<r, "decided">> \in Casts
    BY DEF Casts
  <2>3. QED
    BY <1>1, <2>1, <2>2 DEF LaterOK
<1>12. LoopsOK'
  <2>1. ASSUME NEW b \in Casts
        PROVE  /\ cast'[b].state = "queued" =>
                    cast'[b].at = 1 /\ \A s \in Sockets : received'[s][b] = 0
               /\ cast'[b].state = "sending" =>
                    \A i \in DOMAIN List(b) : cast'[b].at <= i => received'[List(b)[i]][b] = 0
    <3>1. CASE b = a
      <4>1. ASSUME NEW i \in DOMAIN List(a), at + 1 <= i
            PROVE  received'[List(a)[i]][a] = 0
        <5>1. i # at /\ at <= i
          BY <1>2, <4>1
        <5>2. List(a)[i] # to /\ List(a)[i] \in Sockets
          <6>1. i = at \/ List(a)[i] # to
            BY <1>2 DEF ListsApart, List
          <6>2. List(a)[i] \in Sockets
            BY CastHome DEF IInv
          <6>3. QED
            BY <5>1, <6>1, <6>2
        <5>3. received[List(a)[i]][a] = 0
          BY <1>1, <5>1 DEF LoopsOK
        <5>4. QED
          BY <1>5, <5>2, <5>3
      <4>2. QED
        BY <1>3, <3>1, <4>1
    <3>2. CASE b # a
      <4>1. \A s \in Sockets : received'[s][b] = received[s][b]
        BY <1>5, <3>2
      <4>2. \A i \in DOMAIN List(b) : List(b)[i] \in Sockets
        BY CastHome DEF IInv
      <4>3. QED
        BY <1>3, <3>2, <4>1, <4>2 DEF LoopsOK
    <3>3. QED
      BY <3>1, <3>2
  <2>2. QED
    BY <1>6, <2>1 DEF LoopsOK
<1>13. \A s \in Sockets, b \in Casts : received[s][b] > 0 => received'[s][b] > 0
  <2>1. ASSUME NEW s \in Sockets, NEW b \in Casts, received[s][b] > 0
        PROVE  received'[s][b] > 0
    BY <1>4, <1>5, <2>1
  <2>2. QED
    BY <2>1
<1>14. OwedOK'
  <2>1. SUFFICES ASSUME NEW b \in Casts, cast'[b].state = "sending", NEW s \in audience[b]
                 PROVE  \E i \in DOMAIN List(b) :
                           /\ List(b)[i] = s
                           /\ i < cast'[b].at /\ socket[s] = "open" => received'[s][b] > 0
    BY <1>1, <1>6 DEF OwedOK
  <2>2. cast[b].state = "sending" /\ s \in Sockets
    BY <1>1, <1>3, <2>1 DEF ChannelTypeOK
  <2>3. PICK i \in DOMAIN List(b) :
           List(b)[i] = s /\ (i < cast[b].at /\ socket[s] = "open" => received[s][b] > 0)
    BY <2>1, <2>2 DEF OwedOK
  <2>4. CASE b = a /\ i = at
    <3>1. s = to
      BY <2>3, <2>4
    <3>2. socket[s] = "open" => received'[s][b] > 0
      BY <1>5, <2>4, <3>1
    <3>3. QED
      BY <2>3, <3>2
  <2>5. CASE b = a /\ i # at
    <3>1. i < at + 1 => i < at
      BY <1>2, <2>3, <2>5
    <3>2. QED
      BY <1>3, <1>13, <2>2, <2>3, <2>5, <3>1
  <2>6. CASE b # a
    BY <1>3, <1>13, <2>2, <2>3, <2>6
  <2>7. QED
    BY <2>4, <2>5, <2>6
<1>15. QuietBroadcastReachesItsList'
  <2>1. ASSUME NEW b \in Casts, cast'[b].state = "ended", NEW s \in audience[b], socket[s] = "open"
        PROVE  received'[s][b] > 0
    <3>1. cast[b].state = "ended" /\ s \in Sockets
      BY <1>3, <2>1 DEF ChannelTypeOK
    <3>2. received[s][b] > 0
      BY <2>1, <3>1 DEF QuietBroadcastReachesItsList
    <3>3. QED
      BY <1>13, <3>1, <3>2
  <2>2. QED
    BY <1>1, <2>1 DEF QuietBroadcastReachesItsList
<1>16. QED
  BY <1>7, <1>8, <1>10, <1>11, <1>12, <1>14, <1>15

LEMMA RestartKeeps ==
    ASSUME CastInv, NEW p \in Processes, Restart(p)
    PROVE  BroadcastsOK'
<1> USE DEF CastInv, BroadcastsOK
<1>1. /\ connections \in [Processes -> Seq(Sockets)]
      /\ connections'[p] = <<>>
      /\ \A q \in Processes \ {p} : connections'[q] = connections[q]
      /\ \A s \in Sockets : socket'[s] \in {"new", "open"} => socket[s] = socket'[s]
      /\ \A b \in Casts : IF home[b[1]] = p
                         THEN cast'[b] = NoCast /\ audience'[b] = {}
                         ELSE cast'[b] = cast[b] /\ audience'[b] = audience[b]
      /\ \A r \in Requests : task'[r] \in {task[r], "lost"}
      /\ UNCHANGED <<home, received>>
  BY DEF Restart, ChannelTypeOK
<1>2. \A b \in Casts : home[b[1]] \in Processes /\ List(b) = connections[home[b[1]]]
  BY CastHome DEF IInv, List
<1>3. \A b \in Casts : home[b[1]] # p => List(b)' = List(b)
  BY <1>1, <1>2 DEF List
<1>4. \A s \in Sockets : socket'[s] = "open" => socket[s] = "open"
  BY <1>1
<1>5. ListsApart' /\ NewOnesOK' /\ NoUpdateTwice'
  <2>1. ListsApart'
    <3>1. DOMAIN connections'[p] = {}
      BY <1>1
    <3>2. ASSUME NEW q \in Processes, NEW r \in Processes,
                 NEW i \in DOMAIN connections'[q], NEW j \in DOMAIN connections'[r],
                 connections'[q][i] = connections'[r][j]
          PROVE  q = r /\ i = j
      <4>1. q # p /\ r # p
        BY <3>1
      <4>2. connections'[q] = connections[q] /\ connections'[r] = connections[r]
        BY <1>1, <4>1
      <4>3. i \in DOMAIN connections[q] /\ j \in DOMAIN connections[r]
            /\ connections[q][i] = connections[r][j]
        BY <3>2, <4>2
      <4>4. ListsApart
        OBVIOUS
      <4>5. QED
        BY <4>3, <4>4 DEF ListsApart
    <3>3. QED
      BY <3>2 DEF ListsApart
  <2>2. NewOnesOK'
    BY <1>1 DEF NewOnesOK
  <2>3. NoUpdateTwice'
    BY <1>1 DEF NoUpdateTwice
  <2>4. QED
    BY <2>1, <2>2, <2>3
<1>6. LoopsOK' /\ OwedOK' /\ QuietBroadcastReachesItsList'
  <2>1. \A b \in Casts : home[b[1]] = p => cast'[b].state = "none" /\ audience'[b] = {}
    BY <1>1 DEF NoCast
  <2>2. LoopsOK'
    BY <1>1, <1>3, <2>1 DEF LoopsOK
  <2>3. OwedOK'
    <3>1. ASSUME NEW b \in Casts, cast'[b].state = "sending", NEW s \in audience'[b]
          PROVE  \E i \in DOMAIN List(b)' :
                   /\ List(b)'[i] = s
                   /\ i < cast'[b].at /\ socket'[s] = "open" => received'[s][b] > 0
      <4>1. /\ home[b[1]] # p /\ cast'[b] = cast[b] /\ audience'[b] = audience[b]
            /\ s \in Sockets /\ List(b)' = List(b)
        BY <1>1, <1>3, <2>1, <3>1 DEF ChannelTypeOK
      <4>2. PICK i \in DOMAIN List(b) :
               List(b)[i] = s /\ (i < cast[b].at /\ socket[s] = "open" => received[s][b] > 0)
        BY <3>1, <4>1 DEF OwedOK
      <4>3. QED
        BY <1>1, <1>4, <4>1, <4>2
    <3>2. QED
      BY <3>1 DEF OwedOK
  <2>4. QuietBroadcastReachesItsList'
    BY <1>1, <1>4, <2>1 DEF QuietBroadcastReachesItsList, ChannelTypeOK
  <2>5. QED
    BY <2>2, <2>3, <2>4
<1>7. LaterOK'
  <2>1. \A r \in Requests : <<r, "executed">> \in Casts /\ <<r, "decided">> \in Casts
    BY DEF Casts
  <2>2. \A b \in Casts : Unsent(b) => Unsent(b)'
    BY <1>1 DEF Unsent, NoCast
  <2>3. QED
    BY <1>1, <2>1, <2>2 DEF LaterOK
<1>8. QED
  BY <1>5, <1>6, <1>7

LEMMA NextCastInv == ASSUME CastInv, [Next]_vars PROVE CastInv'
<1>0. IInv' /\ ChannelTypeOK' /\ (restarts \in 0..MaxRestarts)'
  <2>1. IInv'
    BY NextIInv DEF CastInv
  <2>2. QED
    BY <2>1, NextChannelTyped DEF CastInv
<1>1. ASSUME NEW r \in Requests,
             \/ StartReading(r) \/ FinishReading(r) \/ Plan(r)
             \/ Refuse(r) \/ Propose(r) \/ Approve(r) \/ Reject(r)
      PROVE  BroadcastsOK'
  <2>1. Reports(r)
    BY <1>1, RequestsReport DEF CastInv
  <2>2. QED
    BY <2>1, ReportsKeeps
<1>2. ASSUME NEW s \in Sockets, NEW p \in Processes, Leave(s, p)
      PROVE  BroadcastsOK'
  <2>1. Remove(p, {s}) /\ UNCHANGED <<task, home, socket, cast, received>>
    BY <1>2 DEF Leave, stores
  <2>2. cast' \in [Casts -> CastStates]
    BY <1>0 DEF ChannelTypeOK, CastStates
  <2>3. QED
    BY <2>1, <2>2, RemovalKeeps
<1>3. ASSUME NEW b \in Casts, EndCast(b)
      PROVE  BroadcastsOK'
  <2>1. /\ cast[b].state = "sending" /\ cast[b].at > Len(List(b))
        /\ cast' = [cast EXCEPT ![b].state = "ended"]
        /\ Remove(home[b[1]], cast[b].failed)
        /\ UNCHANGED <<task, home, socket, received>>
    BY <1>3 DEF EndCast, stores, List
  <2>2. cast' \in [Casts -> CastStates]
    BY <1>0 DEF ChannelTypeOK, CastStates
  <2>3. home[b[1]] \in Processes
    BY CastHome DEF CastInv, IInv
  <2>4. cast \in [Casts -> CastStates]
    BY DEF CastInv, ChannelTypeOK, CastStates
  <2>5. \A c \in Casts :
           \/ cast'[c] = cast[c]
           \/ /\ cast[c].state = "sending" /\ cast'[c].state = "ended"
              /\ cast[c].at > Len(List(c))
    BY <2>1, <2>4 DEF CastStates
  <2>6. QED
    BY <2>1, <2>2, <2>3, <2>5, RemovalKeeps
<1>4. ASSUME UNCHANGED vars
      PROVE  BroadcastsOK'
  <2>1. UNCHANGED <<task, home, connections, socket, cast, received, audience>>
    BY <1>4 DEF vars, stores, channel
  <2>2. ListsApart' /\ NewOnesOK' /\ NoUpdateTwice' /\ QuietBroadcastReachesItsList'
    BY <2>1 DEF CastInv, BroadcastsOK, ListsApart, NewOnesOK, NoUpdateTwice,
       QuietBroadcastReachesItsList
  <2>3. LaterOK'
    BY <2>1 DEF CastInv, BroadcastsOK, LaterOK, Unsent
  <2>4. \A b \in Casts : List(b)' = List(b)
    BY <2>1 DEF List
  <2>5. LoopsOK' /\ OwedOK'
    BY <2>1, <2>4 DEF CastInv, BroadcastsOK, LoopsOK, OwedOK
  <2>6. QED
    BY <2>2, <2>3, <2>5 DEF BroadcastsOK
<1>5. BroadcastsOK'
  <2>1. ASSUME NEW s \in Sockets, NEW p \in Processes, Connect(s, p)
        PROVE  BroadcastsOK'
    BY <2>1, ConnectKeeps
  <2>2. ASSUME NEW s \in Sockets, Hangup(s)
        PROVE  BroadcastsOK'
    BY <2>2, HangupKeeps
  <2>3. ASSUME NEW b \in Casts, StartCast(b) \/ Send(b)
        PROVE  BroadcastsOK'
    BY <2>3, StartCastKeeps, SendKeeps
  <2>4. ASSUME NEW p \in Processes, Restart(p) PROVE BroadcastsOK'
    BY <2>4, RestartKeeps
  <2>5. QED
    BY <1>1, <1>2, <1>3, <1>4, <2>1, <2>2, <2>3, <2>4 DEF Next
<1>6. QED
  BY <1>0, <1>5 DEF CastInv

LEMMA InvariantCastInv == Spec => []CastInv
<1>1. CastInv /\ [Next]_vars => CastInv'
  BY NextCastInv
<1>2. QED
  BY <1>1, InitCastInv, PTL DEF Spec

(* The types of all variables, those of the broadcasts among them.            *)
THEOREM TypeCorrect == Spec => []TypeOK
<1>1. CastInv => TypeOK
  BY DEF CastInv, IInv, TypeOK
<1>2. QED
  BY <1>1, InvariantCastInv, PTL

(* _broadcast_task_update walks the list by index while connections join at   *)
(* its end and leave anywhere: it may skip one, and never serves one twice.   *)
THEOREM UpdatesComeOnce == Spec => []NoUpdateTwice
<1>1. CastInv => NoUpdateTwice
  BY DEF CastInv, BroadcastsOK
<1>2. QED
  BY <1>1, InvariantCastInv, PTL

(* A broadcast during which nobody leaves the list of its process reaches     *)
(* every client that was on that list when it began and has not gone, whoever *)
(* joins in between.                                                          *)
THEOREM QuietBroadcastsReachTheirList == Spec => []QuietBroadcastReachesItsList
<1>1. CastInv => QuietBroadcastReachesItsList
  BY DEF CastInv, BroadcastsOK
<1>2. QED
  BY <1>1, InvariantCastInv, PTL
=============================================================================
