--------------------------- MODULE AuditLog_proofs ---------------------------
(***************************************************************************)
(* Proofs about AuditLog, for any number of entries, reporters and readers, *)
(* any page and any retention: the types, the hash chain, that paging skips *)
(* nothing, and that the retention leaves the newest part of the history.   *)
(***************************************************************************)
EXTENDS AuditLog, FiniteSetTheorems, FunctionTheorems, SequenceTheorems, TLAPS

(***************************************************************************)
(* Lists.                                                                  *)
(***************************************************************************)

(* Indices have different places, in their order, and every place is taken.   *)
LEMMA Places ==
    ASSUME NEW n \in Nat, NEW I \in SUBSET (1..n)
    PROVE  /\ IsFiniteSet(I) /\ Cardinality(I) \in Nat
           /\ \A i \in I : Place(I, i) \in 1..Cardinality(I)
           /\ \A i, j \in I : i < j => Place(I, i) < Place(I, j)
           /\ \A k \in 1..Cardinality(I) : \E i \in I : Place(I, i) = k
<1> DEFINE UpTo(i) == {j \in I : j <= i}
           c == Cardinality(I)
           F == [i \in I |-> Place(I, i)]
<1>1. I \subseteq Nat /\ IsFiniteSet(I) /\ c \in Nat
  <2>1. IsFiniteSet(1..n)
    BY FS_Interval
  <2>2. I \subseteq Nat
    OBVIOUS
  <2>3. IsFiniteSet(I)
    BY <2>1, FS_Subset
  <2>4. QED
    BY <2>2, <2>3, FS_CardinalityType
<1>2. ASSUME NEW i \in I
      PROVE  IsFiniteSet(UpTo(i)) /\ Place(I, i) \in Nat /\ Place(I, i) \in 1..c
  <2>1. UpTo(i) \in SUBSET I /\ i \in UpTo(i)
    BY <1>1
  <2>2. IsFiniteSet(UpTo(i)) /\ Cardinality(UpTo(i)) \in Nat /\ Cardinality(UpTo(i)) <= c
    BY <1>1, <2>1, FS_Subset, FS_CardinalityType
  <2>3. Cardinality(UpTo(i)) # 0
    BY <2>1, <2>2, FS_EmptySet
  <2>4. QED
    BY <1>1, <2>2, <2>3 DEF Place
<1>3. ASSUME NEW i \in I, NEW j \in I, i < j
      PROVE  Place(I, i) < Place(I, j)
  <2>1. UpTo(i) \in SUBSET UpTo(j) /\ j \in UpTo(j) /\ j \notin UpTo(i)
    <3>1. i \in Nat /\ j \in Nat /\ \A x \in I : x \in Nat
      BY <1>1
    <3>2. \A x \in Nat : x <= i => x <= j
      BY <1>3, <3>1
    <3>3. UpTo(i) \subseteq UpTo(j) /\ j \in UpTo(j) /\ ~(j <= i)
      <4>1. \A x \in I : x <= i => x <= j
        BY <3>1, <3>2
      <4>2. UpTo(i) \subseteq UpTo(j)
        BY <4>1
      <4>3. j <= j /\ ~(j <= i)
        BY <1>3, <3>1
      <4>4. QED
        BY <4>2, <4>3
    <3>4. QED
      BY <3>3
  <2>2. Cardinality(UpTo(i)) <= Cardinality(UpTo(j)) /\ Cardinality(UpTo(i)) # Cardinality(UpTo(j))
    BY <1>2, <2>1, FS_Subset
  <2>3. QED
    BY <1>2, <2>2 DEF Place
<1>4a. \A i \in I : Place(I, i) \in Nat
  <2> TAKE i \in I
  <2> QED
    BY <1>2
<1>4. F \in Injection(I, 1..c)
  <2>1. F \in [I -> 1..c]
    BY <1>2
  <2>2. ASSUME NEW i \in I, NEW j \in I, F[i] = F[j]
        PROVE  i = j
    <3>1. Place(I, i) = Place(I, j) /\ Place(I, i) \in Nat
      BY <1>4a, <2>2
    <3>2. ~(i < j) /\ ~(j < i)
      BY <1>3, <3>1
    <3>3. QED
      BY <1>1, <3>2
  <2>3. QED
    BY <2>1, <2>2 DEF Injection, IsInjective
<1>5. F \in Surjection(I, 1..c)
  <2>1. IsFiniteSet(1..c) /\ Cardinality(1..c) = c
    BY <1>1, FS_Interval
  <2>2. QED
    BY <1>4, <2>1, FS_Injection
<1>6. \A k \in 1..c : \E i \in I : Place(I, i) = k
  BY <1>5 DEF Surjection
<1>7. QED
  BY <1>1, <1>2, <1>3, <1>6

(* What is kept, by its place. *)
LEMMA KeptPlaces ==
    ASSUME NEW S, NEW s \in Seq(S), NEW I \in SUBSET DOMAIN s
    PROVE  /\ Keep(s, I) \in Seq(S)
           /\ Len(Keep(s, I)) = Cardinality(I)
           /\ \A k \in 1..Cardinality(I) :
                 \E i \in I : Place(I, i) = k /\ Keep(s, I)[k] = s[i]
           /\ \A i \in I : Keep(s, I)[Place(I, i)] = s[i]
<1> DEFINE c == Cardinality(I)
           At(k) == CHOOSE i \in I : Place(I, i) = k
<1>1. DOMAIN s = 1..Len(s) /\ Len(s) \in Nat /\ \A i \in DOMAIN s : s[i] \in S
  OBVIOUS
<1>2. /\ c \in Nat
      /\ \A i \in I : Place(I, i) \in 1..c
      /\ \A i, j \in I : i < j => Place(I, i) < Place(I, j)
      /\ \A k \in 1..c : \E i \in I : Place(I, i) = k
  <2>1. Len(s) \in Nat /\ I \in SUBSET (1..Len(s))
    BY <1>1
  <2>2. QED
    BY <2>1, Places
<1>3. ASSUME NEW k \in 1..c
      PROVE  At(k) \in I /\ Place(I, At(k)) = k /\ Keep(s, I)[k] = s[At(k)]
  BY <1>2 DEF Keep
<1>4. ASSUME NEW i \in I
      PROVE  Keep(s, I)[Place(I, i)] = s[i]
  <2>1. Place(I, i) \in 1..c
    BY <1>2
  <2>2. At(Place(I, i)) \in I /\ Place(I, At(Place(I, i))) = Place(I, i)
    BY <1>3, <2>1
  <2>3. At(Place(I, i)) = i
    BY <1>1, <1>2, <2>2
  <2>4. QED
    BY <1>3, <2>1, <2>3
<1>5. Keep(s, I) \in [1..c -> S]
  <2>1. \A k \in 1..c : s[At(k)] \in S
    BY <1>1, <1>3
  <2>2. QED
    BY <2>1 DEF Keep
<1>6. Keep(s, I) \in Seq(S) /\ Len(Keep(s, I)) = c
  BY <1>2, <1>5
<1>7. QED
  BY <1>3, <1>4, <1>6
(* The intervals that are counted. *)
LEMMA Counting ==
    ASSUME NEW n \in Nat
    PROVE  /\ IsFiniteSet(1..n) /\ Cardinality(1..n) = n
           /\ IsFiniteSet(0..(n - 1)) /\ Cardinality(0..(n - 1)) = n
<1>1. 0 \in Int /\ 1 \in Int /\ n \in Int /\ n - 1 \in Int
  OBVIOUS
<1>2. /\ IsFiniteSet(1..n) /\ Cardinality(1..n) = IF 1 > n THEN 0 ELSE n - 1 + 1
      /\ IsFiniteSet(0..(n - 1))
      /\ Cardinality(0..(n - 1)) = IF 0 > n - 1 THEN 0 ELSE (n - 1) - 0 + 1
  BY <1>1, FS_Interval
<1>3. QED
  BY <1>2

LEMMA Counted ==
    ASSUME NEW a \in Nat, NEW b \in Nat, a <= b
    PROVE  IsFiniteSet((a + 1)..b) /\ Cardinality((a + 1)..b) = b - a
<1>1. a + 1 \in Int /\ b \in Int
  OBVIOUS
<1>2. /\ IsFiniteSet((a + 1)..b)
      /\ Cardinality((a + 1)..b) = IF a + 1 > b THEN 0 ELSE b - (a + 1) + 1
  BY <1>1, FS_Interval
<1>3. QED
  BY <1>2

(* What SubSeq returns, counted from the first index that is left out. *)
LEMMA Slice ==
    ASSUME NEW S, NEW n \in Nat, NEW s, \A i \in 1..n : s[i] \in S,
           NEW a \in Nat, NEW b \in Nat, a <= b, b <= n
    PROVE  /\ SubSeq(s, a + 1, b) \in Seq(S)
           /\ Len(SubSeq(s, a + 1, b)) = b - a
           /\ DOMAIN SubSeq(s, a + 1, b) = 1..(b - a)
           /\ \A k \in 1..(b - a) : SubSeq(s, a + 1, b)[k] = s[a + k]
<1> DEFINE p == SubSeq(s, a + 1, b)
<1>1. a + 1 \in Int /\ b \in Int /\ \A i \in (a + 1)..b : s[i] \in S
  OBVIOUS
<1>2. /\ p \in Seq(S)
      /\ Len(p) = IF a + 1 <= b THEN b - (a + 1) + 1 ELSE 0
      /\ \A k \in 1..(b - (a + 1) + 1) : p[k] = s[(a + 1) + k - 1]
  BY <1>1, SubSeqProperties
<1>3. b - (a + 1) + 1 = b - a /\ \A k \in 1..(b - a) : (a + 1) + k - 1 = a + k
  OBVIOUS
<1>4. Len(p) = b - a
  BY <1>2
<1>5. DOMAIN p = 1..Len(p)
  BY <1>2
<1>6. QED
  BY <1>2, <1>3, <1>4, <1>5

(***************************************************************************)
(* Queries.                                                                *)
(***************************************************************************)

(* The order of a query is total: every index has a rank of its own, and the  *)
(* sorted list has each entry at its rank.                                    *)
LEMMA ComesFirstIsTotal ==
    ASSUME logs \in Seq(Entries), timestamp \in [Entries -> Nat]
    PROVE  /\ \A i \in DOMAIN logs : ~ComesFirst(i, i)
           /\ \A i, j \in DOMAIN logs : i # j => ComesFirst(i, j) \/ ComesFirst(j, i)
           /\ \A i, j, k \in DOMAIN logs :
                 ComesFirst(i, j) /\ ComesFirst(j, k) => ComesFirst(i, k)
<1>1. \A i \in DOMAIN logs : i \in Nat /\ timestamp[logs[i]] \in Nat
  OBVIOUS
<1>2. QED
  BY <1>1 DEF ComesFirst

LEMMA Ranks ==
    ASSUME logs \in Seq(Entries), timestamp \in [Entries -> Nat]
    PROVE  /\ \A i \in DOMAIN logs : Rank(i) \in Nat /\ Rank(i) < Len(logs)
           /\ Sorted \in [DOMAIN logs -> Entries]
           /\ \A i \in DOMAIN logs : Sorted[Rank(i) + 1] = logs[i]
<1> DEFINE D == DOMAIN logs
           n == Len(logs)
           Before(i) == {j \in D : ComesFirst(j, i)}
           F == [i \in D |-> Rank(i)]
<1>1. /\ n \in Nat /\ D = 1..n
      /\ \A i \in D : logs[i] \in Entries
  OBVIOUS
<1>2. IsFiniteSet(D) /\ Cardinality(D) = n
  <2>1. IsFiniteSet(1..n) /\ Cardinality(1..n) = n
    BY <1>1, Counting
  <2>2. QED
    BY <1>1, <2>1
<1>3. ASSUME NEW i \in D
      PROVE  IsFiniteSet(Before(i)) /\ Rank(i) \in Nat /\ Rank(i) < n
  <2>1. Before(i) \in SUBSET D /\ i \notin Before(i)
    BY ComesFirstIsTotal
  <2>2. IsFiniteSet(Before(i)) /\ Cardinality(Before(i)) \in Nat
    BY <1>2, <2>1, FS_Subset, FS_CardinalityType
  <2>3. Cardinality(Before(i)) <= n /\ Cardinality(Before(i)) # n
    BY <1>2, <2>1, FS_Subset
  <2>4. QED
    BY <1>1, <2>2, <2>3 DEF Rank
<1>4. ASSUME NEW i \in D, NEW j \in D, ComesFirst(i, j)
      PROVE  Rank(i) # Rank(j)
  <2>1. \A k \in D : ComesFirst(k, i) => ComesFirst(k, j)
    BY <1>4, ComesFirstIsTotal
  <2>2. Before(i) \subseteq Before(j)
    BY <2>1
  <2>3. i \in Before(j) /\ i \notin Before(i)
    BY <1>4, ComesFirstIsTotal
  <2>4. Before(i) \in SUBSET Before(j) /\ Before(i) # Before(j)
    BY <2>2, <2>3
  <2>5. Cardinality(Before(j)) # Cardinality(Before(i))
    BY <1>3, <2>4, FS_Subset
  <2>6. QED
    BY <2>5 DEF Rank
<1>5. ASSUME NEW i \in D, NEW j \in D, Rank(i) = Rank(j)
      PROVE  i = j
  BY <1>4, <1>5, ComesFirstIsTotal
<1>6. \A i \in D : Rank(i) \in 0..(n - 1)
  <2> TAKE i \in D
  <2>1. Rank(i) \in Nat /\ Rank(i) < n
    BY <1>3
  <2>2. QED
    BY <1>1, <2>1
<1>7. F \in Injection(D, 0..(n - 1))
  <2>1. F \in [D -> 0..(n - 1)]
    BY <1>6
  <2>2. \A i, j \in D : F[i] = F[j] => i = j
    BY <1>5
  <2>3. QED
    BY <2>1, <2>2 DEF Injection, IsInjective
<1>8. F \in Surjection(D, 0..(n - 1))
  <2>1. IsFiniteSet(0..(n - 1)) /\ Cardinality(0..(n - 1)) = n
    BY <1>1, Counting
  <2>2. QED
    BY <1>2, <1>7, <2>1, FS_Injection
<1>9. \A m \in 0..(n - 1) : \E i \in D : Rank(i) = m
  BY <1>8 DEF Surjection
<1>10. ASSUME NEW k \in D
       PROVE  Sorted[k] \in Entries
  <2>1. k - 1 \in 0..(n - 1)
    BY <1>1
  <2>2. \E i \in D : Rank(i) = k - 1
    BY <1>9, <2>1
  <2>3. (CHOOSE i \in D : Rank(i) = k - 1) \in D
    BY <2>2
  <2>4. QED
    BY <1>1, <2>3 DEF Sorted
<1>11. ASSUME NEW i \in D
       PROVE  Sorted[Rank(i) + 1] = logs[i]
  <2>1. Rank(i) + 1 \in D /\ (Rank(i) + 1) - 1 = Rank(i)
    <3>1. Rank(i) \in Nat /\ Rank(i) < n
      BY <1>3
    <3>2. QED
      BY <1>1, <3>1
  <2> DEFINE c == CHOOSE h \in D : Rank(h) = (Rank(i) + 1) - 1
  <2>2. c \in D /\ Rank(c) = Rank(i)
    BY <2>1
  <2>3. c = i
    BY <1>5, <2>2
  <2>4. QED
    BY <2>1, <2>3 DEF Sorted
<1>12. Sorted \in [D -> Entries]
  BY <1>10 DEF Sorted
<1>13. QED
  BY <1>3, <1>11, <1>12

(* A page holds the entries whose rank is in its range, and only entries; one *)
(* that is not full is the last.                                              *)
LEMMA Pages ==
    ASSUME logs \in Seq(Entries), timestamp \in [Entries -> Nat],
           Limit \in Nat \ {0}, NEW from \in Nat
    PROVE  /\ Elements(Page(from)) \subseteq Entries
           /\ \A i \in DOMAIN logs :
                 from <= Rank(i) /\ Rank(i) < from + Limit => logs[i] \in Elements(Page(from))
           /\ Len(Page(from)) < Limit => Len(logs) <= from + Limit
<1> DEFINE n == Len(logs)
           to == IF from + Limit < n THEN from + Limit ELSE n
<1>1. n \in Nat /\ DOMAIN logs = 1..n /\ to \in Nat /\ to <= n
  OBVIOUS
<1>2. Sorted \in [1..n -> Entries]
  BY <1>1, Ranks
<1>3. Page(from) = SubSeq(Sorted, from + 1, to)
  BY DEF Page
<1>4. CASE from + 1 <= to
  <2>1. /\ Page(from) \in Seq(Entries)
        /\ Len(Page(from)) = to - from
        /\ DOMAIN Page(from) = 1..(to - from)
        /\ \A k \in 1..(to - from) : Page(from)[k] = Sorted[from + k]
    <3>1. from <= to
      BY <1>1, <1>4
    <3>2. \A i \in 1..n : Sorted[i] \in Entries
      BY <1>2
    <3>3. QED
      BY <1>1, <1>3, <3>1, <3>2, Slice
  <2>2. Elements(Page(from)) \subseteq Entries
    BY <2>1 DEF Elements
  <2>3. ASSUME NEW i \in DOMAIN logs, from <= Rank(i), Rank(i) < from + Limit
        PROVE  logs[i] \in Elements(Page(from))
    <3>1. Rank(i) \in Nat /\ Rank(i) < n /\ Sorted[Rank(i) + 1] = logs[i]
      BY Ranks
    <3> DEFINE k == Rank(i) + 1 - from
    <3>2. k \in 1..(to - from) /\ from + k = Rank(i) + 1
      BY <1>1, <2>3, <3>1
    <3>3. Page(from)[k] = logs[i] /\ k \in DOMAIN Page(from)
      BY <2>1, <3>1, <3>2
    <3>4. QED
      BY <3>3 DEF Elements
  <2>4. Len(Page(from)) < Limit => n <= from + Limit
    <3>1. Len(Page(from)) = to - from
      BY <2>1
    <3>2. from + Limit < n => to - from = Limit
      OBVIOUS
    <3>3. QED
      BY <1>1, <3>1, <3>2
  <2>5. QED
    BY <2>2, <2>3, <2>4
<1>5. CASE ~(from + 1 <= to)
  <2>1. n <= from
    BY <1>1, <1>5
  <2>2. Page(from) = <<>>
    BY <1>1, <1>3, <1>5, SubSeqEmpty
  <2>3. QED
    BY <1>1, <2>1, <2>2, Ranks DEF Elements
<1>6. QED
  BY <1>4, <1>5

(***************************************************************************)
(* Types.                                                                  *)
(***************************************************************************)

LEMMA InitTypeOK == Init => TypeOK
BY ConstantsAssumption DEF Init, TypeOK

LEMMA NextTypeOK == ASSUME TypeOK, [Next]_vars PROVE TypeOK'
<1> USE DEF TypeOK
<1>0. MaxTime \in Nat /\ Limit \in Nat \ {0}
  BY ConstantsAssumption
<1>1. ASSUME NEW s \in Reporters, NEW e \in Entries, LogEvent(s, e)
      PROVE  TypeOK'
  <2>1. Hash(e, NoHash) \in Hashes
    BY DEF Hash, Hashes
  <2>2. hash' \in [Entries -> Hashes \cup {NoHash}] /\ last_hash' \in Hashes \cup {NoHash}
    BY <1>1, <2>1 DEF LogEvent
  <2>3. logs' \in Seq(Entries) /\ history' \in Seq(Entries)
    BY <1>1 DEF LogEvent
  <2>4. timestamp' \in [Entries -> 0..MaxTime]
    BY <1>1 DEF LogEvent
  <2>5. previous_hash' \in [Entries -> Hashes \cup {NoHash}]
    BY <1>1 DEF LogEvent
  <2>6. QED
    BY <1>1, <2>2, <2>3, <2>4, <2>5 DEF LogEvent, readers
<1>2. ASSUME NEW s \in Reporters, NEW e \in Entries, DropEvent(s, e)
      PROVE  TypeOK'
  BY <1>2 DEF DropEvent, store, readers
<1>3. CASE CleanupOldLogs
  <2>1. {i \in DOMAIN logs : Kept(logs[i])} \in SUBSET DOMAIN logs
    OBVIOUS
  <2>2. logs' \in Seq(Entries)
    BY <1>3, <2>1, KeptPlaces DEF CleanupOldLogs
  <2>3. QED
    BY <1>3, <2>2 DEF CleanupOldLogs, readers
<1>4. ASSUME NEW r \in Readers, StartReading(r)
      PROVE  TypeOK'
  <2>1. Elements(logs) \subseteq Entries
    BY DEF Elements
  <2>2. QED
    BY <1>4, <2>1 DEF StartReading, store
<1>5. ASSUME NEW r \in Readers, ReadPage(r)
      PROVE  TypeOK'
  <2>1. offset[r] \in Nat /\ timestamp \in [Entries -> Nat]
    OBVIOUS
  <2>2. Elements(Page(offset[r])) \subseteq Entries
    BY <1>0, <2>1, Pages
  <2>3. seen' \in [Readers -> SUBSET Entries]
    BY <1>5, <2>2 DEF ReadPage
  <2>4. offset' \in [Readers -> Nat]
    BY <1>0, <1>5 DEF ReadPage
  <2>5. pc' \in [Readers -> {"idle", "reading", "done"}]
    BY <1>5 DEF ReadPage
  <2>6. QED
    BY <1>5, <2>3, <2>4, <2>5 DEF ReadPage, store
<1>6. CASE Tick
  BY <1>0, <1>6 DEF Tick, store, readers
<1>7. CASE StepBack
  BY <1>0, <1>7 DEF StepBack, store, readers
<1>8. CASE Restart
  BY <1>8 DEF Restart, readers
<1>9. CASE UNCHANGED vars
  BY <1>9 DEF vars, store, readers
<1>10. QED
  BY <1>1, <1>2, <1>3, <1>4, <1>5, <1>6, <1>7, <1>8, <1>9 DEF Next

(* The type of every variable: a query returns entries, a reader's offset     *)
(* counts, the clock stays in its range.                                      *)
THEOREM TypeCorrect == Spec => []TypeOK
<1>1. TypeOK /\ [Next]_vars => TypeOK'
  BY NextTypeOK
<1>2. QED
  BY <1>1, InitTypeOK, PTL DEF Spec

(***************************************************************************)
(* The chain.                                                              *)
(***************************************************************************)
(* An entry is written when it is logged, which happens once. *)
LoggedWereReported == \A i \in DOMAIN history : history[i] \in reported

IInv == TypeOK /\ LoggedWereReported /\ ChainFollowsHistory

LEMMA InitIInv == Init => IInv
BY InitTypeOK DEF Init, IInv, LoggedWereReported, ChainFollowsHistory

LEMMA NextIInv ==
    ASSUME IInv, [Next]_vars
    PROVE  IInv'
<1> USE DEF IInv
<1>0. TypeOK'
  BY NextTypeOK
<1>1. ASSUME NEW s \in Reporters, NEW e \in Entries, LogEvent(s, e)
      PROVE  IInv'
  <2>1. /\ e \notin reported /\ reported' = reported \cup {e}
        /\ hash' = [hash EXCEPT ![e] = Hash(e, NoHash)]
        /\ previous_hash' = [previous_hash EXCEPT ![e] = last_hash]
        /\ last_hash' = hash'[e] /\ history' = Append(history, e)
    BY <1>1 DEF LogEvent
  <2>2. Hash(e, NoHash) \in Hashes
    BY DEF Hash, Hashes
  <2>4. /\ Len(history') = Len(history) + 1 /\ Len(history) \in Nat
        /\ DOMAIN history = 1..Len(history) /\ DOMAIN history' = 1..Len(history')
        /\ history'[Len(history')] = e
        /\ \A i \in DOMAIN history : history'[i] = history[i] /\ history[i] \in Entries
    BY <2>1 DEF TypeOK
  <2>5. LoggedWereReported'
    BY <2>1, <2>4 DEF LoggedWereReported
  <2>6. \A i \in DOMAIN history : /\ hash'[history[i]] = hash[history[i]]
                                  /\ previous_hash'[history[i]] = previous_hash[history[i]]
    BY <2>1, <2>4 DEF TypeOK, LoggedWereReported
  <2>7. previous_hash'[e] = last_hash /\ last_hash' = hash'[e]
    BY <2>1 DEF TypeOK
  <2>8. ASSUME NEW i \in DOMAIN history'
        PROVE  previous_hash'[history'[i]] =
                 IF i = 1 THEN NoHash ELSE hash'[history'[i - 1]]
    <3>1. CASE i = Len(history')
      <4>1. CASE history = <<>>
        BY <2>4, <2>7, <3>1, <4>1 DEF ChainFollowsHistory
      <4>2. CASE history # <<>>
        <5>1. Len(history) \in DOMAIN history
          BY <2>4, <4>2, EmptySeq DEF TypeOK
        <5>2. last_hash = hash[history[Len(history)]]
          BY <4>2 DEF ChainFollowsHistory
        <5>3. QED
          BY <2>4, <2>6, <2>7, <3>1, <5>1, <5>2
      <4>3. QED
        BY <4>1, <4>2
    <3>2. CASE i # Len(history')
      <4>1. i \in DOMAIN history /\ (i # 1 => i - 1 \in DOMAIN history)
        BY <2>4, <3>2
      <4>2. QED
        BY <2>4, <2>6, <4>1 DEF ChainFollowsHistory
    <3>3. QED
      BY <3>1, <3>2
  <2>9. history' # <<>>
    BY <2>4
  <2>10. ChainFollowsHistory'
    BY <2>4, <2>7, <2>8, <2>9 DEF ChainFollowsHistory
  <2>11. QED
    BY <1>0, <2>5, <2>10
<1>2. ASSUME NEW s \in Reporters, NEW e \in Entries, DropEvent(s, e)
      PROVE  IInv'
  BY <1>0, <1>2 DEF DropEvent, store, LoggedWereReported, ChainFollowsHistory
<1>3. CASE Restart
  BY <1>0, <1>3 DEF Restart, LoggedWereReported, ChainFollowsHistory
<1>4. CASE UNCHANGED <<hash, previous_hash, last_hash, history, reported>>
  BY <1>0, <1>4 DEF LoggedWereReported, ChainFollowsHistory
<1>5. QED
  BY <1>1, <1>2, <1>3, <1>4 DEF Next, vars, store, StartReading, ReadPage,
     CleanupOldLogs, Tick, StepBack

(* Every entry links to the one that was logged before it, and last_hash is   *)
(* that of the newest: the handlers of main.py never break the chain, and     *)
(* LogStore.cleanup_old_logs does not touch it.                               *)
THEOREM ChainIsKept == Spec => []ChainFollowsHistory
<1>1. IInv => ChainFollowsHistory
  BY DEF IInv
<1>2. QED
  BY InitIInv, NextIInv, <1>1, PTL DEF Spec

(***************************************************************************)
(* Paging.                                                                 *)
(***************************************************************************)
Distinct == \A i, j \in DOMAIN logs : logs[i] = logs[j] => i = j

(* An identifier is new when it is logged: neither the store nor what a       *)
(* reader waits for holds it before.                                          *)
KnownOnly ==
    /\ \A i \in DOMAIN logs : logs[i] \in reported
    /\ \A r \in Readers : wanted[r] \subseteq reported

(* What a reader has passed over in the order of the query, it has seen.      *)
ReadUpTo ==
    \A r \in Readers : \A i \in DOMAIN logs :
        logs[i] \in wanted[r] /\ Rank(i) < offset[r] => logs[i] \in seen[r]

Beginning == \A r \in Readers : pc[r] = "idle" => offset[r] = 0

PagingInv ==
    TypeOK /\ Distinct /\ KnownOnly /\ Beginning /\ ReadUpTo /\ PagingSkipsNothing

LEMMA InitPaging == Init => PagingInv
<1>1. Init => Distinct /\ KnownOnly /\ Beginning /\ ReadUpTo /\ PagingSkipsNothing
  BY DEF Init, Distinct, KnownOnly, Beginning, ReadUpTo, PagingSkipsNothing, Elements
<1>2. QED
  BY <1>1, InitTypeOK DEF PagingInv

(* Steps that touch neither the list nor the readers.                         *)
LEMMA PagingStutters ==
    ASSUME PagingInv, UNCHANGED <<logs, timestamp, readers>>, reported \subseteq reported', TypeOK'
    PROVE  PagingInv'
<1>1. \A i : Rank(i)' = Rank(i)
  BY DEF Rank, ComesFirst
<1>2. Elements(logs)' = Elements(logs)
  BY DEF Elements
<1>3. QED
  BY <1>1, <1>2 DEF PagingInv, Distinct, KnownOnly, Beginning, ReadUpTo, PagingSkipsNothing, readers

LEMMA PagingLogs ==
    ASSUME PagingInv, TypeOK', NEW s \in Reporters, NEW e \in Entries, LogEvent(s, e)
    PROVE  PagingInv'
<1> USE DEF PagingInv
<1>1. /\ e \notin reported /\ reported' = reported \cup {e}
      /\ timestamp' = [timestamp EXCEPT ![e] = clock]
      /\ logs' = Append(logs, e)
      /\ UNCHANGED <<pc, offset, wanted, seen>>
  BY DEF LogEvent, readers
<1>2. /\ Len(logs) \in Nat /\ DOMAIN logs = 1..Len(logs)
      /\ DOMAIN logs' = 1..(Len(logs) + 1)
      /\ logs'[Len(logs) + 1] = e
      /\ \A i \in DOMAIN logs : logs'[i] = logs[i] /\ logs[i] \in Entries
  BY <1>1 DEF TypeOK
<1>3. \A i \in DOMAIN logs : logs[i] # e /\ i \in DOMAIN logs'
  BY <1>1, <1>2 DEF KnownOnly
<1>4. \A i \in DOMAIN logs' : i \in DOMAIN logs \/ i = Len(logs) + 1
  BY <1>2
<1>5. \A i \in DOMAIN logs : timestamp'[logs'[i]] = timestamp[logs[i]]
  BY <1>1, <1>2, <1>3 DEF TypeOK
<1>6. Distinct'
  BY <1>2, <1>3, <1>4 DEF Distinct
<1>7. KnownOnly'
  BY <1>1, <1>2, <1>3, <1>4 DEF KnownOnly
<1>8. ASSUME NEW i \in DOMAIN logs
      PROVE  /\ Rank(i) \in Nat /\ Rank(i)' \in Nat
             /\ Rank(i) <= Rank(i)'
  <2> DEFINE B == {j \in DOMAIN logs : ComesFirst(j, i)}
             C == {j \in DOMAIN logs' : ComesFirst(j, i)'}
  <2>1. B \in SUBSET C
    BY <1>3, <1>5 DEF ComesFirst
  <2>2. IsFiniteSet(C)
    <3>1. IsFiniteSet(DOMAIN logs')
      BY <1>2, Counting
    <3>2. C \in SUBSET DOMAIN logs'
      OBVIOUS
    <3>3. QED
      BY <3>1, <3>2, FS_Subset
  <2>3. IsFiniteSet(B) /\ Cardinality(B) <= Cardinality(C)
    BY <2>1, <2>2, FS_Subset
  <2>4. Cardinality(B) \in Nat /\ Cardinality(C) \in Nat
    BY <2>2, <2>3, FS_CardinalityType
  <2>5. Rank(i) = Cardinality(B) /\ Rank(i)' = Cardinality(C)
    BY DEF Rank
  <2>6. QED
    BY <2>3, <2>4, <2>5
<1>9. ReadUpTo'
  <2>1. SUFFICES ASSUME NEW r \in Readers, NEW i \in DOMAIN logs',
                        logs'[i] \in wanted[r], Rank(i)' < offset[r]
                 PROVE  logs'[i] \in seen[r]
    BY <1>1 DEF ReadUpTo
  <2>2. i \in DOMAIN logs /\ logs'[i] = logs[i]
    BY <1>1, <1>2, <1>4, <2>1 DEF KnownOnly
  <2>3. offset[r] \in Nat
    BY DEF TypeOK
  <2>4. Rank(i) < offset[r]
    BY <1>8, <2>1, <2>2, <2>3
  <2>5. QED
    BY <2>1, <2>2, <2>4 DEF ReadUpTo
<1>10. PagingSkipsNothing'
  <2>1. \A r \in Readers : wanted[r] \cap Elements(logs)' \subseteq wanted[r] \cap Elements(logs)
    BY <1>1, <1>2, <1>4 DEF Elements, KnownOnly
  <2>2. QED
    BY <1>1, <2>1 DEF PagingSkipsNothing
<1>11. Beginning'
  BY <1>1 DEF Beginning
<1>12. QED
  BY <1>6, <1>7, <1>9, <1>10, <1>11

(* The retention removes an entry only with all that a query shows after it,  *)
(* so what comes before an entry that stays, stays.                           *)
LEMMA PagingCleans ==
    ASSUME PagingInv, TypeOK', CleanupOldLogs
    PROVE  PagingInv'
<1> USE DEF PagingInv
<1> DEFINE D == DOMAIN logs
           I == {i \in D : Kept(logs[i])}
           c == Cardinality(I)
<1>1. /\ logs' = Keep(logs, I)
      /\ UNCHANGED <<timestamp, reported, clock, pc, offset, wanted, seen>>
  BY DEF CleanupOldLogs, readers
<1>2. /\ logs \in Seq(Entries) /\ Len(logs) \in Nat /\ D = 1..Len(logs)
      /\ \A i \in D : i \in Nat /\ logs[i] \in Entries /\ timestamp[logs[i]] \in Nat
      /\ clock \in Nat /\ Retention \in Nat
  BY ConstantsAssumption DEF TypeOK
<1>3. /\ I \in SUBSET D /\ I \in SUBSET (1..Len(logs))
  BY <1>2
<1>4. /\ IsFiniteSet(I) /\ c \in Nat
      /\ \A i \in I : Place(I, i) \in 1..c
      /\ \A i, j \in I : i < j => Place(I, i) < Place(I, j)
  BY <1>2, <1>3, Places
<1>5. /\ Len(logs') = c
      /\ \A k \in 1..c : \E i \in I : Place(I, i) = k /\ logs'[k] = logs[i]
      /\ \A i \in I : logs'[Place(I, i)] = logs[i]
  BY <1>1, <1>2, <1>3, KeptPlaces
<1>6. DOMAIN logs' = 1..c
  BY <1>5 DEF TypeOK
<1>7. Distinct'
  BY <1>3, <1>5, <1>6 DEF Distinct
<1>8. KnownOnly'
  BY <1>1, <1>3, <1>5, <1>6 DEF KnownOnly
<1>9. ASSUME NEW i \in I, NEW k, k = Place(I, i)
      PROVE  /\ Rank(i) \in Nat /\ Rank(k)' \in Nat
             /\ Rank(i) <= Rank(k)'
  <2> DEFINE B == {j \in D : ComesFirst(j, i)}
             C == {j \in DOMAIN logs' : ComesFirst(j, k)'}
             F == [j \in B |-> Place(I, j)]
  <2>1. \A j \in B : j \in I
    BY <1>2 DEF ComesFirst, Kept
  <2>2. ASSUME NEW j \in B
        PROVE  Place(I, j) \in C
    <3>1. j \in I /\ i \in I /\ ComesFirst(j, i)
      BY <2>1
    <3>2. logs'[Place(I, j)] = logs[j] /\ logs'[k] = logs[i]
      BY <1>5, <1>9, <3>1
    <3>3. Place(I, j) \in DOMAIN logs'
      BY <1>4, <1>6, <3>1
    <3>4. j < i => Place(I, j) < k
      BY <1>4, <1>9, <3>1
    <3>5. ASSUME NEW m, m = Place(I, j)
          PROVE  ComesFirst(m, k)'
      BY <1>1, <3>1, <3>2, <3>4, <3>5 DEF ComesFirst
    <3>6. QED
      BY <3>3, <3>5
  <2>3. F \in Injection(B, C)
    <3>1. F \in [B -> C]
      BY <2>2
    <3>2. \A j, m \in B : F[j] = F[m] => j = m
      <4>1. \A j, m \in I : Place(I, j) = Place(I, m) => ~(j < m) /\ ~(m < j)
        BY <1>4
      <4>2. \A j, m \in I : Place(I, j) = Place(I, m) => j = m
        BY <1>2, <1>3, <4>1
      <4>3. QED
        BY <2>1, <4>2
    <3>3. QED
      BY <3>1, <3>2 DEF Injection, IsInjective
  <2>4. IsFiniteSet(C)
    <3>1. IsFiniteSet(DOMAIN logs')
      BY <1>4, <1>6, Counting
    <3>2. C \in SUBSET DOMAIN logs'
      OBVIOUS
    <3>3. QED
      BY <3>1, <3>2, FS_Subset
  <2>5. IsFiniteSet(B) /\ Cardinality(B) <= Cardinality(C)
    BY <2>3, <2>4, FS_Injection
  <2>6. Cardinality(B) \in Nat /\ Cardinality(C) \in Nat
    BY <2>4, <2>5, FS_CardinalityType
  <2>7. Rank(i) = Cardinality(B) /\ Rank(k)' = Cardinality(C)
    BY DEF Rank
  <2>8. QED
    BY <2>5, <2>6, <2>7
<1>10. ReadUpTo'
  <2>1. SUFFICES ASSUME NEW r \in Readers, NEW k \in DOMAIN logs',
                        logs'[k] \in wanted[r], Rank(k)' < offset[r]
                 PROVE  logs'[k] \in seen[r]
    BY <1>1 DEF ReadUpTo
  <2>2. PICK i \in I : Place(I, i) = k /\ logs'[k] = logs[i]
    BY <1>5, <1>6, <2>1
  <2>3. offset[r] \in Nat
    BY DEF TypeOK
  <2>4. Rank(i) < offset[r]
    BY <1>9, <2>1, <2>2, <2>3
  <2>5. QED
    BY <1>3, <2>1, <2>2, <2>4 DEF ReadUpTo
<1>11. PagingSkipsNothing'
  <2>1. \A k \in DOMAIN logs' : logs'[k] \in Elements(logs)
    BY <1>3, <1>5, <1>6 DEF Elements
  <2>2. QED
    BY <1>1, <2>1 DEF PagingSkipsNothing, Elements
<1>12. Beginning'
  BY <1>1 DEF Beginning
<1>13. QED
  BY <1>7, <1>8, <1>10, <1>11, <1>12

LEMMA PagingReads ==
    ASSUME PagingInv, TypeOK', NEW r \in Readers, ReadPage(r)
    PROVE  PagingInv'
<1> USE DEF PagingInv
<1> DEFINE page == Page(offset[r])
<1>1. /\ seen' = [seen EXCEPT ![r] = @ \cup Elements(page)]
      /\ offset' = [offset EXCEPT ![r] = @ + Limit]
      /\ pc' = [pc EXCEPT ![r] = IF Len(page) < Limit THEN "done" ELSE @]
      /\ pc[r] = "reading"
      /\ UNCHANGED <<logs, timestamp, reported, wanted>>
  BY DEF ReadPage, store
<1>2. /\ logs \in Seq(Entries) /\ timestamp \in [Entries -> Nat]
      /\ Limit \in Nat \ {0} /\ offset[r] \in Nat
      /\ seen'[r] = seen[r] \cup Elements(page)
      /\ offset'[r] = offset[r] + Limit
      /\ pc'[r] = IF Len(page) < Limit THEN "done" ELSE "reading"
      /\ \A q \in Readers \ {r} : seen'[q] = seen[q] /\ offset'[q] = offset[q] /\ pc'[q] = pc[q]
  BY <1>1, ConstantsAssumption DEF TypeOK
<1>3. /\ \A i \in DOMAIN logs : Rank(i) \in Nat /\ Rank(i) < Len(logs)
      /\ \A i \in DOMAIN logs :
            offset[r] <= Rank(i) /\ Rank(i) < offset[r] + Limit => logs[i] \in Elements(page)
      /\ Len(page) < Limit => Len(logs) <= offset[r] + Limit
  BY <1>2, Ranks, Pages
<1>4. \A i : Rank(i)' = Rank(i)
  BY <1>1 DEF Rank, ComesFirst
<1>5. \A i \in DOMAIN logs :
         logs[i] \in wanted[r] /\ Rank(i) < offset[r] + Limit => logs[i] \in seen'[r]
  BY <1>2, <1>3 DEF ReadUpTo
<1>6. ReadUpTo'
  BY <1>1, <1>2, <1>4, <1>5 DEF ReadUpTo
<1>7. pc'[r] = "done" => wanted[r] \cap Elements(logs) \subseteq seen'[r]
  <2>1. SUFFICES ASSUME Len(page) < Limit, NEW i \in DOMAIN logs, logs[i] \in wanted[r]
                 PROVE  logs[i] \in seen'[r]
    BY <1>2 DEF Elements
  <2>2. Rank(i) < offset[r] + Limit
    BY <1>2, <1>3, <2>1
  <2>3. QED
    BY <1>5, <2>1, <2>2
<1>8. PagingSkipsNothing'
  BY <1>1, <1>2, <1>7 DEF PagingSkipsNothing, Elements
<1>9. Distinct' /\ KnownOnly' /\ Beginning'
  BY <1>1, <1>2 DEF Distinct, KnownOnly, Beginning
<1>10. QED
  BY <1>6, <1>8, <1>9

LEMMA NextPaging == ASSUME PagingInv, [Next]_vars PROVE PagingInv'
<1> USE DEF PagingInv
<1>0. TypeOK'
  BY NextTypeOK
<1>1. ASSUME NEW s \in Reporters, NEW e \in Entries, LogEvent(s, e)
      PROVE  PagingInv'
  BY <1>0, <1>1, PagingLogs
<1>2. ASSUME NEW s \in Reporters, NEW e \in Entries, DropEvent(s, e)
      PROVE  PagingInv'
  BY <1>0, <1>2, PagingStutters DEF DropEvent, store
<1>3. CASE CleanupOldLogs
  BY <1>0, <1>3, PagingCleans
<1>4. ASSUME NEW r \in Readers, StartReading(r)
      PROVE  PagingInv'
  <2>1. /\ pc[r] = "idle" /\ pc' = [pc EXCEPT ![r] = "reading"]
        /\ wanted' = [wanted EXCEPT ![r] = Elements(logs)]
        /\ UNCHANGED <<logs, timestamp, reported, offset, seen>>
    BY <1>4 DEF StartReading, store
  <2>2. /\ wanted'[r] = Elements(logs) /\ pc'[r] = "reading"
        /\ \A q \in Readers \ {r} : wanted'[q] = wanted[q] /\ pc'[q] = pc[q]
    BY <2>1 DEF TypeOK
  <2>3. \A i : Rank(i)' = Rank(i)
    BY <2>1 DEF Rank, ComesFirst
  <2>4. offset[r] = 0 /\ \A i \in DOMAIN logs : ~(Rank(i) < 0)
    <3>1. \A i \in DOMAIN logs : Rank(i) \in Nat
      BY Ranks DEF TypeOK
    <3>2. QED
      BY <2>1, <3>1 DEF Beginning
  <2>5. ReadUpTo'
    BY <2>1, <2>2, <2>3, <2>4 DEF ReadUpTo
  <2>6. Distinct' /\ KnownOnly' /\ Beginning'
    BY <2>1, <2>2 DEF Distinct, KnownOnly, Beginning, Elements
  <2>7. PagingSkipsNothing'
    BY <2>1, <2>2 DEF PagingSkipsNothing, Elements
  <2>8. QED
    BY <1>0, <2>5, <2>6, <2>7
<1>5. ASSUME NEW r \in Readers, ReadPage(r)
      PROVE  PagingInv'
  BY <1>0, <1>5, PagingReads
<1>6. CASE Restart
  <2>1. logs' = <<>> /\ UNCHANGED <<reported, readers>>
    BY <1>6 DEF Restart
  <2>2. DOMAIN logs' = {} /\ Elements(logs)' = {}
    BY <2>1 DEF Elements
  <2>3. QED
    BY <1>0, <2>1, <2>2 DEF Distinct, KnownOnly, Beginning, ReadUpTo, PagingSkipsNothing, readers
<1>7. CASE Tick \/ StepBack \/ UNCHANGED vars
  BY <1>0, <1>7, PagingStutters DEF Tick, StepBack, vars, store
<1>8. QED
  BY <1>1, <1>2, <1>3, <1>4, <1>5, <1>6, <1>7 DEF Next

(* A reader that pages through the log misses nothing that was stored when it *)
(* began and still is, for any number of entries, readers and removals and    *)
(* any size of a page: what is logged or removed in between never moves an    *)
(* entry to the front of where the reader is.                                 *)
THEOREM NothingIsSkipped == Spec => []PagingSkipsNothing
<1>1. PagingInv /\ [Next]_vars => PagingInv'
  BY NextPaging
<1>2. PagingInv => PagingSkipsNothing
  BY DEF PagingInv
<1>3. QED
  BY <1>1, <1>2, InitPaging, PTL DEF Spec

(***************************************************************************)
(* The store and the history.                                              *)
(***************************************************************************)

(* The history as it is stored: all but its first k entries. *)
LEMMA SuffixByIndex ==
    ASSUME logs \in Seq(Entries), history \in Seq(Entries), NEW k \in 0..Len(history)
    PROVE  logs = SubSeq(history, k + 1, Len(history)) <=>
             /\ Len(logs) = Len(history) - k
             /\ \A i \in 1..(Len(history) - k) : logs[i] = history[k + i]
<1> DEFINE n == Len(history)
           h == SubSeq(history, k + 1, n)
<1>1. n \in Nat /\ k \in Nat /\ k <= n /\ \A i \in 1..n : history[i] \in Entries
  OBVIOUS
<1>2. /\ h \in Seq(Entries) /\ Len(h) = n - k
      /\ \A i \in 1..(n - k) : h[i] = history[k + i]
  BY <1>1, Slice
<1>3. ASSUME Len(logs) = n - k, \A i \in 1..(n - k) : logs[i] = history[k + i]
      PROVE  logs = h
  BY <1>2, <1>3, SeqEqual
<1>4. QED
  BY <1>2, <1>3

RecentInv == IInv /\ StoreIsRecent

LEMMA RecentLogs ==
    ASSUME RecentInv, TypeOK', NEW s \in Reporters, NEW e \in Entries, LogEvent(s, e)
    PROVE  StoreIsRecent'
<1> USE DEF RecentInv, IInv
<1> DEFINE n == Len(history)
<1>1. /\ e \notin reported
      /\ timestamp' = [timestamp EXCEPT ![e] = clock]
      /\ logs' = Append(logs, e) /\ history' = Append(history, e)
  BY DEF LogEvent
<1>2. /\ n \in Nat /\ DOMAIN history = 1..n
      /\ DOMAIN history' = 1..(n + 1) /\ Len(history') = n + 1
      /\ history'[n + 1] = e
      /\ \A i \in 1..n : history'[i] = history[i] /\ history[i] \in Entries
  BY <1>1 DEF TypeOK
<1>3. \A i \in 1..n : timestamp'[history'[i]] = timestamp[history[i]]
  <2>1. \A i \in 1..n : history[i] # e
    BY <1>1, <1>2 DEF LoggedWereReported
  <2>2. \A x \in Entries : x # e => timestamp'[x] = timestamp[x]
    BY <1>1 DEF TypeOK
  <2>3. QED
    BY <1>2, <2>1, <2>2
<1>4. SUFFICES ASSUME InOrder'
               PROVE  \E k \in 0..Len(history') : logs' = SubSeq(history', k + 1, Len(history'))
  BY DEF StoreIsRecent
<1>5. InOrder
  <2>1. \A i \in 1..n : i \in DOMAIN history'
    BY <1>2
  <2>2. QED
    BY <1>2, <1>3, <1>4, <2>1 DEF InOrder
<1>6. PICK k \in 0..n : logs = SubSeq(history, k + 1, n)
  BY <1>5 DEF StoreIsRecent
<1>7. Len(logs) = n - k /\ \A i \in 1..(n - k) : logs[i] = history[k + i]
  BY <1>6, SuffixByIndex DEF TypeOK
<1>8. k \in 0..(n + 1) /\ k \in Nat
  BY <1>2
<1>9. Len(logs') = (n + 1) - k
  BY <1>1, <1>2, <1>7, <1>8 DEF TypeOK
<1>10. ASSUME NEW i \in 1..((n + 1) - k)
       PROVE  logs'[i] = history'[k + i]
  <2>1. CASE i = (n + 1) - k
    BY <1>1, <1>2, <1>7, <1>8, <2>1 DEF TypeOK
  <2>2. CASE i # (n + 1) - k
    <3>1. i \in 1..(n - k) /\ k + i \in 1..n
      BY <1>2, <1>8, <2>2
    <3>2. logs'[i] = logs[i]
      BY <1>1, <1>7, <3>1 DEF TypeOK
    <3>3. QED
      BY <1>2, <1>7, <3>1, <3>2
  <2>3. QED
    BY <2>1, <2>2
<1>11. LET h == SubSeq(history', k + 1, n + 1)
       IN  /\ h \in Seq(Entries) /\ Len(h) = (n + 1) - k
           /\ \A i \in 1..((n + 1) - k) : h[i] = history'[k + i]
  <2>1. n + 1 \in Nat /\ k <= n + 1 /\ \A i \in 1..(n + 1) : history'[i] \in Entries
    BY <1>2, <1>8
  <2>2. QED
    BY <1>8, <2>1, Slice
<1>12. logs' = SubSeq(history', k + 1, n + 1)
  <2>1. logs' \in Seq(Entries)
    BY DEF TypeOK
  <2>2. QED
    BY <1>9, <1>10, <1>11, <2>1, SeqEqual
<1>13. QED
  BY <1>2, <1>8, <1>12

(* In a list in the order of time the retention keeps an end of it. *)
LEMMA RecentCleans ==
    ASSUME RecentInv, TypeOK', CleanupOldLogs
    PROVE  StoreIsRecent'
<1> USE DEF RecentInv, IInv
<1> DEFINE n == Len(history)
           m == Len(logs)
           I == {i \in DOMAIN logs : Kept(logs[i])}
           c == Cardinality(I)
           d == m - c
<1>1. logs' = Keep(logs, I) /\ UNCHANGED <<timestamp, history>>
  BY DEF CleanupOldLogs
<1>2. SUFFICES ASSUME InOrder
               PROVE  \E k \in 0..n : logs' = SubSeq(history, k + 1, n)
  BY <1>1 DEF StoreIsRecent, InOrder
<1>3. PICK k \in 0..n : logs = SubSeq(history, k + 1, n)
  BY <1>2 DEF StoreIsRecent
<1>4. /\ n \in Nat /\ k \in Nat /\ k <= n /\ m = n - k /\ m \in Nat
      /\ DOMAIN history = 1..n /\ DOMAIN logs = 1..m
  BY <1>3, SuffixByIndex DEF TypeOK
<1>5. \A i \in 1..m : logs[i] = history[k + i]
  BY <1>3, <1>4, SuffixByIndex DEF TypeOK
<1>6. /\ I \in SUBSET (1..m) /\ I \in SUBSET DOMAIN logs
  BY <1>4
<1>7. IsFiniteSet(I) /\ c \in Nat /\ c <= m
  <2>1. IsFiniteSet(I) /\ c \in Nat
    BY <1>4, <1>6, Places
  <2>2. IsFiniteSet(1..m) /\ Cardinality(1..m) = m
    BY <1>4, Counting
  <2>3. c <= m
    BY <1>6, <2>2, FS_Subset
  <2>4. QED
    BY <2>1, <2>3
<1>8. ASSUME NEW i \in I, NEW j \in i..m
      PROVE  j \in I
  <2>1. i \in 1..m /\ j \in 1..m /\ i <= j
    BY <1>4, <1>6
  <2>2. k + i \in 1..n /\ k + j \in 1..n /\ (i < j => k + i < k + j)
    BY <1>4, <2>1
  <2>3. i < j => timestamp[logs[i]] <= timestamp[logs[j]]
    BY <1>2, <1>4, <1>5, <2>1, <2>2 DEF InOrder
  <2>4. /\ timestamp[logs[i]] \in Nat /\ timestamp[logs[j]] \in Nat
        /\ clock \in Nat /\ Retention \in Nat
    <3>1. \A x \in Entries : timestamp[x] \in Nat
      BY DEF TypeOK
    <3>2. logs[i] \in Entries /\ logs[j] \in Entries
      BY <1>4, <2>1 DEF TypeOK
    <3>3. QED
      BY <3>1, <3>2, ConstantsAssumption DEF TypeOK
  <2>5. Kept(logs[i])
    OBVIOUS
  <2>6. Kept(logs[j])
    BY <2>1, <2>3, <2>4, <2>5 DEF Kept
  <2>7. QED
    BY <1>4, <2>1, <2>6
<1>9. I = (d + 1)..m
  <2>1. d \in Nat /\ d <= m
    BY <1>4, <1>7
  <2>2. IsFiniteSet((d + 1)..m) /\ Cardinality((d + 1)..m) = c
    <3>1. IsFiniteSet((d + 1)..m) /\ Cardinality((d + 1)..m) = m - d
      BY <1>4, <2>1, Counted
    <3>2. m - d = c
      BY <1>4, <1>7
    <3>3. QED
      BY <3>1, <3>2
  <2>3. ASSUME NEW i \in I
        PROVE  i \in (d + 1)..m
    <3>1. i \in 1..m
      BY <1>6
    <3>2. i..m \in SUBSET I
      BY <1>8
    <3>3. Cardinality(i..m) <= c
      BY <1>7, <3>2, FS_Subset
    <3>4. Cardinality(i..m) = m - (i - 1)
      <4>1. i - 1 \in Nat /\ i - 1 <= m /\ (i - 1) + 1 = i
        BY <1>4, <3>1
      <4>2. Cardinality(((i - 1) + 1)..m) = m - (i - 1)
        BY <1>4, <4>1, Counted
      <4>3. QED
        BY <4>1, <4>2
    <3>5. QED
      BY <1>4, <1>7, <3>1, <3>3, <3>4
  <2>4. I \in SUBSET ((d + 1)..m)
    BY <2>3
  <2>5. QED
    BY <2>2, <2>4, FS_Subset
<1>10. ASSUME NEW i \in I
       PROVE  Place(I, i) = i - d
  <2>1. i \in (d + 1)..m /\ d \in Nat
    BY <1>4, <1>7, <1>9
  <2>2. {j \in I : j <= i} = (d + 1)..i
    BY <1>4, <1>9, <2>1
  <2>3. Cardinality((d + 1)..i) = i - d
    BY <1>4, <2>1, Counted
  <2>4. QED
    BY <2>2, <2>3 DEF Place
<1>11. /\ logs' \in Seq(Entries) /\ Len(logs') = c
       /\ \A i \in I : logs'[Place(I, i)] = logs[i]
  <2>1. logs \in Seq(Entries)
    BY DEF TypeOK
  <2>2. QED
    BY <1>1, <1>6, <2>1, KeptPlaces
<1>12. \A j \in 1..c : logs'[j] = history[(k + d) + j]
  <2> TAKE j \in 1..c
  <2>1. /\ j + d \in I /\ j + d \in 1..m /\ (j + d) - d = j
        /\ k + (j + d) = (k + d) + j
    <3>1. d \in Nat /\ c \in Nat /\ d + c = m /\ k \in Nat /\ j \in Nat
      BY <1>4, <1>7
    <3>2. j + d \in (d + 1)..m /\ j + d \in 1..m
      BY <1>4, <3>1
    <3>3. j + d \in I
      BY <1>9, <3>2
    <3>4. (j + d) - d = j /\ k + (j + d) = (k + d) + j
      BY <3>1
    <3>5. QED
      BY <3>2, <3>3, <3>4
  <2>2. logs'[(j + d) - d] = logs[j + d]
    BY <1>10, <1>11, <2>1
  <2>3. QED
    BY <1>5, <2>1, <2>2
<1>13. k + d \in 0..n /\ c = n - (k + d)
  BY <1>4, <1>7
<1>14. logs' = SubSeq(history, (k + d) + 1, n)
  <2> DEFINE h == SubSeq(history, (k + d) + 1, n)
  <2>1. k + d \in Nat /\ k + d <= n /\ \A i \in 1..n : history[i] \in Entries
    BY <1>4, <1>13 DEF TypeOK
  <2>2. h \in Seq(Entries) /\ Len(h) = c /\ \A j \in 1..c : h[j] = history[(k + d) + j]
    <3>1. PICK a \in Nat : a = k + d
      BY <2>1
    <3>2. a <= n /\ n \in Nat
      BY <1>4, <2>1, <3>1
    <3>3. /\ SubSeq(history, a + 1, n) \in Seq(Entries)
          /\ Len(SubSeq(history, a + 1, n)) = n - a
          /\ \A j \in 1..(n - a) : SubSeq(history, a + 1, n)[j] = history[a + j]
      BY <2>1, <3>2, Slice
    <3>4. QED
      BY <1>13, <3>1, <3>3
  <2>3. QED
    BY <1>11, <1>12, <2>2, SeqEqual
<1>15. QED
  BY <1>13, <1>14

LEMMA NextRecent == ASSUME RecentInv, [Next]_vars PROVE RecentInv'
<1>0. IInv' /\ TypeOK' /\ TypeOK
  BY NextIInv DEF RecentInv, IInv
<1> SUFFICES StoreIsRecent'
  BY <1>0 DEF RecentInv
<1>1. ASSUME NEW s \in Reporters, NEW e \in Entries, LogEvent(s, e)
      PROVE  StoreIsRecent'
  BY <1>0, <1>1, RecentLogs
<1>2. CASE CleanupOldLogs
  BY <1>0, <1>2, RecentCleans
<1>3. CASE Restart
  <2>1. logs' = <<>> /\ history' = <<>>
    BY <1>3 DEF Restart
  <2>2. SubSeq(<<>>, 0 + 1, 0) = <<>> /\ Len(<<>>) = 0
    BY SubSeqEmpty
  <2>3. QED
    BY <2>1, <2>2 DEF StoreIsRecent
<1>4. CASE UNCHANGED <<logs, history, timestamp>>
  <2>1. InOrder' <=> InOrder
    BY <1>4 DEF InOrder
  <2>2. QED
    BY <1>4, <2>1 DEF RecentInv, StoreIsRecent
<1>5. QED
  BY <1>1, <1>2, <1>3, <1>4 DEF Next, vars, store, DropEvent, StartReading, ReadPage,
     Tick, StepBack

LEMMA InitRecent == Init => RecentInv
<1>1. SUFFICES ASSUME Init PROVE RecentInv
  OBVIOUS
<1>2. logs = <<>> /\ history = <<>>
  BY <1>1 DEF Init
<1>3. SubSeq(<<>>, 0 + 1, 0) = <<>> /\ Len(<<>>) = 0
  BY SubSeqEmpty
<1>4. QED
  BY <1>1, <1>2, <1>3, InitIInv DEF RecentInv, StoreIsRecent

(* As long as time goes forward from entry to entry, the store is the newest  *)
(* part of what was logged: the retention leaves no hole in the chain.        *)
THEOREM StoreKeepsTheNewest == Spec => []StoreIsRecent
<1>1. RecentInv /\ [Next]_vars => RecentInv'
  BY NextRecent
<1>2. RecentInv => StoreIsRecent
  BY DEF RecentInv
<1>3. QED
  BY <1>1, <1>2, InitRecent, PTL DEF Spec
=============================================================================
