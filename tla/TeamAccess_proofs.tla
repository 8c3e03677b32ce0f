------------------------- MODULE TeamAccess_proofs -------------------------
(***************************************************************************)
(* Proofs about TeamAccess, for any users, teams, clusters and handlers: a *)
(* check does not deny what an untouched team grants, a removal ends only  *)
(* the membership that it read, and only a second row of a team for a      *)
(* cluster leaves a check without an answer.                               *)
(***************************************************************************)
EXTENDS TeamAccess, FiniteSetTheorems, TLAPS

LEMMA IdleType ==
    Idle \in Call /\ Idle.at = "idle" /\ Idle.left = {}
<1>1. (CHOOSE t \in Teams : TRUE) \in Teams
  BY ConstantsAssumption
<1>2. (CHOOSE u \in Users : TRUE) \in Users
  BY ConstantsAssumption
<1>3. (CHOOSE c \in Clusters : TRUE) \in Clusters
  BY ConstantsAssumption
<1>4. (CHOOSE l \in Levels : TRUE) \in Levels
  BY ConstantsAssumption
<1>5. (CHOOSE a \in Accesses : TRUE) \in Accesses
  BY ConstantsAssumption
<1>6. 0 \in 0..MaxRows
  BY ConstantsAssumption
<1>7. QED
  BY <1>1, <1>2, <1>3, <1>4, <1>5, <1>6 DEF Idle, Call, Statements, People

(* The calls that a handler begins. *)
LEMMA StepCases ==
    ASSUME Next
    PROVE  \E h \in Handlers :
              \/ TeamRequest(h) \/ AccessRequest(h) \/ CheckRequest(h)
              \/ InsertTeam(h) \/ FindNew(h) \/ InsertMember(h)
              \/ FindOld(h) \/ DeleteMember(h)
              \/ InsertAccess(h) \/ UpdateAccess(h) \/ DeleteAccess(h) \/ WriteFails(h)
              \/ ReadTeams(h) \/ ReadAccess(h) \/ Answer(h)
BY DEF Next

-----------------------------------------------------------------------------
(* Types.                                                                     *)

LEMMA InitType == Init => TypeOK
<1> SUFFICES ASSUME Init PROVE TypeOK
  OBVIOUS
<1>1. Idle.team \in Teams /\ Idle.cluster \in Clusters /\ Idle.level \in Levels
  BY IdleType DEF Call
<1>2. access \in [Accesses -> Access]
  BY <1>1 DEF Init, Access
<1>3. call \in [Handlers -> Call]
  BY IdleType DEF Init
<1>4. QED
  BY <1>2, <1>3, ConstantsAssumption DEF Init, TypeOK

LEMMA OutcomeType ==
    ASSUME NEW h \in Handlers, NEW t \in Teams
    PROVE  Outcome(h, t) \in {"allowed", "denied", "failed", "readAccess"}
BY DEF Outcome

LEMMA EndType == ASSUME TypeOK, NEW h \in Handlers, End(h) PROVE call' \in [Handlers -> Call]
BY IdleType DEF TypeOK, End

LEMMA NextType == ASSUME TypeOK, [Next]_vars PROVE TypeOK'
<1> USE DEF TypeOK
<1>1. ASSUME NEW h \in Handlers, NEW x \in Call, Begin(h, x)
      PROVE  TypeOK'
  BY <1>1 DEF Begin, tables
<1>2. ASSUME NEW h \in Handlers, TeamRequest(h) \/ AccessRequest(h) \/ CheckRequest(h)
      PROVE  TypeOK'
  <2>1. CASE TeamRequest(h)
    <3>1. PICK u \in People :
             \/ Begin(h, [Idle EXCEPT !.at = "insertTeam", !.user = u])
             \/ \E t \in teams, first \in {"findNew", "findOld"} :
                   Begin(h, [Idle EXCEPT !.at = first, !.team = t, !.user = u])
      BY <2>1 DEF TeamRequest
    <3>2. [Idle EXCEPT !.at = "insertTeam", !.user = u] \in Call
      BY IdleType DEF Call, Statements
    <3>3. \A t \in Teams, first \in {"findNew", "findOld"} :
             [Idle EXCEPT !.at = first, !.team = t, !.user = u] \in Call
      BY IdleType DEF Call, Statements
    <3>4. QED
      BY <3>1, <3>2, <3>3, <1>1
  <2>2. CASE AccessRequest(h)
    <3>1. \A t \in Teams, c \in Clusters, l \in Levels :
             [Idle EXCEPT !.at = "insertAccess", !.team = t, !.cluster = c, !.level = l] \in Call
      BY IdleType DEF Call, Statements
    <3>2. \A a \in Accesses, l \in Levels :
             [Idle EXCEPT !.at = "updateAccess", !.row = a, !.level = l] \in Call
      BY IdleType DEF Call, Statements
    <3>3. \A a \in Accesses : [Idle EXCEPT !.at = "deleteAccess", !.row = a] \in Call
      BY IdleType DEF Call, Statements
    <3>4. QED
      BY <2>2, <3>1, <3>2, <3>3, <1>1 DEF AccessRequest
  <2>3. CASE CheckRequest(h)
    <3>1. \A u \in Users, c \in Clusters, l \in Levels :
             [Idle EXCEPT !.at = "readTeams", !.user = u, !.cluster = c, !.level = l] \in Call
      BY IdleType DEF Call, Statements, People
    <3>2. QED
      BY <2>3, <3>1, <1>1 DEF CheckRequest
  <2>4. QED
    BY <1>2, <2>1, <2>2, <2>3
<1>3. ASSUME NEW h \in Handlers, InsertTeam(h) \/ FindNew(h) \/ FindOld(h)
      PROVE  TypeOK'
  <2>1. call[h] \in Call
    OBVIOUS
  <2>2. CASE InsertTeam(h)
    <3>1. PICK t \in Teams \ teams :
             /\ teams' = teams \cup {t}
             /\ call' = [call EXCEPT ![h].at = "findNew", ![h].team = t]
      BY <2>2 DEF InsertTeam
    <3>2. call' \in [Handlers -> Call]
      BY <2>1, <3>1 DEF Call, Statements
    <3>3. QED
      BY <2>2, <3>1, <3>2 DEF InsertTeam
  <2>3. CASE FindNew(h)
    <3>1. call' \in [Handlers -> Call]
      <4>1. CASE End(h)
        BY <4>1, EndType
      <4>2. CASE Goto(h, "insertMember")
        BY <2>1, <4>2 DEF Goto, Call, Statements
      <4>3. QED
        BY <2>3, <4>1, <4>2 DEF FindNew
    <3>2. QED
      BY <2>3, <3>1 DEF FindNew, tables
  <2>4. CASE FindOld(h)
    <3>0. call[h].team \in Teams /\ call[h].user \in People
      BY <2>1 DEF Call
    <3>1. member[<<call[h].team, call[h].user>>] \in 0..MaxRows
      BY <3>0
    <3>2. call' \in [Handlers -> Call]
      <4>1. CASE End(h)
        BY <4>1, EndType
      <4>2. CASE ~End(h)
        BY <2>1, <2>4, <3>1, <4>2 DEF FindOld, Call, Statements
      <4>3. QED
        BY <4>1, <4>2
    <3>3. QED
      BY <2>4, <3>2 DEF FindOld, tables
  <2>5. QED
    BY <1>3, <2>2, <2>3, <2>4
<1>4. ASSUME NEW h \in Handlers, InsertMember(h) \/ DeleteMember(h)
      PROVE  TypeOK'
  <2>1. call' \in [Handlers -> Call]
    BY <1>4, EndType DEF InsertMember, DeleteMember
  <2>2. member' \in [Teams \X People -> 0..MaxRows] /\ rows' \in 0..MaxRows
    BY <1>4, ConstantsAssumption DEF InsertMember, DeleteMember
  <2>3. due' \in [Handlers -> SUBSET Teams]
    BY <1>4 DEF InsertMember, DeleteMember, Touch
  <2>4. QED
    BY <1>4, <2>1, <2>2, <2>3 DEF InsertMember, DeleteMember
<1>5. ASSUME NEW h \in Handlers, InsertAccess(h) \/ UpdateAccess(h) \/ DeleteAccess(h)
      PROVE  TypeOK'
  <2>1. call' \in [Handlers -> Call]
    BY <1>5, EndType DEF InsertAccess, UpdateAccess, DeleteAccess
  <2>2. call[h] \in Call
    OBVIOUS
  <2>3. access' \in [Accesses -> Access]
    <3>1. CASE InsertAccess(h)
      BY <2>2, <3>1 DEF InsertAccess, Access, Call
    <3>2. CASE UpdateAccess(h)
      <4>1. call[h].row \in Accesses /\ call[h].level \in Levels
        BY <2>2 DEF Call
      <4>2. QED
        BY <3>2, <4>1 DEF UpdateAccess, Access
    <3>3. CASE DeleteAccess(h)
      <4>1. call[h].row \in Accesses
        BY <2>2 DEF Call
      <4>2. [access[call[h].row] EXCEPT !.state = "deleted"] \in Access
        BY <4>1 DEF Access
      <4>3. access' = access \/ access' = [access EXCEPT ![call[h].row].state = "deleted"]
        BY <3>3 DEF DeleteAccess
      <4>4. QED
        BY <4>1, <4>2, <4>3
    <3>4. QED
      BY <1>5, <3>1, <3>2, <3>3
  <2>4. due' \in [Handlers -> SUBSET Teams]
    BY <1>5 DEF InsertAccess, UpdateAccess, DeleteAccess, Touch
  <2>5. QED
    BY <1>5, <2>1, <2>3, <2>4 DEF InsertAccess, UpdateAccess, DeleteAccess
<1>6. ASSUME NEW h \in Handlers, WriteFails(h) \/ Answer(h)
      PROVE  TypeOK'
  <2>1. call' \in [Handlers -> Call]
    BY <1>6, EndType DEF WriteFails, Answer
  <2>2. QED
    BY <1>6, <2>1 DEF WriteFails, Answer, tables
<1>7. ASSUME NEW h \in Handlers, ReadTeams(h) \/ ReadAccess(h)
      PROVE  TypeOK'
  <2>1. PICK s \in Statements, l \in SUBSET Teams :
           call' = [call EXCEPT ![h].at = s, ![h].left = l]
    <3>1. CASE ReadTeams(h)
      BY <3>1 DEF ReadTeams, Statements
    <3>2. CASE ReadAccess(h)
      <4>1. PICK t \in call[h].left :
               call' = [call EXCEPT ![h].at = Outcome(h, t), ![h].left = call[h].left \ {t}]
        BY <3>2 DEF ReadAccess
      <4>2. call[h].left \in SUBSET Teams
        BY DEF Call
      <4>3. Outcome(h, t) \in Statements
        BY <4>1, <4>2, OutcomeType DEF Statements
      <4>4. QED
        BY <4>1, <4>2, <4>3
    <3>3. QED
      BY <1>7, <3>1, <3>2
  <2>2. call' \in [Handlers -> Call]
    BY <2>1 DEF Call
  <2>3. due' \in [Handlers -> SUBSET Teams]
    BY <1>7 DEF ReadTeams, ReadAccess
  <2>4. QED
    BY <1>7, <2>2, <2>3 DEF ReadTeams, ReadAccess, tables
<1>8. CASE UNCHANGED vars
  BY <1>8 DEF vars, tables
<1>9. QED
  BY <1>2, <1>3, <1>4, <1>5, <1>6, <1>7, <1>8, StepCases

(* The tables and the handlers keep their types. *)
THEOREM TypeCorrect == Spec => []TypeOK
<1>1. TypeOK /\ [Next]_vars => TypeOK'
  BY NextType
<1>2. QED
  BY <1>1, InitType, PTL DEF Spec

-----------------------------------------------------------------------------
(* A check does not deny what an untouched team grants.  The invariant: while *)
(* a check goes through the teams, those that it owes the user an answer for  *)
(* are still to come and still entitle the user.                              *)

Grants(members, accesses, t, x) ==
    /\ members[<<t, x.user>>] # 0
    /\ \E a \in Accesses :
          /\ {b \in Accesses : /\ accesses[b].state = "stored"
                               /\ accesses[b].team = t
                               /\ accesses[b].cluster = x.cluster} = {a}
          /\ accesses[a].level >= x.level

LEMMA EntitlesGrants ==
    ASSUME NEW t, NEW x PROVE Entitles(t, x) <=> Grants(member, access, t, x)
BY DEF Entitles, Grants, RowsFor, HasPermission

Quiet == Statements \ {"readAccess", "allowed", "failed"}

Owes(h) ==
    /\ call[h].at = "readAccess" =>
          \A t \in due[h] : t \in call[h].left /\ Grants(member, access, t, call[h])
    /\ call[h].at \in Quiet => due[h] = {}

IInv == TypeOK /\ \A h \in Handlers : Owes(h)

LEMMA OwesNoDenial == IInv => StandingGrantCounts
BY DEF IInv, Owes, Quiet, Statements, StandingGrantCounts, At

(* A write leaves the teams it does not touch as they were. *)
LEMMA Untouched ==
    ASSUME TypeOK, NEW h \in Handlers, NEW t \in Teams, NEW x \in Call,
           \/ (InsertMember(h) \/ DeleteMember(h)) /\ t # call[h].team
           \/ InsertAccess(h) /\ t # call[h].team
           \/ (UpdateAccess(h) \/ DeleteAccess(h)) /\ t # access[call[h].row].team,
           Grants(member, access, t, x)
    PROVE  Grants(member', access', t, x)
<1>0. /\ member \in [Teams \X People -> 0..MaxRows]
      /\ access \in [Accesses -> Access]
      /\ <<t, x.user>> \in Teams \X People
      /\ call[h].row \in Accesses
  BY DEF TypeOK, Call
<1>1. CASE (InsertMember(h) \/ DeleteMember(h)) /\ t # call[h].team
  <2>1. access' = access /\ member'[<<t, x.user>>] = member[<<t, x.user>>]
    BY <1>0, <1>1 DEF InsertMember, DeleteMember
  <2>2. QED
    BY <2>1 DEF Grants
<1>2. ASSUME UNCHANGED member,
             \A a \in Accesses :
                \/ access'[a] = access[a]
                \/ /\ access'[a].team # t
                   /\ access[a].team # t \/ access[a].state # "stored"
      PROVE  Grants(member', access', t, x)
  <2>1. {b \in Accesses : access'[b].state = "stored" /\ access'[b].team = t /\ access'[b].cluster = x.cluster}
        = {b \in Accesses : access[b].state = "stored" /\ access[b].team = t /\ access[b].cluster = x.cluster}
    BY <1>2
  <2>2. QED
    BY <1>2, <2>1 DEF Grants
<1>3. CASE InsertAccess(h) /\ t # call[h].team
  <2>1. PICK a \in Accesses :
           /\ access[a].state = "unused"
           /\ access' = [access EXCEPT ![a] = [state |-> "stored", team |-> call[h].team,
                                              cluster |-> call[h].cluster,
                                              level |-> call[h].level]]
    BY <1>3 DEF InsertAccess
  <2>2. \A b \in Accesses \ {a} : access'[b] = access[b]
    BY <1>0, <2>1
  <2>3. access'[a].team = call[h].team /\ access[a].state # "stored"
    BY <1>0, <2>1
  <2>4. UNCHANGED member
    BY <1>3 DEF InsertAccess
  <2>5. QED
    BY <1>2, <1>3, <2>2, <2>3, <2>4
<1>4. CASE (UpdateAccess(h) \/ DeleteAccess(h)) /\ t # access[call[h].row].team
  <2>1. \A a \in Accesses : access'[a] = access[a] \/ (access'[a].team # t /\ access[a].team # t)
    <3>1. \/ access' = access
          \/ access' = [access EXCEPT ![call[h].row].level = call[h].level]
          \/ access' = [access EXCEPT ![call[h].row].state = "deleted"]
      BY <1>4 DEF UpdateAccess, DeleteAccess
    <3>2. \A a \in Accesses \ {call[h].row} : access'[a] = access[a]
      BY <1>0, <3>1
    <3>3. access'[call[h].row].team = access[call[h].row].team
      <4>1. access[call[h].row] \in Access
        BY <1>0
      <4>2. CASE access' = [access EXCEPT ![call[h].row].level = call[h].level]
        BY <1>0, <4>1, <4>2 DEF Access
      <4>3. CASE access' = [access EXCEPT ![call[h].row].state = "deleted"]
        BY <1>0, <4>1, <4>3 DEF Access
      <4>4. QED
        BY <3>1, <4>2, <4>3
    <3>4. QED
      BY <1>4, <3>2, <3>3
  <2>2. QED
    BY <1>2, <1>4, <2>1 DEF UpdateAccess, DeleteAccess
<1>5. QED
  BY <1>1, <1>3, <1>4

(* The one row of a team that entitles the user answers the check. *)
LEMMA EntitledIsAllowed ==
    ASSUME NEW h \in Handlers, NEW t \in Teams, Grants(member, access, t, call[h])
    PROVE  Outcome(h, t) = "allowed"
<1>1. PICK a \in Accesses : /\ RowsFor(t, call[h].cluster) = {a}
                            /\ HasPermission(access[a].level, call[h].level)
  BY DEF Grants, RowsFor, HasPermission
<1>2. Cardinality({a}) = 1
  BY FS_Singleton
<1>3. QED
  BY <1>1, <1>2 DEF Outcome

LEMMA InitOwes == Init => IInv
BY InitType, IdleType DEF Init, IInv, Owes

(* The other handlers of a step that leaves their calls alone. *)
LEMMA OthersOwe ==
    ASSUME IInv, NEW h \in Handlers, NEW g \in Handlers, g # h,
           call'[g] = call[g], due'[g] \subseteq due[g],
           \A t \in due'[g] : Grants(member, access, t, call[g])
                              => Grants(member', access', t, call[g])
    PROVE  Owes(g)'
BY DEF IInv, Owes

(* A call begins, ends or goes on without a write. *)
LEMMA QuietOwes ==
    ASSUME IInv, NEW h \in Handlers, call[h].at \in Quiet, call'[h].at \in Quiet,
           \A g \in Handlers \ {h} : call'[g] = call[g],
           UNCHANGED <<member, access, due>>
    PROVE  \A g \in Handlers : Owes(g)'
<1> TAKE g \in Handlers
<1>1. CASE g = h
  BY <1>1 DEF IInv, Owes, Quiet
<1>2. CASE g # h
  BY <1>2, OthersOwe
<1>3. QED
  BY <1>1, <1>2

LEMMA IdleIsQuiet == ASSUME TypeOK, NEW h \in Handlers, End(h)
                     PROVE  /\ call'[h].at \in Quiet
                            /\ \A g \in Handlers \ {h} : call'[g] = call[g]
BY IdleType DEF TypeOK, End, Quiet, Statements

LEMMA NextOwes == ASSUME IInv, [Next]_vars PROVE IInv'
<1>0. TypeOK /\ TypeOK' /\ \A g \in Handlers : Owes(g)
  BY NextType DEF IInv
<1> SUFFICES \A g \in Handlers : Owes(g)'
  BY <1>0 DEF IInv
<1>1. ASSUME NEW h \in Handlers, TeamRequest(h) \/ AccessRequest(h) \/ CheckRequest(h)
      PROVE  \A g \in Handlers : Owes(g)'
  <2>1. PICK s : s.at \in Quiet /\ Begin(h, s)
    <3>1. CASE TeamRequest(h)
      <4>1. PICK u \in People :
             \/ Begin(h, [Idle EXCEPT !.at = "insertTeam", !.user = u])
             \/ \E t \in teams, first \in {"findNew", "findOld"} :
                   Begin(h, [Idle EXCEPT !.at = first, !.team = t, !.user = u])
        BY <3>1 DEF TeamRequest
      <4>2. [Idle EXCEPT !.at = "insertTeam", !.user = u].at = "insertTeam"
        BY IdleType DEF Call
      <4>3. \A t \in teams, first \in {"findNew", "findOld"} :
               [Idle EXCEPT !.at = first, !.team = t, !.user = u].at = first
        BY IdleType DEF Call
      <4>4. QED
        BY <4>1, <4>2, <4>3 DEF Quiet, Statements
    <3>2. CASE AccessRequest(h)
      <4>1. \A t \in teams, c \in Clusters, l \in Levels :
               [Idle EXCEPT !.at = "insertAccess", !.team = t, !.cluster = c, !.level = l].at
               = "insertAccess"
        BY IdleType DEF Call
      <4>2. \A a \in Accesses, l \in Levels :
               [Idle EXCEPT !.at = "updateAccess", !.row = a, !.level = l].at = "updateAccess"
        BY IdleType DEF Call
      <4>3. \A a \in Accesses : [Idle EXCEPT !.at = "deleteAccess", !.row = a].at = "deleteAccess"
        BY IdleType DEF Call
      <4>4. {"insertAccess", "updateAccess", "deleteAccess"} \subseteq Quiet
        BY DEF Quiet, Statements
      <4>5. CASE \E t \in teams, c \in Clusters, l \in Levels :
                Begin(h, [Idle EXCEPT !.at = "insertAccess", !.team = t, !.cluster = c, !.level = l])
        BY <4>1, <4>4, <4>5
      <4>6. CASE \E a \in Accesses, l \in Levels :
                Begin(h, [Idle EXCEPT !.at = "updateAccess", !.row = a, !.level = l])
        BY <4>2, <4>4, <4>6
      <4>7. CASE \E a \in Accesses : Begin(h, [Idle EXCEPT !.at = "deleteAccess", !.row = a])
        BY <4>3, <4>4, <4>7
      <4>8. QED
        BY <3>2, <4>5, <4>6, <4>7 DEF AccessRequest
    <3>3. CASE CheckRequest(h)
      <4>1. \A u \in Users, c \in Clusters, l \in Levels :
             [Idle EXCEPT !.at = "readTeams", !.user = u, !.cluster = c, !.level = l].at = "readTeams"
        BY IdleType DEF Call
      <4>2. QED
        BY <3>3, <4>1 DEF CheckRequest, Quiet, Statements
    <3>4. QED
      BY <1>1, <3>1, <3>2, <3>3
  <2>2. /\ call[h].at \in Quiet /\ call'[h] = s
        /\ \A g \in Handlers \ {h} : call'[g] = call[g]
        /\ UNCHANGED <<member, access, due>>
    BY <1>0, <2>1 DEF Begin, At, tables, TypeOK, Quiet, Statements
  <2>3. QED
    BY <2>1, <2>2, QuietOwes
<1>2. ASSUME NEW h \in Handlers,
             InsertTeam(h) \/ FindNew(h) \/ FindOld(h) \/ WriteFails(h)
      PROVE  \A g \in Handlers : Owes(g)'
  <2>1. call[h] \in Call /\ call \in [Handlers -> Call]
    BY <1>0 DEF TypeOK
  <2>2. /\ call'[h].at \in Quiet
        /\ \A g \in Handlers \ {h} : call'[g] = call[g]
    <3>1. CASE End(h)
      BY <1>0, <3>1, IdleIsQuiet
    <3>2. CASE InsertTeam(h)
      BY <2>1, <3>2 DEF InsertTeam, Call, Quiet, Statements
    <3>3. CASE FindNew(h) /\ ~End(h)
      BY <2>1, <3>3 DEF FindNew, Goto, Call, Quiet, Statements
    <3>4. CASE FindOld(h) /\ ~End(h)
      BY <2>1, <3>4 DEF FindOld, Call, Quiet, Statements
    <3>5. QED
      BY <1>2, <3>1, <3>2, <3>3, <3>4 DEF WriteFails
  <2>3. /\ call[h].at \in Quiet
        /\ UNCHANGED <<member, access, due>>
    BY <1>2 DEF InsertTeam, FindNew, FindOld, WriteFails, At, tables, Quiet, Statements
  <2>4. QED
    BY <2>2, <2>3, QuietOwes
<1>3. ASSUME NEW h \in Handlers,
             \/ InsertMember(h) \/ DeleteMember(h)
             \/ InsertAccess(h) \/ UpdateAccess(h) \/ DeleteAccess(h)
      PROVE  \A g \in Handlers : Owes(g)'
  <2>1. /\ End(h)
        /\ call[h].at \in Quiet
    BY <1>3 DEF InsertMember, DeleteMember, InsertAccess, UpdateAccess, DeleteAccess, At,
                Quiet, Statements
  <2>2. \A g \in Handlers : due'[g] \subseteq due[g]
    BY <1>0, <1>3 DEF InsertMember, DeleteMember, InsertAccess, UpdateAccess, DeleteAccess,
                      Touch, TypeOK
  <2>3. ASSUME NEW g \in Handlers, NEW t \in Teams, t \in due'[g],
               Grants(member, access, t, call[g])
        PROVE  Grants(member', access', t, call[g])
    <3>0. call[g] \in Call
      BY <1>0 DEF TypeOK
    <3>1. CASE UNCHANGED <<member, access>>
      BY <2>3, <3>1
    <3>2. CASE InsertMember(h) \/ (DeleteMember(h) /\ ~UNCHANGED member) \/ InsertAccess(h)
      <4>1. t # call[h].team
        BY <3>2, <2>3 DEF InsertMember, DeleteMember, InsertAccess, Touch
      <4>2. QED
        BY <1>0, <3>0, <3>2, <4>1, <2>3, Untouched
    <3>3. CASE (UpdateAccess(h) \/ DeleteAccess(h)) /\ ~UNCHANGED access
      <4>1. t # access[call[h].row].team
        BY <3>3, <2>3 DEF UpdateAccess, DeleteAccess, Touch
      <4>2. QED
        BY <1>0, <3>0, <3>3, <4>1, <2>3, Untouched
    <3>4. CASE (DeleteMember(h) /\ UNCHANGED member)
               \/ ((UpdateAccess(h) \/ DeleteAccess(h)) /\ UNCHANGED access)
      BY <2>3, <3>4 DEF DeleteMember, UpdateAccess, DeleteAccess
    <3>5. QED
      BY <1>3, <3>2, <3>3, <3>4
  <2>4. ASSUME NEW g \in Handlers PROVE Owes(g)'
    <3>1. CASE g = h
      BY <1>0, <2>1, <2>2, <3>1, IdleIsQuiet DEF Owes, Quiet
    <3>2. CASE g # h
      <4>1. call'[g] = call[g]
        BY <1>0, <2>1, <3>2, IdleIsQuiet
      <4>2. due'[g] \subseteq Teams
        BY <1>0 DEF TypeOK
      <4>3. QED
        BY <3>2, <4>1, <4>2, <2>2, <2>3, OthersOwe
    <3>3. QED
      BY <3>1, <3>2
  <2>5. QED
    BY <2>4
<1>4. ASSUME NEW h \in Handlers, ReadTeams(h)
      PROVE  \A g \in Handlers : Owes(g)'
  <2> TAKE g \in Handlers
  <2>1. UNCHANGED <<member, access>> /\ teams \subseteq Teams
    BY <1>0, <1>4 DEF ReadTeams, tables, TypeOK
  <2>2. CASE g # h
    <3>1. call'[g] = call[g] /\ due'[g] = due[g]
      BY <1>0, <1>4, <2>2 DEF ReadTeams, TypeOK
    <3>2. QED
      BY <2>1, <2>2, <3>1, OthersOwe
  <2>3. CASE g = h
    <3> DEFINE mine == {t \in teams : member[<<t, call[h].user>>] # 0}
    <3>1. /\ call'[h].at = IF mine = {} THEN "denied" ELSE "readAccess"
          /\ call'[h].left = mine
          /\ call'[h].user = call[h].user /\ call'[h].cluster = call[h].cluster
          /\ call'[h].level = call[h].level
          /\ due'[h] = {t \in mine : Entitles(t, call[h])}
      BY <1>0, <1>4 DEF ReadTeams, TypeOK, Call
    <3>2. \A t \in due'[h] : Grants(member, access, t, call[h])
      BY <3>1, EntitlesGrants
    <3>3. \A t \in due'[h] : Grants(member', access', t, call'[h])
      BY <2>1, <3>1, <3>2 DEF Grants
    <3>4. QED
      BY <2>3, <3>1, <3>3 DEF Owes, Quiet
  <2>4. QED
    BY <2>2, <2>3
<1>5. ASSUME NEW h \in Handlers, ReadAccess(h)
      PROVE  \A g \in Handlers : Owes(g)'
  <2> TAKE g \in Handlers
  <2>1. UNCHANGED <<member, access, due>>
    BY <1>5 DEF ReadAccess, tables
  <2>2. CASE g # h
    <3>1. call'[g] = call[g]
      BY <1>0, <1>5, <2>2 DEF ReadAccess, TypeOK
    <3>2. QED
      BY <2>1, <2>2, <3>1, OthersOwe
  <2>3. CASE g = h
    <3>0. call[h] \in Call /\ call[h].left \subseteq Teams /\ due[h] \subseteq Teams
      BY <1>0 DEF TypeOK, Call
    <3>1. PICK t \in call[h].left :
             call' = [call EXCEPT ![h].at = Outcome(h, t), ![h].left = call[h].left \ {t}]
      BY <1>5 DEF ReadAccess
    <3>2. /\ call'[h].at = Outcome(h, t) /\ call'[h].left = call[h].left \ {t}
          /\ call'[h].user = call[h].user /\ call'[h].cluster = call[h].cluster
          /\ call'[h].level = call[h].level
      BY <1>0, <3>0, <3>1 DEF TypeOK, Call
    <3>3. \A d \in due[h] : d \in call[h].left /\ Grants(member, access, d, call[h])
      BY <1>0, <1>5 DEF Owes, ReadAccess, At
    <3>4. Outcome(h, t) # "allowed" => t \notin due[h]
      BY <3>0, <3>1, <3>3, EntitledIsAllowed
    <3>5. Outcome(h, t) = "denied" => call[h].left = {t}
      BY DEF Outcome
    <3>6. \A d \in due[h] : Grants(member', access', d, call'[h])
      BY <2>1, <3>2, <3>3 DEF Grants
    <3>7. Outcome(h, t) \in {"allowed", "denied", "failed", "readAccess"}
      BY <3>0, <3>1, OutcomeType
    <3>8. CASE Outcome(h, t) = "readAccess"
      BY <2>1, <2>3, <3>2, <3>3, <3>4, <3>6, <3>8 DEF Owes, Quiet
    <3>9. CASE Outcome(h, t) = "denied"
      <4>1. due[h] = {}
        BY <3>3, <3>4, <3>5, <3>9
      <4>2. QED
        BY <2>1, <2>3, <3>2, <3>9, <4>1 DEF Owes, Quiet
    <3>10. CASE Outcome(h, t) \in {"allowed", "failed"}
      BY <2>3, <3>2, <3>10 DEF Owes, Quiet
    <3>11. QED
      BY <3>7, <3>8, <3>9, <3>10
  <2>4. QED
    BY <2>2, <2>3
<1>6. ASSUME NEW h \in Handlers, Answer(h)
      PROVE  \A g \in Handlers : Owes(g)'
  <2> TAKE g \in Handlers
  <2>1. UNCHANGED <<member, access>> /\ End(h) /\ due' = [due EXCEPT ![h] = {}]
    BY <1>6 DEF Answer, tables
  <2>2. CASE g = h
    BY <1>0, <2>1, <2>2, IdleIsQuiet DEF Owes, Quiet, TypeOK
  <2>3. CASE g # h
    <3>1. call'[g] = call[g] /\ due'[g] = due[g]
      BY <1>0, <2>1, <2>3, IdleIsQuiet DEF TypeOK
    <3>2. QED
      BY <2>1, <2>3, <3>1, OthersOwe
  <2>4. QED
    BY <2>2, <2>3
<1>7. CASE UNCHANGED vars
  BY <1>0, <1>7 DEF vars, tables, Owes
<1>8. QED
  BY <1>1, <1>2, <1>3, <1>4, <1>5, <1>6, <1>7, StepCases

(* A check whose user an untouched team entitles is not denied, whatever else *)
(* is changed between its statements.                                         *)
THEOREM StandingGrantsCount == Spec => []StandingGrantCounts
<1>1. IInv /\ [Next]_vars => IInv'
  BY NextOwes
<1>2. QED
  BY <1>1, InitOwes, OwesNoDenial, PTL DEF Spec

-----------------------------------------------------------------------------
(* Removals.                                                                  *)

RemovesIt ==
    \A m \in Teams \X People :
         member[m] # 0 /\ member'[m] # member[m] =>
             /\ member'[m] = 0
             /\ \E h \in Handlers : At(h, "deleteMember") /\ call[h].seen = member[m]

LEMMA StepRemoves == ASSUME TypeOK, [Next]_vars PROVE RemovesIt
<1>1. ASSUME NEW h \in Handlers, InsertMember(h)
      PROVE  RemovesIt
  BY <1>1 DEF InsertMember, RemovesIt, TypeOK
<1>2. ASSUME NEW h \in Handlers, DeleteMember(h)
      PROVE  RemovesIt
  BY <1>2 DEF DeleteMember, RemovesIt, TypeOK
<1>3. CASE UNCHANGED member
  BY <1>3 DEF RemovesIt
<1>4. ASSUME NEW h \in Handlers,
             \/ TeamRequest(h) \/ AccessRequest(h) \/ CheckRequest(h)
             \/ InsertTeam(h) \/ FindNew(h) \/ FindOld(h)
             \/ InsertAccess(h) \/ UpdateAccess(h) \/ DeleteAccess(h) \/ WriteFails(h)
             \/ ReadTeams(h) \/ ReadAccess(h) \/ Answer(h)
      PROVE  UNCHANGED member
  BY <1>4 DEF TeamRequest, AccessRequest, CheckRequest, Begin, InsertTeam, FindNew, FindOld,
              InsertAccess, UpdateAccess, DeleteAccess, WriteFails, ReadTeams, ReadAccess,
              Answer, tables
<1>5. CASE UNCHANGED vars
  BY <1>3, <1>5 DEF vars, tables
<1>6. QED
  BY <1>1, <1>2, <1>3, <1>4, <1>5, StepCases

(* A removal ends only the membership that its SELECT found. *)
THEOREM RemovalsAreExact == Spec => RemovesWhatItSaw
<1>1. TypeOK /\ [Next]_vars => [RemovesIt]_vars
  BY StepRemoves
<1>2. QED
  BY <1>1, TypeCorrect, PTL DEF Spec, RemovesWhatItSaw, RemovesIt

-----------------------------------------------------------------------------
(* scalar_one_or_none raises on a second row and nothing else in the check    *)
(* does, so a check fails only after a team has got two rows for a cluster:   *)
(* what no key of the table and no statement of create_cluster_access rules   *)
(* out.                                                                       *)

OneRow == \A t \in Teams, c \in Clusters : \A a, b \in RowsFor(t, c) : a = b

LEMMA OutcomeOfOneRow ==
    ASSUME TypeOK, OneRow, NEW h \in Handlers, NEW t \in Teams
    PROVE  Outcome(h, t) # "failed"
<1> DEFINE found == RowsFor(t, call[h].cluster)
<1>1. call[h].cluster \in Clusters
  BY DEF TypeOK, Call
<1>2. found = {} \/ \E a \in found : found = {a}
  <2>1. \A a, b \in found : a = b
    BY <1>1 DEF OneRow
  <2> HIDE DEF found
  <2>2. QED
    BY <2>1
<1>3. Cardinality(found) \in {0, 1}
  <2> HIDE DEF found
  <2>1. QED
    BY <1>2, FS_EmptySet, FS_Singleton
<1>4. ~(Cardinality(found) > 1)
  BY <1>3
<1>5. QED
  BY <1>4 DEF Outcome

LEMMA NextAnswered ==
    ASSUME TypeOK, OneRow, ChecksAreAnswered, [Next]_vars
    PROVE  ChecksAreAnswered'
<1> USE DEF TypeOK, ChecksAreAnswered, At
<1>1. ASSUME NEW h \in Handlers, NEW x \in Call, x.at # "failed",
             call' = [call EXCEPT ![h] = x]
      PROVE  ChecksAreAnswered'
  BY <1>1
<1>2. ASSUME NEW h \in Handlers, End(h)
      PROVE  ChecksAreAnswered'
  BY <1>1, <1>2, IdleType DEF End
<1>3. ASSUME NEW h \in Handlers, NEW at \in Statements \ {"failed"},
             call'[h].at = at, \A g \in Handlers \ {h} : call'[g] = call[g]
      PROVE  ChecksAreAnswered'
  BY <1>3
<1>4. ASSUME NEW h \in Handlers, TeamRequest(h) \/ AccessRequest(h) \/ CheckRequest(h)
      PROVE  ChecksAreAnswered'
  <2>0. ASSUME NEW x, Begin(h, x), x.at \in Statements \ {"failed"}
        PROVE  ChecksAreAnswered'
    BY <2>0 DEF Begin
  <2>1. CASE TeamRequest(h)
    <3>1. PICK u \in People :
             \/ Begin(h, [Idle EXCEPT !.at = "insertTeam", !.user = u])
             \/ \E t \in teams, first \in {"findNew", "findOld"} :
                   Begin(h, [Idle EXCEPT !.at = first, !.team = t, !.user = u])
      BY <2>1 DEF TeamRequest
    <3>2. [Idle EXCEPT !.at = "insertTeam", !.user = u].at \in Statements \ {"failed"}
      BY IdleType DEF Call, Statements
    <3>3. \A t, first : first \in {"findNew", "findOld"} =>
             [Idle EXCEPT !.at = first, !.team = t, !.user = u].at \in Statements \ {"failed"}
      BY IdleType DEF Call, Statements
    <3>4. QED
      BY <3>1, <3>2, <3>3, <2>0
  <2>2. CASE AccessRequest(h)
    <3>1. \A t, c, l :
             [Idle EXCEPT !.at = "insertAccess", !.team = t, !.cluster = c, !.level = l].at
                \in Statements \ {"failed"}
      BY IdleType DEF Call, Statements
    <3>2. \A a, l : [Idle EXCEPT !.at = "updateAccess", !.row = a, !.level = l].at
                       \in Statements \ {"failed"}
      BY IdleType DEF Call, Statements
    <3>3. \A a : [Idle EXCEPT !.at = "deleteAccess", !.row = a].at \in Statements \ {"failed"}
      BY IdleType DEF Call, Statements
    <3>4. QED
      BY <2>2, <3>1, <3>2, <3>3, <2>0 DEF AccessRequest
  <2>3. CASE CheckRequest(h)
    <3>1. \A u, c, l : [Idle EXCEPT !.at = "readTeams", !.user = u, !.cluster = c, !.level = l].at
                          \in Statements \ {"failed"}
      BY IdleType DEF Call, Statements
    <3>2. QED
      BY <2>3, <3>1, <2>0 DEF CheckRequest
  <2>4. QED
    BY <1>4, <2>1, <2>2, <2>3
<1>5. ASSUME NEW h \in Handlers, InsertTeam(h) \/ FindNew(h) \/ FindOld(h) \/ ReadTeams(h)
      PROVE  ChecksAreAnswered'
  <2>0. call \in [Handlers -> Call] /\ call[h] \in Call
    OBVIOUS
  <2>1. CASE InsertTeam(h)
    <3>1. \E t : call' = [call EXCEPT ![h].at = "findNew", ![h].team = t]
      BY <2>1 DEF InsertTeam
    <3>2. QED
      BY <2>0, <3>1 DEF Call
  <2>2. CASE FindNew(h)
    <3>1. End(h) \/ call' = [call EXCEPT ![h].at = "insertMember"]
      BY <2>2 DEF FindNew, Goto
    <3>2. QED
      BY <2>0, <3>1, <1>2 DEF Call
  <2>3. CASE FindOld(h)
    <3>1. End(h) \/ \E n : call' = [call EXCEPT ![h].at = "deleteMember", ![h].seen = n]
      BY <2>3 DEF FindOld
    <3>2. QED
      BY <2>0, <3>1, <1>2 DEF Call
  <2>4. CASE ReadTeams(h)
    <3>1. \E s \in {"denied", "readAccess"} : \E l :
             call' = [call EXCEPT ![h].at = s, ![h].left = l]
      BY <2>4 DEF ReadTeams
    <3>2. QED
      BY <2>0, <3>1 DEF Call
  <2>5. QED
    BY <1>5, <2>1, <2>2, <2>3, <2>4
<1>6. ASSUME NEW h \in Handlers,
             \/ InsertMember(h) \/ DeleteMember(h) \/ InsertAccess(h) \/ UpdateAccess(h)
             \/ DeleteAccess(h) \/ WriteFails(h) \/ Answer(h)
      PROVE  ChecksAreAnswered'
  BY <1>2, <1>6 DEF InsertMember, DeleteMember, InsertAccess, UpdateAccess, DeleteAccess,
                    WriteFails, Answer
<1>7. ASSUME NEW h \in Handlers, ReadAccess(h)
      PROVE  ChecksAreAnswered'
  <2>1. PICK t \in call[h].left :
           call' = [call EXCEPT ![h].at = Outcome(h, t), ![h].left = @ \ {t}]
    BY <1>7 DEF ReadAccess
  <2>2. t \in Teams
    BY <2>1 DEF Call
  <2>3. Outcome(h, t) \in Statements \ {"failed"}
    BY <2>2, OutcomeType, OutcomeOfOneRow DEF Statements
  <2>4. call'[h].at = Outcome(h, t) /\ \A g \in Handlers \ {h} : call'[g] = call[g]
    BY <2>1 DEF Call
  <2>5. QED
    BY <2>3, <2>4, <1>3
<1>8. CASE UNCHANGED vars
  BY <1>8 DEF vars
<1>9. QED
  BY <1>4, <1>5, <1>6, <1>7, <1>8, StepCases

(* As long as no team has two rows for a cluster, every check gets its        *)
(* answer, however the other calls run between its statements.                *)
THEOREM OneRowAnswers == Spec /\ []OneRow => []ChecksAreAnswered
<1>1. Init => ChecksAreAnswered
  BY IdleType DEF Init, ChecksAreAnswered, At
<1>2. TypeOK /\ OneRow /\ ChecksAreAnswered /\ [Next]_vars => ChecksAreAnswered'
  BY NextAnswered
<1>3. QED
  BY TypeCorrect, <1>1, <1>2, PTL DEF Spec
=============================================================================
