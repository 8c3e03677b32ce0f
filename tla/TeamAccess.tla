---------------------------- MODULE TeamAccess ----------------------------
(***************************************************************************)
(* Teams, their members and their access to clusters in the user service   *)
(* (services/user-service/app): the tables teams, team_members and         *)
(* cluster_access, the calls that change them and POST /permissions/check, *)
(* which reads them.  A handler reads and writes in separate statements,   *)
(* each of which sees what is committed (read committed), so every         *)
(* statement is a step.  Nothing deletes a user or a team.                 *)
(***************************************************************************)
EXTENDS Naturals, FiniteSets

CONSTANTS
    Users,      \* registered users
    Unknown,    \* identifiers that no user has: current_user_id is a parameter
    Teams,      \* team identifiers (uuid4, never reused)
    Clusters,   \* clusters of the onboarding service
    Accesses,   \* identifiers of the rows of cluster_access
    Levels,     \* the permission levels that occur, by their place in
                \* permission_order: none, read, dry_run, write, admin
    Handlers,   \* calls of the API that run at one time
    MaxRows     \* bound: rows of team_members ever inserted

ASSUME ConstantsAssumption ==
    /\ Users \cap Unknown = {} /\ Users # {}
    /\ Teams # {} /\ Clusters # {} /\ Accesses # {}
    /\ Levels \subseteq 0..4 /\ Levels # {}
    /\ MaxRows \in Nat

VARIABLES
    teams,      \* the table teams
    member,     \* team_members: the number of the row of a team and a user, or 0
    rows,       \* rows of team_members inserted so far
    access,     \* cluster_access
    call,       \* each handler: the statement it is about to make, what it was
                \* called with, the row of team_members it has read and the
                \* teams that a check has still to look at
    due         \* teams that entitle the user of a check and have not been
                \* touched since it read the teams (history)

tables == <<teams, member, rows, access>>
vars   == <<tables, call, due>>

People == Users \cup Unknown

Statements ==
    {"idle", "insertTeam", "findNew", "insertMember", "findOld", "deleteMember",
     "insertAccess", "updateAccess", "deleteAccess",
     "readTeams", "readAccess", "allowed", "denied", "failed"}

Access == [state : {"unused", "stored", "deleted"},
           team : Teams, cluster : Clusters, level : Levels]

Call == [at : Statements, team : Teams, user : People, cluster : Clusters,
         level : Levels, row : Accesses, seen : 0..MaxRows, left : SUBSET Teams]

TypeOK ==
    /\ teams \subseteq Teams
    /\ member \in [Teams \X People -> 0..MaxRows]
    /\ rows \in 0..MaxRows
    /\ access \in [Accesses -> Access]
    /\ call \in [Handlers -> Call]
    /\ due \in [Handlers -> SUBSET Teams]

Idle == [at |-> "idle", team |-> CHOOSE t \in Teams : TRUE, user |-> CHOOSE u \in Users : TRUE,
         cluster |-> CHOOSE c \in Clusters : TRUE, level |-> CHOOSE l \in Levels : TRUE,
         row |-> CHOOSE a \in Accesses : TRUE, seen |-> 0, left |-> {}]

Init ==
    /\ teams = {}
    /\ member = [m \in Teams \X People |-> 0]
    /\ rows = 0
    /\ access = [a \in Accesses |-> [state |-> "unused", team |-> Idle.team,
                                     cluster |-> Idle.cluster, level |-> Idle.level]]
    /\ call = [h \in Handlers |-> Idle]
    /\ due = [h \in Handlers |-> {}]

-----------------------------------------------------------------------------
At(h, statement)   == call[h].at = statement
Goto(h, statement) == call' = [call EXCEPT ![h].at = statement]
End(h)             == call' = [call EXCEPT ![h] = Idle]

(* The rows for a team and a cluster. *)
RowsFor(t, c) ==
    {a \in Accesses : access[a].state = "stored" /\ access[a].team = t /\ access[a].cluster = c}

(* A write to the membership or to the access rows of a team. *)
Touch(t) == due' = [h \in Handlers |-> due[h] \ {t}]

(* A statement that writes fails, as all of them may: nothing is committed,   *)
(* the caller gets an error.                                                  *)
WriteFails(h) ==
    /\ call[h].at \in {"insertTeam", "insertMember", "deleteMember",
                       "insertAccess", "updateAccess", "deleteAccess"}
    /\ End(h)
    /\ UNCHANGED <<tables, due>>

-----------------------------------------------------------------------------
(* Teams and members.                                                         *)

(* create_team: the INSERT of the team.  The endpoint goes on to add the      *)
(* owner, in a transaction of its own.                                        *)
InsertTeam(h) ==
    /\ At(h, "insertTeam")
    /\ \E t \in Teams \ teams :
          /\ teams' = teams \cup {t}
          /\ call' = [call EXCEPT ![h].at = "findNew", ![h].team = t]
    /\ UNCHANGED <<member, rows, access, due>>

(* add_team_member: the SELECT. *)
FindNew(h) ==
    /\ At(h, "findNew")
    /\ IF member[<<call[h].team, call[h].user>>] = 0 THEN Goto(h, "insertMember") ELSE End(h)
    /\ UNCHANGED <<tables, due>>

(* add_team_member: the INSERT.  A unique key on team and user and a foreign  *)
(* key fail a second row and an unknown user.                                 *)
InsertMember(h) ==
    LET m == <<call[h].team, call[h].user>>
    IN  /\ At(h, "insertMember")
        /\ m[2] \in Users /\ member[m] = 0
        /\ rows < MaxRows
        /\ rows' = rows + 1
        /\ member' = [member EXCEPT ![m] = rows + 1]
        /\ Touch(m[1])
        /\ End(h)
        /\ UNCHANGED <<teams, access>>

(* remove_team_member: the SELECT. *)
FindOld(h) ==
    LET row == member[<<call[h].team, call[h].user>>]
    IN  /\ At(h, "findOld")
        /\ IF row = 0
           THEN End(h)
           ELSE call' = [call EXCEPT ![h].at = "deleteMember", ![h].seen = row]
        /\ UNCHANGED <<tables, due>>

(* Mutant: the DELETE is by team and user. *)
DeleteMemberByKey(h) ==
    LET m == <<call[h].team, call[h].user>>
    IN  /\ At(h, "deleteMember")
        /\ member' = [member EXCEPT ![m] = 0]
        /\ Touch(m[1])
        /\ End(h)
        /\ UNCHANGED <<teams, rows, access>>

(* remove_team_member: the DELETE, of the row that was read. *)
DeleteMember(h) ==
    LET m == <<call[h].team, call[h].user>>
    IN  /\ At(h, "deleteMember")
        /\ IF member[m] = call[h].seen
           THEN member' = [member EXCEPT ![m] = 0] /\ Touch(m[1])
           ELSE UNCHANGED <<member, due>>
        /\ End(h)
        /\ UNCHANGED <<teams, rows, access>>

-----------------------------------------------------------------------------
(* Access to clusters, changed by a superuser.                                *)

(* create_cluster_access, after the SELECT of the team: no key says that a    *)
(* team has one row for a cluster.                                            *)
InsertAccess(h) ==
    /\ At(h, "insertAccess")
    /\ \E a \in Accesses :
          /\ access[a].state = "unused"
          /\ access' = [access EXCEPT ![a] = [state |-> "stored", team |-> call[h].team,
                                             cluster |-> call[h].cluster, level |-> call[h].level]]
    /\ Touch(call[h].team)
    /\ End(h)
    /\ UNCHANGED <<teams, member, rows>>

(* update_cluster_access and delete_cluster_access, after the SELECT: the     *)
(* statement finds the row, or it is gone.                                    *)
UpdateAccess(h) ==
    LET a == call[h].row
    IN  /\ At(h, "updateAccess")
        /\ IF access[a].state = "stored"
           THEN access' = [access EXCEPT ![a].level = call[h].level] /\ Touch(access[a].team)
           ELSE UNCHANGED <<access, due>>
        /\ End(h)
        /\ UNCHANGED <<teams, member, rows>>

(* Mutant: a row is not deleted but marked. *)
DeleteAccessSoft(h) ==
    LET a == call[h].row
    IN  /\ At(h, "deleteAccess")
        /\ access' = [access EXCEPT ![a].state = "inactive"]
        /\ Touch(access[a].team)
        /\ End(h)
        /\ UNCHANGED <<teams, member, rows>>

DeleteAccess(h) ==
    LET a == call[h].row
    IN  /\ At(h, "deleteAccess")
        /\ IF access[a].state = "stored"
           THEN access' = [access EXCEPT ![a].state = "deleted"] /\ Touch(access[a].team)
           ELSE UNCHANGED <<access, due>>
        /\ End(h)
        /\ UNCHANGED <<teams, member, rows>>

-----------------------------------------------------------------------------
(* POST /permissions/check.                                                   *)

(* _has_permission *)
HasPermission(granted, required) == granted >= required

(* A team of the user whose one row for the cluster has the level. *)
Entitles(t, x) ==
    /\ member[<<t, x.user>>] # 0
    /\ \E a \in Accesses :
          RowsFor(t, x.cluster) = {a} /\ HasPermission(access[a].level, x.level)

(* get_user_teams *)
ReadTeams(h) ==
    LET mine == {t \in teams : member[<<t, call[h].user>>] # 0}
    IN  /\ At(h, "readTeams")
        /\ call' = [call EXCEPT ![h].at = IF mine = {} THEN "denied" ELSE "readAccess",
                                ![h].left = mine]
        /\ due' = [due EXCEPT ![h] = {t \in mine : Entitles(t, call[h])}]
        /\ UNCHANGED tables

(* What the rows of team t say: an answer, or the next team is looked at.     *)
(* scalar_one_or_none raises when it gets two rows.                           *)
Outcome(h, t) ==
    LET found == RowsFor(t, call[h].cluster)
    IN  CASE Cardinality(found) > 1 -> "failed"
          [] Cardinality(found) <= 1 /\ \E a \in found : HasPermission(access[a].level, call[h].level)
               -> "allowed"
          [] OTHER -> IF call[h].left = {t} THEN "denied" ELSE "readAccess"

(* Mutant: the first team that has a row for the cluster decides. *)
ReadAccessFirst(h) ==
    /\ At(h, "readAccess")
    /\ \E t \in call[h].left :
          call' = [call EXCEPT ![h].at = IF Outcome(h, t) = "readAccess"
                                            /\ RowsFor(t, call[h].cluster) # {}
                                         THEN "denied" ELSE Outcome(h, t),
                               ![h].left = @ \ {t}]
    /\ UNCHANGED <<tables, due>>

(* check_cluster_access: the SELECT for the next team, in any order (there is *)
(* no ORDER BY).                                                              *)
ReadAccess(h) ==
    /\ At(h, "readAccess")
    /\ \E t \in call[h].left :
          call' = [call EXCEPT ![h].at = Outcome(h, t), ![h].left = @ \ {t}]
    /\ UNCHANGED <<tables, due>>

(* The answer of a check is sent. *)
Answer(h) ==
    /\ call[h].at \in {"allowed", "denied", "failed"}
    /\ End(h)
    /\ due' = [due EXCEPT ![h] = {}]
    /\ UNCHANGED tables

-----------------------------------------------------------------------------
(* The calls.                                                                 *)

Begin(h, x) ==
    /\ At(h, "idle")
    /\ call' = [call EXCEPT ![h] = x]
    /\ UNCHANGED <<tables, due>>

(* POST /users/teams, POST and DELETE of /users/teams/{t}/members/{u}. *)
TeamRequest(h) ==
    \E u \in People :
        \/ Begin(h, [Idle EXCEPT !.at = "insertTeam", !.user = u])
        \/ \E t \in teams, first \in {"findNew", "findOld"} :
              Begin(h, [Idle EXCEPT !.at = first, !.team = t, !.user = u])

(* POST, PATCH and DELETE of cluster access. *)
AccessRequest(h) ==
    \/ \E t \in teams, c \in Clusters, l \in Levels :
          Begin(h, [Idle EXCEPT !.at = "insertAccess", !.team = t, !.cluster = c, !.level = l])
    \/ \E a \in Accesses :
          /\ access[a].state = "stored"
          /\ \/ \E l \in Levels :
                   Begin(h, [Idle EXCEPT !.at = "updateAccess", !.row = a, !.level = l])
             \/ Begin(h, [Idle EXCEPT !.at = "deleteAccess", !.row = a])

CheckRequest(h) ==
    \E u \in Users, c \in Clusters, l \in Levels :
        Begin(h, [Idle EXCEPT !.at = "readTeams", !.user = u, !.cluster = c, !.level = l])

Next ==
    \E h \in Handlers :
        \/ TeamRequest(h) \/ AccessRequest(h) \/ CheckRequest(h)
        \/ InsertTeam(h) \/ FindNew(h) \/ InsertMember(h)
        \/ FindOld(h) \/ DeleteMember(h)
        \/ InsertAccess(h) \/ UpdateAccess(h) \/ DeleteAccess(h) \/ WriteFails(h)
        \/ ReadTeams(h) \/ ReadAccess(h) \/ Answer(h)

Spec == Init /\ [][Next]_vars

-----------------------------------------------------------------------------
(* What holds.                                                                *)

(* A check whose user is entitled by a team that nobody touches between the   *)
(* statements of the check is not denied, whatever happens to the other teams *)
(* and in whatever order the teams come.                                      *)
StandingGrantCounts == \A h \in Handlers : At(h, "denied") => due[h] = {}

(* A removal ends only the membership that it found: one that was added again *)
(* after it looked stays.                                                     *)
RemovesWhatItSaw ==
    [][\A m \in Teams \X People :
         member[m] # 0 /\ member'[m] # member[m] =>
             /\ member'[m] = 0
             /\ \E h \in Handlers : At(h, "deleteMember") /\ call[h].seen = member[m]]_vars

-----------------------------------------------------------------------------
(* What the repository says and the code does not do.                         *)

(* A team has at most one row for a cluster (scalar_one_or_none), so every    *)
(* check gets an answer.                                                      *)
ChecksAreAnswered == \A h \in Handlers : ~At(h, "failed")
=============================================================================
