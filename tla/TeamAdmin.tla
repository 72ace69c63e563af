----------------------------- MODULE TeamAdmin -----------------------------
(***************************************************************************)
(* Teams, their members and the teams of one game: the handlers of         *)
(* internal/handler/auth_handler.go and admin_handler.go with              *)
(* internal/service/team_service.go.                                       *)
(*                                                                         *)
(* A step is one statement on the database, which has no foreign keys      *)
(* (SQLite, AutoMigrate); two requests and the rounds of the game take     *)
(* turns between statements.                                               *)
(***************************************************************************)
EXTENDS Naturals, FiniteSets

CONSTANTS TeamIds, Players,
          NoTeam,       \* users.team_id is NULL
          Unborn,       \* an id no row has had yet
          Requests,     \* requests served at the same time
          Budget        \* bound on the requests served in all

ASSUME TeamAssumption ==
  /\ NoTeam \notin TeamIds /\ Unborn \notin TeamIds /\ NoTeam # Unborn
  /\ Budget \in Nat

VARIABLES
  teams,     \* rows of teams: "unborn", "present" or "deleted"
  member,    \* users.team_id
  listed,    \* number of rows of game_teams for a team
  recorded,  \* teams with flags, submissions, round scores or adjustments
  work,      \* the requests under way, and what each has read
  served,    \* history: requests begun
  crossed    \* history: what has overlapped, failed or been edited

teamVars == <<teams, member, listed, recorded, work, served, crossed>>

Kinds  == {"save", "delete", "add", "register", "remove", "enlist", "round"}
Stages == {"idle", "save", "games", "members", "records", "row", "user", "join",
           "enroll", "leave", "check", "insert", "record"}
Marks  == {"add", "register", "enlist", "round",     \* overlapped a delete
           "two adds", "failure", "edit"}
Work   == [kind : Kinds \cup {"none"}, at : Stages, team : TeamIds \cup {NoTeam},
           player : Players \cup {NoTeam}]

TeamsTypeOK ==
  /\ teams \in [TeamIds -> {"unborn", "present", "deleted"}]
  /\ member \in [Players -> TeamIds \cup {NoTeam, Unborn}]
  /\ listed \in [TeamIds -> Nat]
  /\ recorded \subseteq TeamIds
  /\ work \in [Requests -> Work]
  /\ served \in 0..Budget
  /\ crossed \subseteq Marks

Idle == [kind |-> "none", at |-> "idle", team |-> NoTeam, player |-> NoTeam]

TeamInit ==
  /\ teams = [t \in TeamIds |-> "unborn"]
  /\ member = [p \in Players |-> Unborn]
  /\ listed = [t \in TeamIds |-> 0]
  /\ recorded = {}
  /\ work = [q \in Requests |-> Idle]
  /\ served = 0
  /\ crossed = {}

Exists(t) == teams[t] = "present"
-----------------------------------------------------------------------------
(***************************************************************************)
(* Requests: the beginning of one, its next statement, its end.            *)
(***************************************************************************)
Active(kind) == \E q \in Requests : work[q].kind = kind

\* What a request of this kind overlaps when it begins.
Crossings(kind) ==
  LET others == {work[q].kind : q \in Requests} \ {"none"} IN
  (IF kind = "delete" THEN others ELSE IF "delete" \in others THEN {kind} ELSE {})
  \cup (IF kind = "add" /\ "add" \in others THEN {"two adds"} ELSE {})

Begin(q, kind, stage, t, p) ==
  /\ work[q] = Idle /\ served < Budget
  /\ served' = served + 1
  /\ work' = [work EXCEPT ![q] = [kind |-> kind, at |-> stage, team |-> t, player |-> p]]
  /\ crossed' = crossed \cup (Crossings(kind) \cap Marks)

At(q, stage) == work[q].at = stage
GoOn(q, stage) ==
  /\ work' = [work EXCEPT ![q] = [work[q] EXCEPT !.at = stage]]
  /\ UNCHANGED <<served, crossed>>
Finish(q) == work' = [work EXCEPT ![q] = Idle] /\ UNCHANGED <<served, crossed>>
-----------------------------------------------------------------------------
(***************************************************************************)
(* Rows of teams.                                                          *)
(***************************************************************************)

\* TeamService.CreateTeam
Inserted(t) == teams[t] = "unborn" /\ teams' = [teams EXCEPT ![t] = "present"]

\* adminHandler.CreateTeam ends there: what it sets besides is never saved.
AdminCreateTeam(t) ==
  /\ Inserted(t)
  /\ served < Budget /\ served' = served + 1
  /\ UNCHANGED <<member, listed, recorded, work, crossed>>

\* teamHandler.Create, and BatchImportTeams row by row, save the row after it.
CreateTeam(q, t) ==
  /\ Inserted(t)
  /\ Begin(q, "save", "save", t, NoTeam)
  /\ UNCHANGED <<member, listed, recorded>>

\* Update, UpdateTeam and ResetTeam read the row ...
ReadTeam(q, t) ==
  /\ Exists(t)
  /\ Begin(q, "save", "save", t, NoTeam)
  /\ UNCHANGED <<teams, member, listed, recorded>>

\* ... and save it whole, unless the request is refused: a row deleted since is
\* inserted again.
SaveTeam(q) ==
  /\ At(q, "save")
  /\ \/ teams' = [teams EXCEPT ![work[q].team] = "present"]
     \/ UNCHANGED teams
  /\ Finish(q)
  /\ UNCHANGED <<member, listed, recorded>>

BeginDelete(q, t) ==
  /\ Exists(t)
  /\ Begin(q, "delete", "games", t, NoTeam)
  /\ UNCHANGED <<teams, member, listed, recorded>>

\* Mutant: the teams of games are left.
DeleteFromGames_Skipped(q) ==
  /\ At(q, "games") /\ GoOn(q, "members")
  /\ UNCHANGED <<teams, member, listed, recorded>>

DeleteFromGames(q) ==
  /\ At(q, "games")
  /\ listed' = [listed EXCEPT ![work[q].team] = 0]
  /\ GoOn(q, "members")
  /\ UNCHANGED <<teams, member, recorded>>

NullifyMembers(q) ==
  /\ At(q, "members")
  /\ member' = [p \in Players |-> IF member[p] = work[q].team THEN NoTeam ELSE member[p]]
  /\ GoOn(q, "records")
  /\ UNCHANGED <<teams, listed, recorded>>

\* Four statements: flags, submissions, round scores and adjustments.
DeleteRecords(q) ==
  /\ At(q, "records")
  /\ recorded' = recorded \ {work[q].team}
  /\ GoOn(q, "row")
  /\ UNCHANGED <<teams, member, listed>>

\* The errors of these statements are not looked at.
DeleteFails(q) ==
  /\ \/ At(q, "games")   /\ work' = [work EXCEPT ![q] = [work[q] EXCEPT !.at = "members"]]
     \/ At(q, "members") /\ work' = [work EXCEPT ![q] = [work[q] EXCEPT !.at = "records"]]
     \/ At(q, "records") /\ work' = [work EXCEPT ![q] = [work[q] EXCEPT !.at = "row"]]
  /\ crossed' = crossed \cup {"failure"}
  /\ UNCHANGED <<teams, member, listed, recorded, served>>

DeleteRow(q) ==
  /\ At(q, "row")
  /\ \/ teams' = [teams EXCEPT ![work[q].team] = "deleted"]
     \/ UNCHANGED teams
  /\ Finish(q)
  /\ UNCHANGED <<member, listed, recorded>>
-----------------------------------------------------------------------------
(***************************************************************************)
(* Members: AddMember, RemoveMember, Register, and the admin's edits.      *)
(***************************************************************************)
BeginAdd(q, t, p) ==
  /\ Exists(t)
  /\ Begin(q, "add", "user", t, p)
  /\ UNCHANGED <<teams, member, listed, recorded>>

\* Mutant: only a member of the same team is refused.
AddCheck_SameTeam(q) ==
  /\ At(q, "user")
  /\ IF member[work[q].player] \in {Unborn, work[q].team} THEN Finish(q) ELSE GoOn(q, "join")
  /\ UNCHANGED <<teams, member, listed, recorded>>

\* A player that does not exist or has a team is refused.
AddCheck(q) ==
  /\ At(q, "user")
  /\ IF member[work[q].player] = NoTeam THEN GoOn(q, "join") ELSE Finish(q)
  /\ UNCHANGED <<teams, member, listed, recorded>>

Join(q) ==
  /\ At(q, "join")
  /\ member' = [member EXCEPT ![work[q].player] = work[q].team]
  /\ Finish(q)
  /\ UNCHANGED <<teams, listed, recorded>>

BeginRemove(q, t, p) ==
  /\ member[p] = t
  /\ Begin(q, "remove", "leave", t, p)
  /\ UNCHANGED <<teams, member, listed, recorded>>

\* Whatever team the player has by now.
Leave(q) ==
  /\ At(q, "leave")
  /\ member' = [member EXCEPT ![work[q].player] = NoTeam]
  /\ Finish(q)
  /\ UNCHANGED <<teams, listed, recorded>>

\* RegisterWithTokenAndRole: without a team token, or after the look at the team.
RegisterAlone(p) ==
  /\ member[p] = Unborn
  /\ member' = [member EXCEPT ![p] = NoTeam]
  /\ UNCHANGED <<teams, listed, recorded, work, served, crossed>>

BeginRegister(q, t, p) ==
  /\ Exists(t) /\ member[p] = Unborn
  /\ Begin(q, "register", "enroll", t, p)
  /\ UNCHANGED <<teams, member, listed, recorded>>

\* The name has been taken meanwhile, or not.
Enroll(q) ==
  /\ At(q, "enroll")
  /\ IF member[work[q].player] = Unborn
     THEN member' = [member EXCEPT ![work[q].player] = work[q].team]
     ELSE UNCHANGED member
  /\ Finish(q)
  /\ UNCHANGED <<teams, listed, recorded>>

\* UpdateUser, or the admin's Create: any team id, without a look at the teams.
EditUser(p, t) ==
  /\ served < Budget /\ served' = served + 1
  /\ member' = [member EXCEPT ![p] = t]
  /\ crossed' = crossed \cup {"edit"}
  /\ UNCHANGED <<teams, listed, recorded, work>>
-----------------------------------------------------------------------------
(***************************************************************************)
(* The teams of the game, and its rounds.                                  *)
(***************************************************************************)
BeginEnlist(q, t) ==
  /\ Exists(t)
  /\ Begin(q, "enlist", "check", t, NoTeam)
  /\ UNCHANGED <<teams, member, listed, recorded>>

\* A team that is in the game already is refused.
EnlistCheck(q) ==
  /\ At(q, "check")
  /\ IF listed[work[q].team] > 0 THEN Finish(q) ELSE GoOn(q, "insert")
  /\ UNCHANGED <<teams, member, listed, recorded>>

Insert(q) ==
  /\ At(q, "insert")
  /\ listed' = [listed EXCEPT ![work[q].team] = listed[work[q].team] + 1]
  /\ Finish(q)
  /\ UNCHANGED <<teams, member, recorded>>

RemoveFromGame(t) ==
  /\ Exists(t) /\ listed[t] > 0
  /\ listed' = [listed EXCEPT ![t] = 0]
  /\ UNCHANGED <<teams, member, recorded, work, served, crossed>>

\* GetGameTeams deletes the rows whose team is gone: a read that repairs.
Sweep ==
  /\ \E t \in TeamIds : ~Exists(t) /\ listed[t] > 0
  /\ listed' = [t \in TeamIds |-> IF Exists(t) THEN listed[t] ELSE 0]
  /\ UNCHANGED <<teams, member, recorded, work, served, crossed>>

\* A round reads the teams of the game, then writes flags and scores of each.
BeginRound(q, t) ==
  /\ listed[t] > 0
  /\ Begin(q, "round", "record", t, NoTeam)
  /\ UNCHANGED <<teams, member, listed, recorded>>

Record(q) ==
  /\ At(q, "record")
  /\ recorded' = recorded \cup {work[q].team}
  /\ Finish(q)
  /\ UNCHANGED <<teams, member, listed>>
-----------------------------------------------------------------------------
TeamBegin(q) ==
  \E t \in TeamIds :
    \/ CreateTeam(q, t) \/ ReadTeam(q, t) \/ BeginDelete(q, t)
    \/ BeginEnlist(q, t) \/ BeginRound(q, t)
    \/ \E p \in Players : BeginAdd(q, t, p) \/ BeginRemove(q, t, p) \/ BeginRegister(q, t, p)

TeamStep(q) ==
  \/ SaveTeam(q)
  \/ DeleteFromGames(q) \/ NullifyMembers(q) \/ DeleteRecords(q) \/ DeleteFails(q) \/ DeleteRow(q)
  \/ AddCheck(q) \/ Join(q) \/ Leave(q) \/ Enroll(q)
  \/ EnlistCheck(q) \/ Insert(q) \/ Record(q)

TeamNext ==
  \/ \E q \in Requests : TeamBegin(q) \/ TeamStep(q)
  \/ \E p \in Players : RegisterAlone(p) \/ \E t \in TeamIds : EditUser(p, t)
  \/ \E t \in TeamIds : AdminCreateTeam(t) \/ RemoveFromGame(t)
  \/ Sweep

TeamSpec == TeamInit /\ [][TeamNext]_teamVars
-----------------------------------------------------------------------------
(***************************************************************************)
(* Properties.                                                             *)
(***************************************************************************)

\* DeleteTeam leaves nothing of a team at any moment after its row is gone,
\* unless one of its statements failed: no members, except those an addition
\* or a registration that overlapped it (or an edit) put there; no row of a
\* game, except from an addition to the game that overlapped it; no flags or
\* scores, except those of a round that had read the team.
DeletedTeamLeavesNothing ==
  \A t \in TeamIds :
    teams[t] = "deleted" /\ "failure" \notin crossed =>
      /\ {"add", "register", "edit"} \cap crossed = {} => \A p \in Players : member[p] # t
      /\ "enlist" \notin crossed => listed[t] = 0
      /\ {"round", "enlist"} \cap crossed = {} => t \notin recorded

\* A player goes from one team to another by way of none, unless an admin
\* edits it or two additions overlap.
MemberKeepsTeam ==
  [][\A p \in Players :
       /\ member[p] \in TeamIds /\ member'[p] \in TeamIds
       /\ crossed' \cap {"edit", "two adds"} = {}
       => member'[p] = member[p]]_teamVars
=============================================================================
