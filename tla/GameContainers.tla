--------------------------- MODULE GameContainers ---------------------------
(***************************************************************************)
(* The containers of one game: the goroutines that GameService, the engine *)
(* and main start (ContainerService, internal/service/container_service.go *)
(* over ContainerManager, internal/container/manager.go) between Docker    *)
(* and the table team_containers.                                          *)
(*                                                                         *)
(* The operations of GameService are ordered by the mutex of the game, the *)
(* goroutines they start are not.  Each walks over a list it read once and *)
(* makes one Docker or database call per step; a call may fail.  Docker    *)
(* gives a name, one per team and challenge, to one container at a time.   *)
(***************************************************************************)
EXTENDS Naturals, FiniteSets

CONSTANTS Cells,      \* the pairs of a team and a challenge
          Lives,      \* bound: containers made for a cell
          Jobs,       \* bound: goroutines under way at a time
          Free        \* not a job: nobody holds ContainerManager.mu

ASSUME JobsAssumption == Free \notin Jobs /\ Lives \in Nat \ {0}

VARIABLES
  status,    \* games.status
  docker,    \* what Docker has
  rows,      \* the containers on record in team_containers
  mu,        \* ContainerManager.mu
  jobs,      \* the goroutines
  \* history
  wanted,    \* the game was started, and not stopped or reset since
  lost,      \* containers a failed or interrupted creation left behind
  excused,   \* cells whose creation or removal failed, was cut or overlapped
  disturbed  \* pauses and restarts overlapped, failed, or met a paused game

store == <<docker, rows, mu>>
history == <<wanted, lost, excused, disturbed>>
vars == <<status, store, jobs, history>>

Containers == Cells \X (1..Lives)
None == <<>>
Kinds == {"provision", "teardown", "pause", "unpause", "restart"}
Held == {"stopping", "removing", "deleting", "starting"}  \* with mu
NoJob == [kind |-> "none", at |-> "none", todo |-> {}, sync |-> FALSE, in |-> None]

ProvisionJobs == [kind : {"provision"}, at : {"find", "next"}, todo : SUBSET Cells,
                  sync : {FALSE}, in : {None}]
MakingJobs == [kind : {"provision"}, at : {"created", "started"}, todo : SUBSET Cells,
               sync : {FALSE}, in : Containers]
ListJobs == [kind : Kinds \ {"provision"}, at : {"find", "next"}, todo : SUBSET Containers,
             sync : BOOLEAN, in : {None}]
HoldingJobs == [kind : {"teardown", "restart"}, at : Held, todo : SUBSET Containers,
                sync : BOOLEAN, in : Containers]
JobRecords == {NoJob} \cup ProvisionJobs \cup MakingJobs \cup ListJobs \cup HoldingJobs

TypeOK ==
  /\ status \in {"draft", "running", "paused", "finished"}
  /\ docker \in [Containers -> {"none", "created", "running", "paused", "exited"}]
  /\ rows \subseteq Containers
  /\ mu \in Jobs \cup {Free}
  /\ jobs \in [Jobs -> JobRecords]
  /\ lost \subseteq Containers /\ excused \subseteq Cells
  /\ wanted \in BOOLEAN /\ disturbed \in BOOLEAN

Init ==
  /\ status = "draft" /\ docker = [c \in Containers |-> "none"] /\ rows = {}
  /\ mu = Free /\ jobs = [j \in Jobs |-> NoJob]
  /\ wanted = FALSE /\ lost = {} /\ excused = {} /\ disturbed = FALSE

Active == {j \in Jobs : jobs[j] # NoJob}
Quiet == Active = {}
\* What a creation has made and not yet put on record.
Creating == {jobs[j].in : j \in {i \in Jobs : jobs[i].at \in {"created", "started"}}}
Running(kinds) == \E j \in Active : jobs[j].kind \in kinds
-----------------------------------------------------------------------------
(***************************************************************************)
(* Requests.  Each starts a goroutine; Stop runs one to its end before     *)
(* (CompetitionEngine.Stop), with the mutex of the game held.              *)
(***************************************************************************)
Locked == \E j \in Active : jobs[j].sync

Spawn(kind, sync) ==
  /\ \E j \in Jobs :
       /\ jobs[j] = NoJob
       /\ jobs' = [jobs EXCEPT ![j] = [kind |-> kind, at |-> "find", todo |-> {},
                                       sync |-> sync, in |-> None]]
  /\ excused' = IF \/ kind = "provision" /\ Running({"teardown"})
                   \/ kind = "teardown" /\ Running({"provision"})
                THEN Cells ELSE excused
  /\ disturbed' = (disturbed \/ (kind # "teardown" /\ Running(Kinds \ {"teardown"}))
                             \/ (kind = "restart" /\ status # "running"))
  /\ UNCHANGED <<store, lost>>

\* If the engine cannot be made, StartGame takes the status back; the
\* goroutine that provisions goes on.
StartGame ==
  /\ ~Locked /\ status = "draft" /\ Spawn("provision", FALSE)
  /\ status' \in {"running", "draft"} /\ wanted' = TRUE

PauseGame ==
  /\ ~Locked /\ status = "running" /\ Spawn("pause", FALSE)
  /\ status' = "paused" /\ UNCHANGED wanted

ResumeGame ==
  /\ ~Locked /\ status = "paused" /\ Spawn("unpause", FALSE)
  /\ status' = "running" /\ UNCHANGED wanted

\* Without an engine (after a restart of the process) only the goroutine runs.
StopGame ==
  /\ ~Locked /\ status \in {"running", "paused"}
  /\ \E engine \in BOOLEAN : Spawn("teardown", engine)
  /\ status' = "finished" /\ wanted' = FALSE

ResetGame ==
  /\ ~Locked /\ status \in {"finished", "draft"} /\ Spawn("teardown", FALSE)
  /\ status' = "draft" /\ wanted' = FALSE

\* The engine's own end leaves the containers alone.
FinishGame ==
  /\ status \in {"running", "paused"} /\ status' = "finished"
  /\ UNCHANGED <<store, jobs, history>>

\* RestartAll and RestartContainer ask neither for the status of the game nor for
\* its mutex.
Restart == Spawn("restart", FALSE) /\ UNCHANGED <<status, wanted>>

Requests ==
  \/ StartGame \/ PauseGame \/ ResumeGame \/ StopGame \/ ResetGame
  \/ FinishGame \/ Restart

\* The process ends anywhere.  When it is back, main provisions a running game.
Crash ==
  /\ mu' = Free
  /\ jobs' = [j \in Jobs |-> NoJob]
  /\ lost' = lost \cup Creating
  /\ IF Quiet THEN UNCHANGED <<excused, disturbed>> ELSE excused' = Cells /\ disturbed' = TRUE
  /\ UNCHANGED <<status, docker, rows, wanted>>

Recover ==
  /\ Quiet /\ status = "running" /\ Spawn("provision", FALSE)
  /\ UNCHANGED <<status, wanted>>
-----------------------------------------------------------------------------
(***************************************************************************)
(* The goroutines.                                                         *)
(***************************************************************************)
At(j, kinds, place) == jobs[j].kind \in kinds /\ jobs[j].at = place
Put(c, state) == docker' = [docker EXCEPT ![c] = state]
Move(j, place) == jobs' = [jobs EXCEPT ![j] = [@ EXCEPT !.at = place]]
Take(j, x, c, place) ==
  jobs' = [jobs EXCEPT ![j] = [@ EXCEPT !.todo = jobs[j].todo \ {x}, !.in = c, !.at = place]]

Leave(j) == jobs' = [jobs EXCEPT ![j] = [@ EXCEPT !.in = None, !.at = "next"]]

\* A call failed: what it was to do with the container is left undone.
Excuse(c) == excused' = excused \cup {c[1]} /\ disturbed' = TRUE
Fine == UNCHANGED <<excused, disturbed>>

\* Teams and challenges are read, or the containers on record; a restart is for
\* all of them or for one.
Lists(kind) ==
  IF kind = "provision" THEN {Cells}
  ELSE {rows} \cup {{c} : c \in IF kind = "restart" THEN rows ELSE {}}

Find(j) ==
  /\ jobs[j].at = "find"
  /\ \E list \in Lists(jobs[j].kind) :
       jobs' = [jobs EXCEPT ![j] = [@ EXCEPT !.at = "next", !.todo = list]]
  /\ UNCHANGED <<status, store, history>>

\* After the teardown of CompetitionEngine.Stop comes the one of StopGame.
Over(j) ==
  jobs' = [jobs EXCEPT ![j] =
             IF @.sync THEN [@ EXCEPT !.sync = FALSE, !.at = "find"] ELSE NoJob]

End(j) ==
  /\ jobs[j].at = "next" /\ jobs[j].todo = {} /\ Over(j)
  /\ UNCHANGED <<status, store, history>>

\* The query fails, and nothing is done.
FindFails(j) ==
  /\ jobs[j].at = "find" /\ Over(j) /\ excused' = Cells /\ disturbed' = TRUE
  /\ UNCHANGED <<status, store, wanted, lost>>

\* Docker makes ids afresh; here one is used again when nobody knows it any more.
Known == rows \cup lost \cup UNION {jobs[j].todo \cup {jobs[j].in} : j \in Active}

NameTaken(cell) == \E n \in 1..Lives : docker[<<cell, n>>] # "none"

\* Mutant: a failure ends the loop.
Create_StopsAtFailure(j) ==
  /\ At(j, {"provision"}, "next")
  /\ \E cell \in jobs[j].todo :
       \/ /\ Excuse(<<cell, 1>>) /\ UNCHANGED docker
          /\ jobs' = [jobs EXCEPT ![j] = [@ EXCEPT !.todo = {}]]
       \/ \E n \in 1..Lives :
            /\ ~NameTaken(cell) /\ <<cell, n>> \notin Known
            /\ Take(j, cell, <<cell, n>>, "created")
            /\ Put(<<cell, n>>, "created") /\ Fine
  /\ UNCHANGED <<status, rows, mu, wanted, lost>>

\* CreateChallengeContainer; a failure does not stop the loop.
Create(j) ==
  /\ At(j, {"provision"}, "next")
  /\ \E cell \in jobs[j].todo :
       \/ /\ NameTaken(cell)
          /\ Take(j, cell, None, "next") /\ Fine /\ UNCHANGED docker
       \/ /\ ~NameTaken(cell)
          /\ Take(j, cell, None, "next")
          /\ Excuse(<<cell, 1>>) /\ UNCHANGED docker
       \/ \E n \in 1..Lives :
            /\ ~NameTaken(cell) /\ <<cell, n>> \notin Known
            /\ Take(j, cell, <<cell, n>>, "created")
            /\ Put(<<cell, n>>, "created") /\ Fine
  /\ UNCHANGED <<status, rows, mu, wanted, lost>>

\* The removal after a failed step may fail as well.
GiveUp(j, c) ==
  /\ Leave(j) /\ Excuse(c) /\ UNCHANGED rows
  /\ \/ Put(c, "none") /\ UNCHANGED lost
     \/ lost' = lost \cup {c} /\ UNCHANGED docker

Launch(j) ==
  /\ At(j, {"provision"}, "created")
  /\ LET c == jobs[j].in IN
     \/ /\ Put(c, "running") /\ Move(j, "started")
        /\ Fine /\ UNCHANGED <<rows, lost>>
     \/ GiveUp(j, c)
  /\ UNCHANGED <<status, mu, wanted>>

Save(j) ==
  /\ At(j, {"provision"}, "started")
  /\ LET c == jobs[j].in IN
     \/ /\ rows' = rows \cup {c} /\ Leave(j)
        /\ Fine /\ UNCHANGED <<docker, lost>>
     \/ GiveUp(j, c)
  /\ UNCHANGED <<status, mu, wanted>>

\* DestroyContainer and RestartContainer hold ContainerManager.mu.
Lock(j) ==
  /\ At(j, {"teardown", "restart"}, "next") /\ mu = Free /\ mu' = j
  /\ \E c \in jobs[j].todo : Take(j, c, c, "stopping")
  /\ UNCHANGED <<status, docker, rows, history>>

\* The error of StopContainer is logged, and the next call made.
Halt(j) ==
  /\ jobs[j].at = "stopping"
  /\ Move(j, IF jobs[j].kind = "teardown" THEN "removing" ELSE "starting")
  /\ LET c == jobs[j].in IN
     \/ docker[c] \in {"running", "paused"} /\ Put(c, "exited")
     \/ UNCHANGED docker
  /\ UNCHANGED <<status, rows, mu, history>>

\* Mutants: the error of RemoveContainer is logged and the row deleted; it is
\* returned with the mutex held.
Remove_GoesOn(j) ==
  /\ At(j, {"teardown"}, "removing") /\ Move(j, "deleting")
  /\ LET c == jobs[j].in IN
     \/ docker[c] # "none" /\ Put(c, "none") /\ Fine
     \/ UNCHANGED docker /\ Excuse(c)
  /\ UNCHANGED <<status, rows, mu, wanted, lost>>

Remove_KeepsLock(j) ==
  /\ At(j, {"teardown"}, "removing")
  /\ LET c == jobs[j].in IN
     \/ docker[c] # "none" /\ Put(c, "none") /\ Move(j, "deleting") /\ Fine
     \/ Leave(j) /\ UNCHANGED docker /\ Excuse(c)
  /\ UNCHANGED <<status, rows, mu, wanted, lost>>

\* A container that is not there, or is not removed, keeps its row.
Remove(j) ==
  /\ At(j, {"teardown"}, "removing")
  /\ LET c == jobs[j].in IN
     \/ /\ docker[c] # "none"
        /\ Put(c, "none") /\ Move(j, "deleting")
        /\ Fine /\ UNCHANGED mu
     \/ /\ mu' = Free /\ Leave(j) /\ UNCHANGED docker
        /\ IF docker[c] = "none" THEN Fine ELSE Excuse(c)
  /\ UNCHANGED <<status, rows, wanted, lost>>

DeleteRow(j) ==
  /\ At(j, {"teardown"}, "deleting") /\ mu' = Free /\ Leave(j)
  /\ LET c == jobs[j].in IN
     \/ rows' = rows \ {c} /\ Fine
     \/ Excuse(c) /\ UNCHANGED rows
  /\ UNCHANGED <<status, docker, wanted, lost>>

\* Mutant: a restarted container is only stopped.
Restarted_OnlyStopped(j) ==
  /\ At(j, {"restart"}, "starting") /\ mu' = Free /\ Leave(j)
  /\ UNCHANGED <<status, docker, rows, history>>

\* StartContainer of a paused container, or of none, fails.
Restarted(j) ==
  /\ At(j, {"restart"}, "starting") /\ mu' = Free /\ Leave(j)
  /\ LET c == jobs[j].in IN
     \/ docker[c] \in {"created", "exited", "running"} /\ Put(c, "running")
        /\ UNCHANGED disturbed
     \/ UNCHANGED docker /\ disturbed' = TRUE
  /\ UNCHANGED <<status, rows, wanted, lost, excused>>

\* PauseAll and UnpauseAll: an error is logged and the next container taken.
Toggle(j) ==
  /\ At(j, {"pause", "unpause"}, "next")
  /\ \E c \in jobs[j].todo :
       LET from == IF jobs[j].kind = "pause" THEN "running" ELSE "paused"
           to   == IF jobs[j].kind = "pause" THEN "paused" ELSE "running"
       IN /\ Take(j, c, None, "next")
          /\ \/ docker[c] = from /\ Put(c, to) /\ UNCHANGED disturbed
             \/ UNCHANGED docker /\ disturbed' = TRUE
  /\ UNCHANGED <<status, rows, mu, wanted, lost, excused>>

Job(j) ==
  \/ Find(j) \/ FindFails(j) \/ End(j) \/ Create(j) \/ Launch(j) \/ Save(j)
  \/ Lock(j) \/ Halt(j) \/ Remove(j) \/ DeleteRow(j) \/ Restarted(j) \/ Toggle(j)

Next == Requests \/ Crash \/ Recover \/ (\E j \in Jobs : Job(j))

\* Calls of Docker and of the database return, and a mutex is passed on to who
\* waits for it (sync.Mutex does not starve a waiter).
Fairness == \A j \in Jobs : WF_vars(Job(j)) /\ SF_vars(Lock(j))

Spec == Init /\ [][Next]_vars /\ Fairness
-----------------------------------------------------------------------------
(***************************************************************************)
(* Properties.                                                             *)
(***************************************************************************)

\* Docker has no container the table does not know of, except in the hands of
\* the goroutine that is creating it, or one whose creation failed and could
\* not be undone, or was cut by the end of the process.
NothingLost ==
  \A c \in Containers : docker[c] # "none" =>
    c \in rows \cup lost \cup Creating

\* When nothing is under way, every cell of a started game has a container and
\* no cell of a stopped or reset one has: unless a call for this cell failed or
\* a provisioning and a teardown overlapped.
ContainersMatchGame ==
  Quiet => \A cell \in Cells \ excused : NameTaken(cell) <=> wanted

\* When nothing is under way and pauses, resumes and restarts did not overlap or
\* fail, the containers run or are paused as the game is.
RunStateMatchesGame ==
  Quiet /\ ~disturbed =>
    \A c \in Containers : docker[c] # "none" =>
      /\ status = "running" => docker[c] = "running"
      /\ status = "paused"  => docker[c] = "paused"

\* No goroutine waits for ever for the mutex of the manager.
JobsEnd == \A j \in Jobs : jobs[j] # NoJob ~> jobs[j] = NoJob

\* game_service.go:214: "StopGame stops a game and tears down all containers".
\* A provisioning under way goes on creating after the teardown read its list.
StoppedGameHasNoContainers ==
  Quiet /\ status = "finished" /\ ~wanted /\ lost = {} /\ ~disturbed => \A cell \in Cells : ~NameTaken(cell)
=============================================================================
