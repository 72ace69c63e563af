---------------------------- MODULE HealthChecker ----------------------------
(***************************************************************************)
(* The health checks of a game's containers: internal/engine/              *)
(* health_checker.go, as the engine starts and stops it.                   *)
(*                                                                         *)
(* Start and Resume of the engine make a new checker, Pause and Stop       *)
(* cancel the one they find; a check under way goes on after that, with a  *)
(* Docker client that only reports the cancellation.  The container        *)
(* manager writes the same column.  A failing read of the rows ends a      *)
(* check; a failing write of a status is not looked at.  The probe of a    *)
(* port decides nothing; failCount and the records and events written are  *)
(* left out.                                                               *)
(***************************************************************************)
EXTENDS Naturals

CONSTANTS Boxes,      \* the containers on record
          Checkers,   \* the checkers the engine of the game makes
          MaxEvents   \* bound on what happens from outside

ASSUME HealthAssumption == MaxEvents \in Nat /\ "none" \notin Checkers \cup Boxes

VARIABLES
  alive,     \* Docker: whether a container runs (a paused one does)
  status,    \* team_containers: status
  check,     \* the goroutine of a checker: where it is, and with which container
  prev,      \* prevStatus of a checker
  current,   \* the checker that is not cancelled
  foreign,   \* history: rows somebody else wrote since the current checker did
  missed,    \* history: rows the current checker's last write of did not reach
  events     \* history: what happened from outside

healthVars == <<alive, status, check, prev, current, foreign, missed, events>>

Statuses == {"running", "stopped", "error", "paused"}
Check == [at : {"new", "idle", "check", "compare", "remember", "gone"},
          box : Boxes \cup {"none"}, todo : SUBSET Boxes, saw : Statuses \cup {"none"}]

HealthTypeOK ==
  /\ alive \in [Boxes -> BOOLEAN] /\ status \in [Boxes -> Statuses]
  /\ check \in [Checkers -> Check]
  /\ prev \in [Checkers -> [Boxes -> Statuses \cup {"none"}]]
  /\ current \in Checkers \cup {"none"}
  /\ foreign \subseteq Boxes /\ missed \subseteq Boxes
  /\ events \in 0..MaxEvents

Pausing(at, todo) == [at |-> at, box |-> "none", todo |-> todo, saw |-> "none"]

HealthInit ==
  /\ alive = [b \in Boxes |-> TRUE] /\ status = [b \in Boxes |-> "running"]
  /\ check = [k \in Checkers |-> Pausing("new", {})]
  /\ prev = [k \in Checkers |-> [b \in Boxes |-> "none"]]
  /\ current = "none" /\ foreign = {} /\ missed = {} /\ events = 0
-----------------------------------------------------------------------------
(***************************************************************************)
(* The engine.                                                             *)
(***************************************************************************)

\* NewHealthChecker and Start; the first check is immediate.
StartChecker(k) ==
  /\ current = "none" /\ check[k].at = "new"
  /\ current' = k
  /\ check' = [check EXCEPT ![k] = Pausing("check", Boxes)]
  /\ UNCHANGED <<alive, status, prev, foreign, missed, events>>

\* Stop cancels the context and waits for nobody.
StopChecker ==
  /\ current # "none" /\ current' = "none"
  /\ UNCHANGED <<alive, status, check, prev, foreign, missed, events>>
-----------------------------------------------------------------------------
(***************************************************************************)
(* The goroutine: run, checkAll and checkContainer.                        *)
(***************************************************************************)

\* The ticker may be chosen although the context is cancelled as well.
TickChecks(k) ==
  /\ check[k].at = "idle"
  /\ check' = [check EXCEPT ![k] = Pausing("check", Boxes)]
  /\ UNCHANGED <<alive, status, prev, current, foreign, missed, events>>

RunReturns(k) ==
  /\ check[k].at = "idle" /\ current # k
  /\ check' = [check EXCEPT ![k] = Pausing("gone", {})]
  /\ UNCHANGED <<alive, status, prev, current, foreign, missed, events>>

\* All are looked at, or the rows could not be read at the beginning.
ChecksDone(k) ==
  /\ check[k].at = "check" /\ check[k].todo \in {{}, Boxes}
  /\ check' = [check EXCEPT ![k] = Pausing("idle", {})]
  /\ UNCHANGED <<alive, status, prev, current, foreign, missed, events>>

\* ContainerInspect fails when it is cancelled, and may fail otherwise.
Inspect(k, b) ==
  /\ check[k].at = "check" /\ b \in check[k].todo
  /\ \E saw \in {"running", "stopped", "error"} :
       /\ current # k => saw = "error"
       /\ saw \in {"running", "error"} \/ ~alive[b]
       /\ saw \in {"stopped", "error"} \/ alive[b]
       /\ check' = [check EXCEPT ![k] =
                      [at |-> "compare", box |-> b, todo |-> check[k].todo \ {b}, saw |-> saw]]
  /\ UNCHANGED <<alive, status, prev, current, foreign, missed, events>>

\* Mutant: a container this checker has not seen yet has not changed.
statusChanged_Unseen(k) == prev[k][check[k].box] \notin {"none", check[k].saw}

statusChanged(k) == prev[k][check[k].box] # check[k].saw

\* The row is written when the status is another than last time; the error of
\* the Update is not looked at.
Compare(k) ==
  LET b == check[k].box IN
  /\ check[k].at = "compare"
  /\ \/ /\ statusChanged(k)
        /\ status' = [status EXCEPT ![b] = check[k].saw]
        /\ IF k = current THEN foreign' = foreign \ {b} /\ missed' = missed \ {b}
                          ELSE foreign' = foreign \cup {b} /\ UNCHANGED missed
     \/ /\ statusChanged(k)
        /\ missed' = IF k = current THEN missed \cup {b} ELSE missed
        /\ UNCHANGED <<status, foreign>>
     \/ ~statusChanged(k) /\ UNCHANGED <<status, foreign, missed>>
  /\ check' = [check EXCEPT ![k] = [check[k] EXCEPT !.at = "remember"]]
  /\ UNCHANGED <<alive, prev, current, events>>

Remember(k) ==
  /\ check[k].at = "remember"
  /\ prev' = [prev EXCEPT ![k] = [prev[k] EXCEPT ![check[k].box] = check[k].saw]]
  /\ check' = [check EXCEPT ![k] = Pausing("check", check[k].todo)]
  /\ UNCHANGED <<alive, status, current, foreign, missed, events>>
-----------------------------------------------------------------------------
(***************************************************************************)
(* From outside: containers, PauseAll, UnpauseAll and RestartContainer.    *)
(***************************************************************************)
Outside == events < MaxEvents /\ events' = events + 1

Turns(b) ==
  /\ Outside
  /\ alive' = [alive EXCEPT ![b] = ~alive[b]]
  /\ UNCHANGED <<status, check, prev, current, foreign, missed>>

ManagerWrites(b) ==
  /\ Outside
  /\ \/ status' = [status EXCEPT ![b] = "paused"] /\ UNCHANGED alive
     \/ status' = [status EXCEPT ![b] = "running"] /\ alive' = [alive EXCEPT ![b] = TRUE]
  /\ foreign' = foreign \cup {b}
  /\ UNCHANGED <<check, prev, current, missed>>

HealthNext ==
  \/ StopChecker
  \/ \E k \in Checkers :
       \/ StartChecker(k) \/ TickChecks(k) \/ RunReturns(k) \/ ChecksDone(k)
       \/ Compare(k) \/ Remember(k) \/ \E b \in Boxes : Inspect(k, b)
  \/ \E b \in Boxes : Turns(b) \/ ManagerWrites(b)

HealthSpec == HealthInit /\ [][HealthNext]_healthVars
-----------------------------------------------------------------------------
(***************************************************************************)
(* Properties.                                                             *)
(***************************************************************************)

\* What the running checker remembers of a container is what its row says, from
\* the first look on and through pauses and resumes of the game.  There are two
\* ways out, and both last until that checker sees the container change and
\* writes the row: a cancelled checker that was still busy or the container
\* manager wrote it since, or the checker's own write failed, which it does not
\* notice.
RowSaysWhatWasSeen ==
  \A k \in Checkers, b \in Boxes :
    /\ k = current /\ prev[k][b] # "none" /\ b \notin foreign \cup missed
    /\ ~(check[k].at = "remember" /\ check[k].box = b)
    => status[b] = prev[k][b]
=============================================================================
