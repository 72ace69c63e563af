----------------------------- MODULE GameService -----------------------------
(***************************************************************************)
(* The life of one game: GameService (internal/service/game_service.go)    *)
(* and the admin handlers that edit and delete the row, over EngineManager *)
(* (internal/engine/manager.go) and its engines, in a process that may be  *)
(* shut down or crash.                                                     *)
(*                                                                         *)
(* The operations of GameService hold the mutex of the game from the read  *)
(* of the row to the end, so one is under way at a time.  The goroutines   *)
(* of the engines and the handlers UpdateGame and DeleteGame do not take   *)
(* it: they step between any two of its steps.                             *)
(***************************************************************************)
EXTENDS EngineModel

CONSTANTS Slots,      \* engine objects that can be alive at a time
          NoSlot,     \* the manager has no engine for the game
          NoRow,      \* the row of the game is deleted; no edit is under way
          Editing     \* bound: is the game edited (UpdateGame) while it lives?

ASSUME SlotAssumption == NoSlot \notin Slots /\ NoRow \notin Rows /\ Editing \in BOOLEAN

VARIABLES
  row,       \* the row of games, or NoRow
  scores,    \* the rounds with rows in round_scores
  engines,   \* the engine objects
  managed,   \* EngineManager.engines[gameID]
  op,        \* the operation that holds the mutex
  edit,      \* the row UpdateGame read
  \* history
  late,      \* round starts and ends run by an engine the manager let go of
  foreign    \* the row was written by UpdateGame or by such an engine

world == <<row, scores, engines, managed>>
history == <<late, foreign>>
vars == <<world, op, edit, history>>

Kinds == {"start", "pause", "resume", "stop", "reset"}
\* No operation under way: nobody holds the mutex of the game.
Idle == [kind |-> "idle", step |-> "idle", round |-> 0]

TypeOK ==
  /\ row \in Rows \cup {NoRow}
  /\ scores \subseteq 1..TotalRounds
  /\ engines \in [Slots -> Engines]
  /\ managed \in Slots \cup {NoSlot}
  /\ op \in {Idle} \cup
       [kind : Kinds, step : {"checked", "written", "failed"}, round : 0..TotalRounds]
  /\ edit \in Rows \cup {NoRow}
  /\ late \in [Slots -> 0..2] /\ foreign \in BOOLEAN

Draft == [status |-> "draft", phase |-> "preparation", round |-> 0]

Init ==
  /\ row = Draft /\ scores = {}
  /\ engines = [s \in Slots |-> NoEngine] /\ managed = NoSlot
  /\ op = Idle /\ edit = NoRow
  /\ late = [s \in Slots |-> 0] /\ foreign = FALSE

\* Once out of the map, an engine whose goroutine has returned, or can only
\* wait for ever for a resume or a timer, is dropped from the model.
Kept(e, inMap) ==
  IF ~inMap /\ (e.at = "done" \/ (e.at \in {"round", "break"} /\ ~MayLeave(e)))
  THEN NoEngine ELSE e

Step(s, e) == engines' = [engines EXCEPT ![s] = Kept(e, s = managed)]

\* An UPDATE of a deleted row changes nothing.
Write(status, phase) ==
  row' = IF row = NoRow THEN NoRow ELSE [row EXCEPT !.status = status, !.phase = phase]
-----------------------------------------------------------------------------
(***************************************************************************)
(* GameService.                                                            *)
(***************************************************************************)
CanStart  == row.status = "draft"
CanPause  == row.status = "running" /\ row.phase = "running"
CanResume == row.status = "paused"
CanFinish == row.status \in {"running", "paused"}
CanReset  == row.status \in {"finished", "draft"}

Can(kind) ==
  \/ kind = "start"  /\ CanStart
  \/ kind = "pause"  /\ CanPause
  \/ kind = "resume" /\ CanResume
  \/ kind = "stop"   /\ CanFinish
  \/ kind = "reset"  /\ CanReset

\* The mutex is taken and the row read; a refused operation changes nothing.
Check(kind) ==
  /\ op = Idle /\ row # NoRow /\ Can(kind)
  /\ op' = [kind |-> kind, step |-> "checked",
           round |-> IF kind = "resume" THEN row.round ELSE 0]
  /\ UNCHANGED <<world, edit, history>>

\* The row is written without looking at it again.
WriteStatus ==
  /\ op.step = "checked" /\ op.kind \in {"start", "pause", "resume", "stop"}
  /\ CASE op.kind \in {"start", "resume"} -> Write("running", "running")
       [] op.kind = "pause"               -> Write("paused", "break")
       [] op.kind = "stop"                -> Write("finished", "finished")
  /\ op' = [op EXCEPT !.step = "written"]
  /\ UNCHANGED <<scores, engines, managed, edit, history>>

Calling(kind) == op.kind = kind /\ op.step = "written"
Create(s, e) ==
  /\ engines[s] = NoEngine
  /\ engines' = [engines EXCEPT ![s] = e] /\ managed' = s
  /\ late' = [late EXCEPT ![s] = 0]

\* EngineManager.StartGame: an engine that is still in the map is left as it is.
CallStart ==
  /\ Calling("start") /\ op' = Idle
  /\ \/ managed # NoSlot /\ UNCHANGED <<world, history>>
     \/ /\ managed = NoSlot
        /\ \E s \in Slots : Create(s, Started)
        /\ row' = IF row = NoRow THEN NoRow ELSE [row EXCEPT !.round = 1, !.phase = "running"]
        /\ UNCHANGED <<scores, foreign>>
  /\ UNCHANGED edit

\* NewCompetitionEngine fails: StartGame takes its write back, ResumeGame logs it.
CallFails ==
  /\ managed = NoSlot
  /\ \/ Calling("start") /\ op' = [op EXCEPT !.step = "failed"]
     \/ Calling("resume") /\ op' = Idle
  /\ UNCHANGED <<world, edit, history>>

RollBack ==
  /\ op.step = "failed" /\ op' = Idle
  /\ Write("draft", "preparation")
  /\ UNCHANGED <<scores, engines, managed, edit, history>>

\* Mutant: the engine is not told.
CallPause_Skipped ==
  /\ Calling("pause") /\ op' = Idle
  /\ UNCHANGED <<world, edit, history>>

CallPause ==
  /\ Calling("pause") /\ op' = Idle
  /\ IF managed # NoSlot /\ engines[managed].running
     THEN /\ engines' = [engines EXCEPT ![managed] = Paused(@)]
          /\ Write("paused", "break")
     ELSE UNCHANGED <<row, engines>>
  /\ UNCHANGED <<scores, managed, edit, history>>

\* Without an engine, one is created for the round ResumeGame read.
CallResume ==
  /\ Calling("resume") /\ op' = Idle
  /\ IF managed # NoSlot
     THEN /\ engines' = [engines EXCEPT ![managed] = Resumed(@)]
          /\ IF engines[managed].running THEN UNCHANGED row ELSE Write("running", "running")
          /\ UNCHANGED <<managed, history>>
     ELSE /\ \E s \in Slots : Create(s, Restored(op.round))
          /\ row' = IF row = NoRow THEN NoRow
                    ELSE [status |-> "running", phase |-> "running",
                          round |-> IF op.round = 0 THEN 1 ELSE row.round]
          /\ UNCHANGED foreign
  /\ UNCHANGED <<scores, edit>>

\* Mutant: the engine is taken out of the map and not stopped.
CallStop_OnlyDeletes ==
  /\ Calling("stop") /\ op' = Idle
  /\ managed' = NoSlot
  /\ UNCHANGED <<row, scores, engines, edit, history>>

CallStop ==
  /\ Calling("stop") /\ op' = Idle
  /\ IF managed # NoSlot
     THEN /\ engines' = [engines EXCEPT ![managed] = Kept(Stopped(@), FALSE)]
          /\ managed' = NoSlot
          /\ Write("finished", "finished")
     ELSE UNCHANGED <<row, engines, managed>>
  /\ UNCHANGED <<scores, edit, history>>

\* ResetGame deletes the scores and writes the row; it has no engine callback.
ClearScores ==
  /\ op.kind = "reset" /\ op.step = "checked"
  /\ scores' = {} /\ op' = [op EXCEPT !.step = "written"]
  /\ UNCHANGED <<row, engines, managed, edit, history>>

ResetRow ==
  /\ Calling("reset") /\ op' = Idle
  /\ row' = IF row = NoRow THEN NoRow ELSE Draft
  /\ UNCHANGED <<scores, engines, managed, edit, history>>

Service ==
  \/ \E kind \in Kinds : Check(kind)
  \/ WriteStatus \/ CallStart \/ CallFails \/ RollBack \/ CallPause \/ CallResume
  \/ CallStop \/ ClearScores \/ ResetRow
-----------------------------------------------------------------------------
(***************************************************************************)
(* The handlers that do not take the mutex.                                *)
(***************************************************************************)

\* UpdateGame reads the whole row and later saves the whole row.
EditRead ==
  /\ Editing /\ edit = NoRow /\ row # NoRow
  /\ edit' = row
  /\ UNCHANGED <<world, op, history>>

\* gorm's Save inserts the row again when it is not there.
EditSave ==
  /\ edit # NoRow
  /\ row' = edit /\ edit' = NoRow
  /\ foreign' = (foreign \/ row # edit)
  /\ UNCHANGED <<scores, engines, managed, op, late>>

\* DeleteGame deletes the row and nothing else.
DeleteGame ==
  /\ row # NoRow
  /\ row' = NoRow
  /\ UNCHANGED <<scores, engines, managed, op, edit, history>>

Handlers == EditRead \/ EditSave \/ DeleteGame
-----------------------------------------------------------------------------
(***************************************************************************)
(* The goroutine of an engine.                                             *)
(***************************************************************************)
\* Stop reaches an engine only through the context its scheduler heeds.
Overrun(s) == s # managed /\ engines[s].heeds = engines[s].cancels /\ late[s] < 2
Late(s) ==
  /\ late' = IF Overrun(s) THEN [late EXCEPT ![s] = @ + 1] ELSE late
  /\ UNCHANGED <<managed, op, edit>>

Silent(s) ==
  LET e == engines[s] IN
  /\ \/ e.at = "fresh"  /\ Step(s, Begun(e))
     \/ MayLeave(e)     /\ Step(s, Left(e))
     \/ MayReturn(e)    /\ Step(s, Returned(e))
  /\ UNCHANGED <<row, scores, managed, op, edit, history>>

\* Mutant: the break is written to the row.
Judge_WritesBreak(s) ==
  /\ engines[s].at = "scored"
  /\ Step(s, Judged(engines[s]))
  /\ row' = IF row = NoRow THEN NoRow ELSE [row EXCEPT !.phase = "break"]
  /\ UNCHANGED <<scores, managed, op, edit, history>>

Judge(s) ==
  /\ engines[s].at = "scored"
  /\ Step(s, Judged(engines[s]))
  /\ UNCHANGED <<row, scores, managed, op, edit, history>>

RoundEnd(s) ==
  /\ engines[s].at = "ending"
  /\ Step(s, RoundEnded(engines[s]))
  /\ scores' = scores \cup {engines[s].round}
  /\ Late(s)
  /\ UNCHANGED <<row, foreign>>

RoundStart(s) ==
  /\ engines[s].at = "starting"
  /\ Step(s, RoundStarted(engines[s]))
  /\ row' = IF row = NoRow THEN NoRow
            ELSE [row EXCEPT !.round = engines[s].round + 1, !.phase = "running"]
  /\ Late(s)
  /\ foreign' = (foreign \/ s # managed)
  /\ UNCHANGED scores

FinishGame(s) ==
  /\ engines[s].at = "finishing"
  /\ Step(s, Finished(engines[s]))
  /\ Write("finished", "finished")
  /\ foreign' = (foreign \/ s # managed)
  /\ UNCHANGED <<scores, managed, op, edit, late>>

Goroutine(s) ==
  Silent(s) \/ Judge(s) \/ RoundEnd(s) \/ RoundStart(s) \/ FinishGame(s)
-----------------------------------------------------------------------------
(***************************************************************************)
(* The process ends.  Nothing rebuilds engines when it starts again.       *)
(***************************************************************************)
Forget ==
  /\ engines' = [s \in Slots |-> NoEngine] /\ managed' = NoSlot
  /\ op' = Idle /\ edit' = NoRow
  /\ late' = [s \in Slots |-> 0]
  /\ UNCHANGED <<scores, foreign>>

Crash == Forget /\ UNCHANGED row

\* ShutdownAll stops the engines, which writes their games finished.
Shutdown ==
  /\ Forget
  /\ IF managed # NoSlot THEN Write("finished", "finished") ELSE UNCHANGED row

Next == Service \/ Handlers \/ (\E s \in Slots : Goroutine(s)) \/ Crash \/ Shutdown

Spec == Init /\ [][Next]_vars
-----------------------------------------------------------------------------
(***************************************************************************)
(* Properties.                                                             *)
(***************************************************************************)

\* PauseGame's second test never refuses a running game: every write of status
\* running writes phase running, and the break is not written to the row.
RunningGameCanBePaused == row # NoRow /\ row.status = "running" => CanPause

\* An engine is marked running only while the manager can still reach it.
UnmanagedEngineIsOff == \A s \in Slots : s # managed => ~engines[s].running

\* Unless the row was overwritten from outside, whenever no operation is under
\* way: an engine marked running is the engine of a running game, and an engine
\* whose goroutine is alive is in the round and the status the row tells.
EngineAgreesWithRow ==
  op = Idle /\ ~foreign /\ managed # NoSlot /\ row # NoRow =>
    LET e == engines[managed] IN
    /\ e.running => row.status = "running"
    /\ e.at # "done" => e.round = row.round /\ (row.status = "running" => e.running)

\* Through resets, crashes and restarts, the rounds before the one a live engine
\* is in have scores, and so has that round once its break has begun.
NoRoundLeftUnscored ==
  ~foreign /\ managed # NoSlot =>
    LET e == engines[managed] IN
    /\ e.at # "done" => 1..(e.round - 1) \subseteq scores
    /\ e.at \in {"break", "starting"} => e.round \in scores

\* An engine that was stopped opens or scores at most one more round (one whose
\* goroutine began after a Resume is not reached by Stop).
OverrunsByOneRound ==
  \A s \in Slots : late[s] <= 1

(***************************************************************************)
(* What the comments and the guide say, and the code does not do.          *)
(***************************************************************************)

\* game_service.go:98: "Start the competition engine to manage rounds".  The
\* engine of a game that finished by itself is still in the map.
StartedGameHasEngine ==
  [][Calling("start") /\ op' = Idle /\ managed' # NoSlot
       => engines'[managed'].at # "done"]_vars
=============================================================================
