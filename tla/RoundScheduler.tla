--------------------------- MODULE RoundScheduler ---------------------------
(***************************************************************************)
(* One CompetitionEngine (internal/engine/engine.go) with its              *)
(* RoundScheduler goroutine (internal/engine/round.go), driven through     *)
(* EngineManager (internal/engine/manager.go).                             *)
(*                                                                         *)
(* A step is one critical section of e.mu or rs.mu, or one select.  Time   *)
(* is counted in ticks.  A pause context is abstracted to "is it Done".    *)
(* The one the goroutine captured is the current one, or has been replaced *)
(* since: after it was cancelled (stale), or, when Run made it during a    *)
(* pause, without (deaf: then nothing but Run's own context cancels it).   *)
(***************************************************************************)
EXTENDS Integers

CONSTANTS TotalRounds,     \* game.TotalRounds
          RoundDuration,   \* game.RoundDuration, in ticks
          BreakDuration,   \* game.BreakDuration, in ticks
          MaxFlagWrite     \* most ticks one onRoundStart spends writing flags

ASSUME DurationAssumption ==
  /\ TotalRounds \in Nat \ {0}
  /\ RoundDuration \in Nat \ {0}
  /\ BreakDuration \in Nat
  /\ MaxFlagWrite \in Nat

VARIABLES
  game,                \* the row of games: status, current_phase, current_round
  \* CompetitionEngine
  running, currentRound, currentPhase, healthChecking,
  cancels,             \* the context e.cancelFunc cancels: Run's or Resume's
  managed,             \* is the engine in EngineManager.engines?
  \* RoundScheduler
  paused, inBreak, remainingRoundTime, remainingBreakTime,
  since,               \* ticks since roundStart (breakStartTime in a break)
  \* contexts and the goroutine of Run
  runDone,             \* Run's ctx is cancelled
  pauseDone,           \* rs.pauseCtx is cancelled
  pauseParent,         \* the context rs.pauseCtx was derived from
  stale,               \* the pause context Run captured was cancelled and replaced
  deaf,                \* it was replaced and not cancelled
  pc,                  \* where the goroutine is
  timer,               \* ticks left on its timer, Off when stopped
  \* history
  restored,            \* the engine was rebuilt from the row (process restart)
  lastScored,          \* the last round CalculateRoundScores ran for
  played,              \* ticks the timer of this round has run, no pause on
  lost,                \* ticks it has run while the scheduler was paused
  unheard,             \* in this round Run made its pause context during a pause
  crossed,             \* round starts and ends run since the scheduler is paused
  usedUp               \* a Pause in this round found no time left

engineVars == <<running, currentRound, currentPhase, healthChecking, cancels, managed>>
schedVars  == <<paused, inBreak, remainingRoundTime, remainingBreakTime, since>>
ctxVars    == <<runDone, pauseDone, pauseParent>>
captureVars == <<stale, deaf>>
historyVars == <<restored, lastScored, played, lost, unheard, crossed, usedUp>>
vars == <<game, engineVars, schedVars, ctxVars, captureVars, pc, timer, historyVars>>

Off == -1
Larger(a, b) == IF a > b THEN a ELSE b
Smaller(a, b) == IF a < b THEN a ELSE b
\* time.Since saturates here: no remaining time is longer than this.
Horizon == Larger(RoundDuration, BreakDuration)

Statuses == {"draft", "running", "paused", "finished"}
Phases   == {"preparation", "running", "scoring", "break", "finished"}
Rounds   == 0..TotalRounds

Waiting == {"waitRound", "waitBreak", "gateEnd", "gateStart"}
Selects == {"select", "breakSelect"}
Labels  == {"absent", "init", "arm", "top", "rearm", "end", "after", "finish",
            "breakSetup", "breakRearm", "next", "start", "fresh", "done"}
           \cup Waiting \cup Selects

RowOK == game \in [status : Statuses, phase : Phases, round : Rounds]
EngineOK ==
  /\ running \in BOOLEAN /\ healthChecking \in BOOLEAN /\ managed \in BOOLEAN
  /\ currentRound \in Rounds /\ currentPhase \in Phases
  /\ cancels \in {"run", "resume"}
SchedulerOK ==
  /\ paused \in BOOLEAN /\ inBreak \in BOOLEAN
  /\ remainingRoundTime \in 0..RoundDuration
  /\ remainingBreakTime \in 0..BreakDuration
  /\ since \in 0..Horizon
GoroutineOK ==
  /\ runDone \in BOOLEAN /\ pauseDone \in BOOLEAN /\ stale \in BOOLEAN /\ deaf \in BOOLEAN
  /\ pauseParent \in {"run", "resume"}
  /\ pc \in Labels
  /\ timer \in {Off} \cup (0..Horizon)
HistoryOK ==
  /\ restored \in BOOLEAN /\ usedUp \in BOOLEAN
  /\ lastScored \in Rounds
  /\ unheard \in BOOLEAN
  /\ played \in Nat /\ lost \in Nat /\ crossed \in Nat
TypeOK == RowOK /\ EngineOK /\ SchedulerOK /\ GoroutineOK /\ HistoryOK

\* A draft game, or a game found paused when the process starts again, whose
\* current round may have been scored before the crash.
Init ==
  /\ \/ /\ game = [status |-> "draft", phase |-> "preparation", round |-> 0]
        /\ lastScored = 0
        /\ restored = FALSE
     \/ /\ game \in [status : {"paused"}, phase : {"break"}, round : Rounds]
        /\ lastScored \in Rounds \cap {game.round - 1, game.round}
        /\ restored = TRUE
  /\ running = FALSE /\ currentRound = 0 /\ currentPhase = "preparation"
  /\ healthChecking = FALSE /\ cancels = "run" /\ managed = FALSE
  /\ paused = FALSE /\ inBreak = FALSE
  /\ remainingRoundTime = 0 /\ remainingBreakTime = 0 /\ since = Horizon
  /\ runDone = FALSE /\ pauseDone = FALSE /\ pauseParent = "run"
  /\ stale = FALSE /\ deaf = FALSE
  /\ pc = "absent" /\ timer = Off
  /\ played = 0 /\ lost = 0 /\ unheard = FALSE /\ crossed = 0 /\ usedUp = FALSE
-----------------------------------------------------------------------------
(***************************************************************************)
(* The engine's handlers, each under e.mu.                                 *)
(***************************************************************************)

\* onRoundStart up to the flags: a failed GenerateFlags is logged and ignored.
OnRoundStart(round, gameRow) ==
  /\ currentRound' = round
  /\ currentPhase' = "running"
  /\ game' = [gameRow EXCEPT !.round = round, !.phase = "running"]
  /\ played' = 0 /\ lost' = 0 /\ unheard' = FALSE /\ usedUp' = FALSE

\* EngineManager.StartGame and CompetitionEngine.Start.
EngineStart ==
  /\ pc = "absent" /\ game.status = "draft"
  /\ OnRoundStart(1, [game EXCEPT !.status = "running"])
  /\ running' = TRUE /\ healthChecking' = TRUE /\ managed' = TRUE
  /\ pc' = "init"
  /\ UNCHANGED <<cancels, schedVars, ctxVars, captureVars, timer, restored, lastScored, crossed>>

\* EngineManager.ResumeGame when no engine exists: the round of the row is
\* taken over, and a scheduler created for it.
EngineRestore ==
  /\ pc = "absent" /\ game.status = "paused"
  /\ IF game.round = 0
     THEN /\ currentRound' = 1 /\ currentPhase' = "running"
          /\ game' = [status |-> "running", phase |-> "running", round |-> 1]
     ELSE /\ currentRound' = game.round /\ UNCHANGED currentPhase
          /\ game' = [game EXCEPT !.status = "running", !.phase = "running"]
  /\ running' = TRUE /\ healthChecking' = TRUE /\ managed' = TRUE
  /\ pc' = "init"
  /\ UNCHANGED <<cancels, schedVars, ctxVars, captureVars, timer, historyVars>>

\* Mutant: the time already spent is not taken off the round.
SchedulerPause_KeepsTime ==
  /\ paused' = TRUE /\ pauseDone' = TRUE /\ crossed' = 0
  /\ UNCHANGED <<remainingRoundTime, remainingBreakTime, usedUp>>

\* RoundScheduler.Pause: save what is left of the round or of the break.
SchedulerPause ==
  /\ paused' = TRUE
  /\ IF inBreak
     THEN /\ remainingBreakTime' = Larger(0, remainingBreakTime - since)
          /\ UNCHANGED <<remainingRoundTime, usedUp>>
     ELSE /\ remainingRoundTime' = Larger(0, remainingRoundTime - since)
          /\ usedUp' = (usedUp \/ remainingRoundTime' = 0)
          /\ UNCHANGED remainingBreakTime
  /\ pauseDone' = TRUE
  /\ crossed' = 0

\* CompetitionEngine.Pause
EnginePause ==
  /\ managed /\ running /\ game.status = "running" /\ game.phase = "running"
  /\ IF paused
     THEN UNCHANGED <<paused, remainingRoundTime, remainingBreakTime, usedUp, pauseDone, crossed>>
     ELSE SchedulerPause
  /\ running' = FALSE /\ currentPhase' = "break" /\ healthChecking' = FALSE
  /\ game' = [game EXCEPT !.status = "paused", !.phase = "break"]
  /\ UNCHANGED <<currentRound, cancels, managed, inBreak, since, runDone, pauseParent,
                 captureVars, pc, timer, restored, lastScored, played, lost, unheard>>

\* Is the pause context Run captured Done?
CaptureDone == IF deaf THEN runDone ELSE stale \/ pauseDone

\* CompetitionEngine.Resume with a scheduler: e.cancelFunc is overwritten, and
\* RoundScheduler.Resume derives the new pause context from the new context.
EngineResume ==
  /\ managed /\ ~running /\ game.status = "paused"
  /\ cancels' = "resume"
  /\ running' = TRUE /\ healthChecking' = TRUE
  /\ IF paused
     THEN /\ paused' = FALSE /\ since' = 0
          /\ pauseDone' = FALSE /\ pauseParent' = "resume"
          /\ stale' = CaptureDone /\ deaf' = ~CaptureDone
          /\ crossed' = 0
     ELSE UNCHANGED <<paused, since, pauseDone, pauseParent, captureVars, crossed>>
  /\ game' = [game EXCEPT !.status = "running", !.phase = "running"]
  /\ UNCHANGED <<currentRound, currentPhase, managed, inBreak, remainingRoundTime,
                 remainingBreakTime, runDone, pc, timer, restored, lastScored, played, lost,
                 unheard, usedUp>>

\* Mutant: the engine is removed and its scheduler is not told.
EngineStop_NoCancel ==
  /\ managed /\ game.status \in {"running", "paused"}
  /\ managed' = FALSE /\ running' = FALSE /\ healthChecking' = FALSE
  /\ currentPhase' = "finished"
  /\ game' = [game EXCEPT !.status = "finished", !.phase = "finished"]
  /\ UNCHANGED <<currentRound, cancels, schedVars, ctxVars, captureVars, pc, timer, historyVars>>

\* EngineManager.StopGame and CompetitionEngine.Stop: only the context of the
\* latest Resume is cancelled, and with it the contexts derived from it.
EngineStop ==
  /\ managed /\ game.status \in {"running", "paused"}
  /\ managed' = FALSE /\ running' = FALSE /\ healthChecking' = FALSE
  /\ currentPhase' = "finished"
  /\ game' = [game EXCEPT !.status = "finished", !.phase = "finished"]
  /\ runDone' = (runDone \/ cancels = "run")
  /\ pauseDone' = (pauseDone \/ pauseParent = cancels)
  /\ UNCHANGED <<currentRound, cancels, schedVars, pauseParent, captureVars, pc, timer, historyVars>>
-----------------------------------------------------------------------------
(***************************************************************************)
(* The goroutine of RoundScheduler.Run.                                    *)
(***************************************************************************)
Goto(from, to) == pc = from /\ pc' = to
Fired == timer = 0

\* The first critical section: a Pause that came before it is not looked at.
RunInit ==
  /\ Goto("init", "arm")
  /\ since' = 0
  /\ pauseDone' = runDone /\ pauseParent' = "run"
  /\ unheard' = paused
  /\ UNCHANGED <<game, engineVars, paused, inBreak, remainingRoundTime, remainingBreakTime,
                 runDone, captureVars, timer, restored, lastScored, played, lost, crossed, usedUp>>

RunArm ==
  /\ Goto("arm", "top")
  /\ remainingRoundTime' = RoundDuration /\ inBreak' = FALSE
  /\ timer' = RoundDuration
  /\ UNCHANGED <<game, engineVars, paused, remainingBreakTime, since, ctxVars, captureVars, historyVars>>

RunTop ==
  /\ Goto("top", "select")
  /\ stale' = FALSE /\ deaf' = FALSE
  /\ UNCHANGED <<game, engineVars, schedVars, ctxVars, timer, historyVars>>

\* The select of a round or of a break: of the ready cases Go takes any.
SelectCancelled ==
  /\ pc \in Selects /\ runDone
  /\ pc' = "done" /\ timer' = Off
  /\ UNCHANGED <<game, engineVars, schedVars, ctxVars, captureVars, historyVars>>

\* Mutant: a pause during a break does not wait for the resume.
SelectPaused_NoBreakWait ==
  /\ pc \in Selects /\ CaptureDone
  /\ pc' = IF pc = "select" THEN "waitRound" ELSE "breakRearm"
  /\ timer' = Off
  /\ UNCHANGED <<game, engineVars, schedVars, ctxVars, captureVars, historyVars>>

SelectPaused ==
  /\ pc \in Selects /\ CaptureDone
  /\ pc' = IF pc = "select" THEN "waitRound" ELSE "waitBreak"
  /\ timer' = Off
  /\ UNCHANGED <<game, engineVars, schedVars, ctxVars, captureVars, historyVars>>

SelectFired ==
  /\ pc \in Selects /\ Fired
  /\ pc' = IF pc = "select" THEN "gateEnd" ELSE "gateStart"
  /\ timer' = Off
  /\ UNCHANGED <<game, engineVars, schedVars, ctxVars, captureVars, historyVars>>

\* waitForResume: polls until the scheduler is not paused.
AfterWait == [waitRound |-> "rearm", waitBreak |-> "breakRearm",
              gateEnd |-> "end", gateStart |-> "next"]

\* Mutant: the gate before a round start does not look at paused.
WaitOver_OpenGate ==
  /\ pc \in Waiting /\ (~paused \/ pc \in {"gateStart", "waitBreak"})
  /\ pc' = AfterWait[pc]
  /\ UNCHANGED <<game, engineVars, schedVars, ctxVars, captureVars, timer, historyVars>>

WaitOver ==
  /\ pc \in Waiting /\ ~paused
  /\ pc' = AfterWait[pc]
  /\ UNCHANGED <<game, engineVars, schedVars, ctxVars, captureVars, timer, historyVars>>

\* Mutant: waitForResume does not look at ctx.
WaitCancelled_Ignored ==
  /\ FALSE /\ UNCHANGED vars

WaitCancelled ==
  /\ pc \in Waiting /\ paused /\ runDone
  /\ pc' = "done"
  /\ UNCHANGED <<game, engineVars, schedVars, ctxVars, captureVars, timer, historyVars>>

WaitRenew ==
  /\ pc \in Waiting /\ paused /\ pauseDone /\ ~runDone
  /\ pauseDone' = FALSE /\ pauseParent' = "run"
  /\ stale' = ~deaf
  /\ UNCHANGED <<game, engineVars, schedVars, runDone, deaf, pc, timer, historyVars>>

\* Mutant: with no time left the next round is started at once.
RoundRearm_SkipsScoring ==
  /\ pc = "rearm"
  /\ pc' = IF remainingRoundTime > 0 THEN "top" ELSE "next"
  /\ timer' = IF remainingRoundTime > 0 THEN remainingRoundTime ELSE Off
  /\ UNCHANGED <<game, engineVars, schedVars, ctxVars, captureVars, historyVars>>

\* After a pause in a round: no timer is made when no time is left.
RoundRearm ==
  /\ Goto("rearm", "top")
  /\ timer' = IF remainingRoundTime > 0 THEN remainingRoundTime ELSE Off
  /\ UNCHANGED <<game, engineVars, schedVars, ctxVars, captureVars, historyVars>>

\* Mutant: a break with no time left is treated as a round is.
BreakRearm_NoTimer ==
  /\ Goto("breakRearm", "breakSelect")
  /\ timer' = IF remainingBreakTime > 0 THEN remainingBreakTime ELSE Off
  /\ stale' = FALSE /\ deaf' = FALSE
  /\ UNCHANGED <<game, engineVars, schedVars, ctxVars, historyVars>>

\* After a pause in a break: with no time left the next round starts.
BreakRearm ==
  /\ pc = "breakRearm"
  /\ IF remainingBreakTime > 0
     THEN pc' = "breakSelect" /\ timer' = remainingBreakTime
     ELSE pc' = "gateStart" /\ timer' = Off
  /\ stale' = FALSE /\ deaf' = FALSE
  /\ UNCHANGED <<game, engineVars, schedVars, ctxVars, historyVars>>

Cross == crossed' = IF paused THEN crossed + 1 ELSE crossed

\* onRoundEnd, under e.mu.
RoundEnd ==
  /\ Goto("end", "after")
  /\ currentPhase' = "scoring"
  /\ lastScored' = currentRound
  /\ Cross
  /\ UNCHANGED <<game, running, currentRound, healthChecking, cancels, managed, schedVars,
                 ctxVars, captureVars, timer, restored, played, lost, unheard, usedUp>>

\* Mutant: the test for the last round comes one round too early.
AfterRoundEnd_Early ==
  /\ pc = "after"
  /\ IF currentRound + 1 >= TotalRounds
     THEN pc' = "finish" /\ currentPhase' = "finished"
     ELSE pc' = "breakSetup" /\ currentPhase' = "break"
  /\ UNCHANGED <<game, running, currentRound, healthChecking, cancels, managed, schedVars,
                 ctxVars, captureVars, timer, historyVars>>

\* The test for the last round and the phase it leads to.
AfterRoundEnd ==
  /\ pc = "after"
  /\ IF currentRound >= TotalRounds
     THEN pc' = "finish" /\ currentPhase' = "finished"
     ELSE pc' = "breakSetup" /\ currentPhase' = "break"
  /\ UNCHANGED <<game, running, currentRound, healthChecking, cancels, managed, schedVars,
                 ctxVars, captureVars, timer, historyVars>>

\* Mutant: the engine of a finished game is still marked running.
FinishGame_StaysRunning ==
  /\ Goto("finish", "done")
  /\ currentPhase' = "finished"
  /\ game' = [game EXCEPT !.status = "finished", !.phase = "finished"]
  /\ UNCHANGED <<running, healthChecking, currentRound, cancels, managed, schedVars, ctxVars,
                 captureVars, timer, historyVars>>

FinishGame ==
  /\ Goto("finish", "done")
  /\ running' = FALSE /\ currentPhase' = "finished" /\ healthChecking' = FALSE
  /\ game' = [game EXCEPT !.status = "finished", !.phase = "finished"]
  /\ UNCHANGED <<currentRound, cancels, managed, schedVars, ctxVars, captureVars, timer, historyVars>>

BreakSetup ==
  /\ Goto("breakSetup", "breakSelect")
  /\ inBreak' = TRUE /\ remainingBreakTime' = BreakDuration /\ since' = 0
  /\ timer' = BreakDuration
  /\ stale' = FALSE /\ deaf' = FALSE
  /\ UNCHANGED <<game, engineVars, paused, remainingRoundTime, ctxVars, historyVars>>

RoundNext ==
  /\ Goto("next", "start")
  /\ since' = 0 /\ inBreak' = FALSE
  /\ UNCHANGED <<game, engineVars, paused, remainingRoundTime, remainingBreakTime,
                 ctxVars, captureVars, timer, historyVars>>

\* Mutant: the round counter is not advanced.
RoundStart_SameRound ==
  /\ Goto("start", "fresh")
  /\ OnRoundStart(currentRound, game)
  /\ Cross
  /\ UNCHANGED <<running, healthChecking, cancels, managed, schedVars, ctxVars, captureVars, timer,
                 restored, lastScored>>

\* onRoundStart, under e.mu, for as long as it takes to write the flags.
RoundStart ==
  /\ Goto("start", "fresh")
  /\ OnRoundStart(currentRound + 1, game)
  /\ \E d \in 0..MaxFlagWrite : since' = Smaller(Horizon, since + d)
  /\ Cross
  /\ UNCHANGED <<running, healthChecking, cancels, managed, paused, inBreak,
                 remainingRoundTime, remainingBreakTime, ctxVars, captureVars, timer,
                 restored, lastScored>>

RoundFresh ==
  /\ Goto("fresh", "top")
  /\ remainingRoundTime' = RoundDuration
  /\ timer' = RoundDuration
  /\ UNCHANGED <<game, engineVars, paused, inBreak, remainingBreakTime, since, ctxVars,
                 captureVars, historyVars>>

Run == \/ RunInit \/ RunArm \/ RunTop
       \/ SelectCancelled \/ SelectPaused \/ SelectFired
       \/ WaitOver \/ WaitCancelled \/ WaitRenew
       \/ RoundRearm \/ BreakRearm
       \/ RoundEnd \/ AfterRoundEnd \/ FinishGame
       \/ BreakSetup \/ RoundNext \/ RoundStart \/ RoundFresh

\* One tick of the clock.  The goroutine's own sections take no time, so a
\* tick passes only while it is blocked, or not there.
Blocked ==
  \/ pc \in {"absent", "done"}
  \/ pc \in Selects /\ ~runDone /\ ~CaptureDone /\ ~Fired
  \/ pc \in Waiting /\ paused

Tick ==
  /\ Blocked
  /\ since' = Smaller(Horizon, since + 1)
  /\ timer' = IF timer > 0 THEN timer - 1 ELSE timer
  /\ IF pc = "select" /\ timer > 0
     THEN IF paused THEN lost' = lost + 1 /\ UNCHANGED played
                    ELSE played' = played + 1 /\ UNCHANGED lost
     ELSE UNCHANGED <<played, lost>>
  /\ UNCHANGED <<game, engineVars, paused, inBreak, remainingRoundTime, remainingBreakTime,
                 ctxVars, captureVars, pc, restored, lastScored, unheard, crossed, usedUp>>

Engine == EngineStart \/ EngineRestore \/ EnginePause \/ EngineResume \/ EngineStop

Next == Engine \/ Run \/ Tick

Spec == Init /\ [][Next]_vars

\* The Go scheduler runs the goroutine, and the clock advances; no one has to
\* start, pause, resume or stop a game.  A select chooses at random among its
\* ready cases, so one that is ready again and again is taken.
Fairness == WF_vars(Run) /\ SF_vars(SelectCancelled) /\ WF_vars(Tick)

FairSpec == Spec /\ Fairness
-----------------------------------------------------------------------------
(***************************************************************************)
(* Properties.                                                             *)
(***************************************************************************)

\* The goroutine reaches onRoundEnd with every earlier round scored and this
\* one not (unless a restart in a break has it played again), and never opens
\* a round before the current one is scored.
EachRoundScoredOnce ==
  /\ pc = "end" /\ ~restored => lastScored = currentRound - 1
  /\ pc = "start" => lastScored = currentRound

\* A game nobody stopped is marked finished only when its last round has been
\* scored: finishGame is reached through the test for the last round alone.
FinishedGameIsFullyScored ==
  managed /\ game.status = "finished" => lastScored = TotalRounds

\* The engine in the manager and the row of the game agree on what is running
\* and on the round, and health checks run exactly while the engine does.
EngineMatchesRow ==
  managed => /\ running = (game.status = "running")
             /\ healthChecking = running
             /\ currentRound = game.round
             /\ paused => ~running

\* A Pause that comes just after waitForResume let the goroutine through is
\* overtaken by that one round end or round start, and by no other.
OneBoundaryPerPause == paused => crossed <= 1

\* However often a round is paused, its timer runs as long as the round has, less
\* what was spent writing its flags, and no longer.  It runs during a pause only in
\* a round in which Run made its pause context while paused already (round.go:99
\* does not look), so that nothing told it of the pause.
RoundNeitherExtendedNorCut ==
  /\ played + lost <= RoundDuration
  /\ pc = "end" => played + lost >= RoundDuration - MaxFlagWrite
  /\ lost > 0 => unheard

\* What the goroutine does to the row and the scores is a round sequence.
Rounds_ == INSTANCE RoundSequence WITH
  round <- game.round,
  scored <- lastScored,
  outcome <- IF pc # "done" THEN "open" ELSE IF managed THEN "complete" ELSE "aborted"

ImplementsRoundSequence == Rounds_!Spec

\* A game that is at some point left alone finishes, or stays for ever in a
\* round that a Pause found without any time left.
FinishesUnlessUsedUp ==
  <>[](managed /\ ~paused) => <>[](game.status = "finished") \/ <>[]usedUp

\* After a Pause the goroutine reaches waitForResume, whatever it was doing.
PauseParks == paused ~> (~paused \/ pc \in Waiting \cup {"done"})

\* Once the context Run was given is cancelled, Run returns.
CancelledRunReturns == runDone ~> pc = "done"

(***************************************************************************)
(* What the comments and the guides say, and the code does not do.         *)
(***************************************************************************)

\* round.go:134: "After resume: reset timer with remaining round time".  With
\* none remaining no timer is made, and the round never ends.
LeftAloneFinishes == <>[](managed /\ ~paused) => <>(game.status = "finished")
=============================================================================
