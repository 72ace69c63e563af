------------------------ MODULE RoundSchedulerProofs ------------------------
(***************************************************************************)
(* Safety of the round scheduler for every number of rounds and every      *)
(* duration.  The invariants below tie the place of the goroutine to the   *)
(* rounds scored so far; RoundScheduler's properties follow from them.     *)
(***************************************************************************)
EXTENDS MCRoundScheduler, TLAPS

\* Places where the current round is still to be scored, and where it is.
Unscored == {"init", "arm", "top", "select", "waitRound", "rearm", "gateEnd", "end", "fresh"}
Scored   == {"after", "finish", "breakSetup", "breakSelect", "waitBreak", "breakRearm",
             "gateStart", "next", "start"}

\* Where the goroutine is determines which rounds have been scored.
ScoreInv ==
  /\ lastScored \in {game.round - 1, game.round}
  /\ pc = "absent" /\ ~restored => game.round = 0
  /\ pc # "absent" => currentRound = game.round /\ currentRound >= 1
  /\ pc \in Unscored /\ ~restored => lastScored = currentRound - 1
  /\ pc \in Scored => lastScored = currentRound
  /\ pc \in Scored \ {"after", "finish"} => currentRound < TotalRounds
  /\ pc = "finish" => currentRound = TotalRounds

\* The row, the engine and the manager agree; a cancelled Run has no manager.
EngineInv ==
  /\ managed => /\ pc # "absent"
                /\ running = (game.status = "running")
                /\ healthChecking = running
                /\ paused => ~running
                /\ ~runDone
                /\ game.status = "finished" => pc = "done"
                /\ pc = "done" => game.status = "finished" /\ lastScored = TotalRounds
  /\ pc = "absent" => /\ ~managed /\ ~paused /\ ~runDone
                      /\ game.status = "draft" => game.round = 0 /\ ~restored
                      /\ game.status = "paused" => restored

\* A paused scheduler that has crossed a boundary is not about to cross another.
BoundaryInv ==
  paused => crossed <= 1 /\ (pc \in {"end", "next", "start"} => crossed = 0)

-----------------------------------------------------------------------------
\* The horizon at which time saturates is beyond every timer.
LEMMA HorizonBounds ==
  Horizon \in Nat /\ RoundDuration <= Horizon /\ BreakDuration <= Horizon
  BY DurationAssumption DEF Horizon, Larger

LEMMA TimeBounds ==
  /\ 0 \in 0..Horizon /\ RoundDuration \in 0..Horizon /\ BreakDuration \in 0..Horizon
  /\ 0 \in 0..RoundDuration /\ RoundDuration \in 0..RoundDuration
  /\ 0 \in 0..BreakDuration /\ BreakDuration \in 0..BreakDuration
  /\ 0..RoundDuration \subseteq 0..Horizon /\ 0..BreakDuration \subseteq 0..Horizon
  BY HorizonBounds, DurationAssumption

\* Saturating arithmetic stays within its bounds.
LEMMA Bounded ==
  /\ \A a, b \in Nat : Larger(0, a - b) \in 0..a
  /\ \A a, b \in Nat : Smaller(a, b) \in 0..a
  BY DEF Larger, Smaller

\* A part of the state that a step leaves alone keeps its type.
LEMMA Kept ==
  /\ RowOK /\ UNCHANGED game => RowOK'
  /\ EngineOK /\ UNCHANGED engineVars => EngineOK'
  /\ SchedulerOK /\ UNCHANGED schedVars => SchedulerOK'
  /\ HistoryOK /\ UNCHANGED historyVars => HistoryOK'
  <1>1. RowOK /\ UNCHANGED game => RowOK'
    BY DEF RowOK
  <1>2. EngineOK /\ UNCHANGED engineVars => EngineOK'
    BY DEF EngineOK, engineVars
  <1>3. SchedulerOK /\ UNCHANGED schedVars => SchedulerOK'
    BY DEF SchedulerOK, schedVars
  <1>4. HistoryOK /\ UNCHANGED historyVars => HistoryOK'
    BY DEF HistoryOK, historyVars
  <1> QED BY <1>1, <1>2, <1>3, <1>4

\* The steps of the goroutine and of the handlers keep the types; that the
\* round counter stays within TotalRounds is ScoreInv's.
LEMMA TypeStep == ASSUME TypeOK, ScoreInv, [Next]_vars PROVE TypeOK'
<1>1. CASE EngineStart
  <2> USE DEF TypeOK, RowOK, EngineOK, SchedulerOK, GoroutineOK, HistoryOK
  <2>1. RowOK'
    <3>1. 1 \in Rounds
      BY DurationAssumption DEF Rounds
    <3>2. game' = [status |-> "running", phase |-> "running", round |-> 1]
      BY <1>1 DEF EngineStart, OnRoundStart
    <3> QED BY <3>1, <3>2 DEF Statuses, Phases
  <2>2. EngineOK'
    BY <1>1, DurationAssumption DEF EngineStart, OnRoundStart, Phases, Rounds
  <2>3. SchedulerOK'
    BY <1>1, DurationAssumption DEF EngineStart, OnRoundStart, schedVars, ctxVars, captureVars
  <2>4. GoroutineOK'
    BY <1>1, DurationAssumption DEF EngineStart, OnRoundStart, schedVars, ctxVars, captureVars, Labels
  <2>5. HistoryOK'
    BY <1>1, DurationAssumption DEF EngineStart, OnRoundStart, schedVars, ctxVars, captureVars
  <2> QED BY <2>1, <2>2, <2>3, <2>4, <2>5
<1>2. CASE EngineRestore
  <2> USE DEF TypeOK, RowOK, EngineOK, SchedulerOK, GoroutineOK, HistoryOK
  <2>1. RowOK'
    <3>1. 1 \in Rounds
      BY DurationAssumption DEF Rounds
    <3>2. CASE game.round = 0
      BY <1>2, <3>1, <3>2 DEF EngineRestore, Statuses, Phases
    <3>3. CASE game.round # 0
      <4>1. game' = [game EXCEPT !.status = "running", !.phase = "running"]
        BY <1>2, <3>3 DEF EngineRestore
      <4> QED BY <4>1 DEF Statuses, Phases
    <3> QED BY <3>2, <3>3
  <2>2. EngineOK'
    BY <1>2, DurationAssumption DEF EngineRestore, Phases, Rounds
  <2>3. SchedulerOK'
    BY <1>2, DurationAssumption DEF EngineRestore, schedVars, ctxVars, captureVars, historyVars
  <2>4. GoroutineOK'
    BY <1>2, DurationAssumption DEF EngineRestore, schedVars, ctxVars, captureVars, historyVars, Labels
  <2>5. HistoryOK'
    BY <1>2, DurationAssumption DEF EngineRestore, schedVars, ctxVars, captureVars, historyVars
  <2> QED BY <2>1, <2>2, <2>3, <2>4, <2>5
<1>3. CASE EnginePause
  <2> USE DEF TypeOK, RowOK, EngineOK, SchedulerOK, GoroutineOK, HistoryOK
  <2>1. RowOK'
    BY <1>3 DEF EnginePause, SchedulerPause, Statuses, Phases, Rounds
  <2>2. EngineOK'
    BY <1>3 DEF EnginePause, SchedulerPause, Phases, Rounds
  <2>3. SchedulerOK'
    <3>1. since \in Nat
      BY HorizonBounds
    <3>2. Larger(0, remainingBreakTime - since) \in 0..BreakDuration
      BY <3>1, DurationAssumption DEF Larger
    <3>3. Larger(0, remainingRoundTime - since) \in 0..RoundDuration
      BY <3>1, DurationAssumption DEF Larger
    <3> QED BY <1>3, <3>2, <3>3 DEF EnginePause, SchedulerPause
  <2>4. GoroutineOK'
    BY <1>3 DEF EnginePause, SchedulerPause, captureVars, Labels
  <2>5. HistoryOK'
    <3>1. usedUp' \in BOOLEAN
      BY <1>3, Zenon DEF EnginePause, SchedulerPause
    <3> QED BY <1>3, <3>1 DEF EnginePause, SchedulerPause
  <2> QED BY <2>1, <2>2, <2>3, <2>4, <2>5
<1>4. CASE EngineResume
  <2> USE DEF TypeOK, RowOK, EngineOK, SchedulerOK, GoroutineOK, HistoryOK
  <2>1. RowOK'
    BY <1>4, TimeBounds DEF EngineResume, Statuses, Phases, Rounds
  <2>2. EngineOK'
    BY <1>4, TimeBounds DEF EngineResume, Phases, Rounds
  <2>3. SchedulerOK'
    BY <1>4, TimeBounds DEF EngineResume
  <2>4. GoroutineOK'
    BY <1>4, TimeBounds DEF EngineResume, CaptureDone, captureVars, Labels
  <2>5. HistoryOK'
    BY <1>4, TimeBounds DEF EngineResume
  <2> QED BY <2>1, <2>2, <2>3, <2>4, <2>5
<1>5. CASE EngineStop
  <2> USE DEF TypeOK, RowOK, EngineOK, SchedulerOK, GoroutineOK, HistoryOK
  <2>1. RowOK'
    BY <1>5 DEF EngineStop, schedVars, historyVars, Statuses, Phases, Rounds
  <2>2. EngineOK'
    BY <1>5 DEF EngineStop, schedVars, historyVars, Phases, Rounds
  <2>3. SchedulerOK'
    BY <1>5 DEF EngineStop, schedVars, historyVars
  <2>4. GoroutineOK'
    BY <1>5 DEF EngineStop, schedVars, captureVars, historyVars, Labels
  <2>5. HistoryOK'
    BY <1>5 DEF EngineStop, schedVars, historyVars
  <2> QED BY <2>1, <2>2, <2>3, <2>4, <2>5
<1>6. CASE Run
  <2> USE DEF Goto, TypeOK
  <2>1. CASE RunInit
    <3>1. SchedulerOK'
      BY <2>1, TimeBounds DEF RunInit, SchedulerOK, schedVars
    <3>2. GoroutineOK'
      BY <2>1, TimeBounds DEF RunInit, GoroutineOK, captureVars, Labels
    <3>3. RowOK' /\ EngineOK'
      <4>1. UNCHANGED <<game, engineVars>>
        BY <2>1 DEF RunInit, engineVars
      <4> QED BY <4>1, Kept
    <3>4. HistoryOK'
      BY <2>1 DEF RunInit, HistoryOK, SchedulerOK
    <3> QED BY <3>1, <3>2, <3>3, <3>4
  <2>2. CASE RunArm
    <3>1. SchedulerOK'
      BY <2>2, TimeBounds DEF RunArm, SchedulerOK
    <3>2. GoroutineOK'
      BY <2>2, TimeBounds DEF RunArm, GoroutineOK, ctxVars, captureVars, Labels
    <3>3. RowOK' /\ EngineOK' /\ HistoryOK'
      <4>1. UNCHANGED <<game, engineVars, historyVars>>
        BY <2>2 DEF RunArm, engineVars, historyVars
      <4> QED BY <4>1, Kept
    <3> QED BY <3>1, <3>2, <3>3
  <2>3. CASE RunTop
    <3>1. GoroutineOK'
      BY <2>3 DEF RunTop, GoroutineOK, ctxVars, captureVars, Labels, Selects
    <3>2. RowOK' /\ EngineOK' /\ SchedulerOK' /\ HistoryOK'
      <4>1. UNCHANGED <<game, engineVars, schedVars, historyVars>>
        BY <2>3 DEF RunTop, engineVars, schedVars, historyVars
      <4> QED BY <4>1, Kept
    <3> QED BY <3>1, <3>2
  <2>4. CASE SelectCancelled
    <3>1. GoroutineOK'
      BY <2>4 DEF SelectCancelled, GoroutineOK, ctxVars, captureVars, Labels
    <3>2. RowOK' /\ EngineOK' /\ SchedulerOK' /\ HistoryOK'
      <4>1. UNCHANGED <<game, engineVars, schedVars, historyVars>>
        BY <2>4 DEF SelectCancelled, engineVars, schedVars, historyVars
      <4> QED BY <4>1, Kept
    <3> QED BY <3>1, <3>2
  <2>5. CASE SelectPaused
    <3>1. GoroutineOK'
      BY <2>5 DEF SelectPaused, GoroutineOK, ctxVars, captureVars, Labels, Waiting
    <3>2. RowOK' /\ EngineOK' /\ SchedulerOK' /\ HistoryOK'
      <4>1. UNCHANGED <<game, engineVars, schedVars, historyVars>>
        BY <2>5 DEF SelectPaused, engineVars, schedVars, historyVars
      <4> QED BY <4>1, Kept
    <3> QED BY <3>1, <3>2
  <2>6. CASE SelectFired
    <3>1. GoroutineOK'
      BY <2>6 DEF SelectFired, GoroutineOK, ctxVars, captureVars, Labels, Waiting
    <3>2. RowOK' /\ EngineOK' /\ SchedulerOK' /\ HistoryOK'
      <4>1. UNCHANGED <<game, engineVars, schedVars, historyVars>>
        BY <2>6 DEF SelectFired, engineVars, schedVars, historyVars
      <4> QED BY <4>1, Kept
    <3> QED BY <3>1, <3>2
  <2>7. CASE WaitOver
    <3>1. GoroutineOK'
      BY <2>7 DEF WaitOver, GoroutineOK, AfterWait, ctxVars, captureVars, Labels, Waiting
    <3>2. RowOK' /\ EngineOK' /\ SchedulerOK' /\ HistoryOK'
      <4>1. UNCHANGED <<game, engineVars, schedVars, historyVars>>
        BY <2>7 DEF WaitOver, engineVars, schedVars, historyVars
      <4> QED BY <4>1, Kept
    <3> QED BY <3>1, <3>2
  <2>8. CASE WaitCancelled
    <3>1. GoroutineOK'
      BY <2>8 DEF WaitCancelled, GoroutineOK, ctxVars, captureVars, Labels
    <3>2. RowOK' /\ EngineOK' /\ SchedulerOK' /\ HistoryOK'
      <4>1. UNCHANGED <<game, engineVars, schedVars, historyVars>>
        BY <2>8 DEF WaitCancelled, engineVars, schedVars, historyVars
      <4> QED BY <4>1, Kept
    <3> QED BY <3>1, <3>2
  <2>9. CASE WaitRenew
    <3>1. GoroutineOK'
      BY <2>9 DEF WaitRenew, GoroutineOK
    <3>2. RowOK' /\ EngineOK' /\ SchedulerOK' /\ HistoryOK'
      <4>1. UNCHANGED <<game, engineVars, schedVars, historyVars>>
        BY <2>9 DEF WaitRenew, engineVars, schedVars, historyVars
      <4> QED BY <4>1, Kept
    <3> QED BY <3>1, <3>2
  <2>10. CASE RoundRearm
    <3>1. GoroutineOK'
      BY <2>10, TimeBounds DEF RoundRearm, GoroutineOK, ctxVars, captureVars, Labels, SchedulerOK
    <3>2. RowOK' /\ EngineOK' /\ SchedulerOK' /\ HistoryOK'
      <4>1. UNCHANGED <<game, engineVars, schedVars, historyVars>>
        BY <2>10 DEF RoundRearm, engineVars, schedVars, historyVars
      <4> QED BY <4>1, Kept
    <3> QED BY <3>1, <3>2
  <2>11. CASE BreakRearm
    <3>1. GoroutineOK'
      BY <2>11, TimeBounds DEF BreakRearm, GoroutineOK, ctxVars, captureVars, Labels, Selects, Waiting, SchedulerOK
    <3>2. RowOK' /\ EngineOK' /\ SchedulerOK' /\ HistoryOK'
      <4>1. UNCHANGED <<game, engineVars, schedVars, historyVars>>
        BY <2>11 DEF BreakRearm, engineVars, schedVars, historyVars
      <4> QED BY <4>1, Kept
    <3> QED BY <3>1, <3>2
  <2>12. CASE RoundEnd
    <3>1. EngineOK'
      BY <2>12 DEF RoundEnd, EngineOK, Phases
    <3>2. GoroutineOK'
      BY <2>12 DEF RoundEnd, GoroutineOK, ctxVars, captureVars, Labels
    <3>3. HistoryOK'
      BY <2>12 DEF RoundEnd, HistoryOK, Cross, EngineOK
    <3>4. RowOK' /\ SchedulerOK'
      <4>1. UNCHANGED <<game, schedVars>>
        BY <2>12 DEF RoundEnd, schedVars
      <4> QED BY <4>1, Kept
    <3> QED BY <3>1, <3>2, <3>3, <3>4
  <2>13. CASE AfterRoundEnd
    <3>1. EngineOK'
      BY <2>13 DEF AfterRoundEnd, EngineOK, Phases
    <3>2. GoroutineOK'
      BY <2>13 DEF AfterRoundEnd, GoroutineOK, ctxVars, captureVars, Labels
    <3>3. RowOK' /\ SchedulerOK' /\ HistoryOK'
      <4>1. UNCHANGED <<game, schedVars, historyVars>>
        BY <2>13 DEF AfterRoundEnd, schedVars, historyVars
      <4> QED BY <4>1, Kept
    <3> QED BY <3>1, <3>2, <3>3
  <2>14. CASE FinishGame
    <3>1. RowOK'
      BY <2>14 DEF FinishGame, RowOK, Phases, Statuses
    <3>2. EngineOK'
      BY <2>14 DEF FinishGame, EngineOK, Phases
    <3>3. GoroutineOK'
      BY <2>14 DEF FinishGame, GoroutineOK, ctxVars, captureVars, Labels
    <3>4. SchedulerOK' /\ HistoryOK'
      <4>1. UNCHANGED <<schedVars, historyVars>>
        BY <2>14 DEF FinishGame, schedVars, historyVars
      <4> QED BY <4>1, Kept
    <3> QED BY <3>1, <3>2, <3>3, <3>4
  <2>15. CASE BreakSetup
    <3>1. SchedulerOK'
      BY <2>15, TimeBounds DEF BreakSetup, SchedulerOK
    <3>2. GoroutineOK'
      BY <2>15, TimeBounds DEF BreakSetup, GoroutineOK, ctxVars, captureVars, Labels, Selects
    <3>3. RowOK' /\ EngineOK' /\ HistoryOK'
      <4>1. UNCHANGED <<game, engineVars, historyVars>>
        BY <2>15 DEF BreakSetup, engineVars, historyVars
      <4> QED BY <4>1, Kept
    <3> QED BY <3>1, <3>2, <3>3
  <2>16. CASE RoundNext
    <3>1. SchedulerOK'
      BY <2>16, TimeBounds DEF RoundNext, SchedulerOK
    <3>2. GoroutineOK'
      BY <2>16, TimeBounds DEF RoundNext, GoroutineOK, ctxVars, captureVars, Labels
    <3>3. RowOK' /\ EngineOK' /\ HistoryOK'
      <4>1. UNCHANGED <<game, engineVars, historyVars>>
        BY <2>16 DEF RoundNext, engineVars, historyVars
      <4> QED BY <4>1, Kept
    <3> QED BY <3>1, <3>2, <3>3
  <2>17. CASE RoundStart
    <3> USE DEF TypeOK, RowOK, EngineOK, SchedulerOK, GoroutineOK, HistoryOK
    <3>1. since' \in 0..Horizon
      BY <2>17, HorizonBounds, DurationAssumption DEF RoundStart, Smaller
    <3>2. currentRound + 1 \in Rounds
      BY <2>17, DurationAssumption DEF RoundStart, ScoreInv, Scored, Rounds
    <3>3. RowOK'
      BY <2>17, <3>2 DEF RoundStart, OnRoundStart, Phases
    <3>4. EngineOK'
      BY <2>17, <3>2 DEF RoundStart, OnRoundStart, Phases
    <3>5. SchedulerOK' /\ GoroutineOK'
      BY <2>17, <3>1 DEF RoundStart, Labels, ctxVars, captureVars
    <3>6. HistoryOK'
      <4>1. crossed' \in Nat
        BY <2>17 DEF RoundStart, Cross
      <4>2. /\ played' = 0 /\ lost' = 0 /\ unheard' = FALSE /\ usedUp' = FALSE
              /\ UNCHANGED <<restored, lastScored>>
        BY <2>17 DEF RoundStart, OnRoundStart
      <4> QED BY <4>1, <4>2
    <3> QED BY <3>3, <3>4, <3>5, <3>6
  <2>18. CASE RoundFresh
    <3>1. SchedulerOK'
      BY <2>18, TimeBounds DEF RoundFresh, SchedulerOK
    <3>2. GoroutineOK'
      BY <2>18, TimeBounds DEF RoundFresh, GoroutineOK, ctxVars, captureVars, Labels
    <3>3. RowOK' /\ EngineOK' /\ HistoryOK'
      <4>1. UNCHANGED <<game, engineVars, historyVars>>
        BY <2>18 DEF RoundFresh, engineVars, historyVars
      <4> QED BY <4>1, Kept
    <3> QED BY <3>1, <3>2, <3>3
  <2> QED
    BY <1>6, <2>1, <2>2, <2>3, <2>4, <2>5, <2>6, <2>7, <2>8, <2>9, <2>10, <2>11, <2>12,
       <2>13, <2>14, <2>15, <2>16, <2>17, <2>18 DEF Run
<1>7. CASE Tick
  <2> USE DEF TypeOK, RowOK, EngineOK, SchedulerOK, GoroutineOK, HistoryOK
  <2>1. since' \in 0..Horizon
    BY <1>7, Bounded, HorizonBounds DEF Tick
  <2> QED
    BY <1>7, <2>1, HorizonBounds DEF Tick, engineVars, ctxVars, captureVars, Off
<1>8. CASE UNCHANGED vars
  <2>1. GoroutineOK'
    BY <1>8 DEF TypeOK, GoroutineOK, vars, ctxVars, captureVars
  <2> QED BY <1>8, <2>1, Kept DEF TypeOK, vars
<1> QED
  BY <1>1, <1>2, <1>3, <1>4, <1>5, <1>6, <1>7, <1>8 DEF Next, Engine

\* Each step leaves the goroutine at a place that tells the rounds scored.
LEMMA ScoreStep == ASSUME TypeOK, ScoreInv, EngineInv, [Next]_vars PROVE ScoreInv'
<1> USE DEF ScoreInv
<1>0. /\ game.round \in Int /\ currentRound \in Int /\ lastScored \in Int
      /\ TotalRounds \in Nat \ {0}
      /\ game.round \in 0..TotalRounds /\ currentRound \in 0..TotalRounds
      /\ lastScored \in 0..TotalRounds
      /\ game = [status |-> game.status, phase |-> game.phase, round |-> game.round]
  BY DurationAssumption DEF TypeOK, RowOK, EngineOK, HistoryOK, Rounds
<1>1. CASE EngineStart
  <2>1. game.round = 0 /\ ~restored /\ lastScored = 0
    BY <1>0, <1>1 DEF EngineStart, EngineInv
  <2>2. /\ game' = [status |-> "running", phase |-> "running", round |-> 1]
        /\ currentRound' = 1 /\ lastScored' = lastScored /\ pc' = "init"
    BY <1>0, <1>1 DEF EngineStart, OnRoundStart
  <2> QED BY <1>0, <2>1, <2>2 DEF Unscored, Scored
<1>2. CASE EngineRestore
  <2>1. restored /\ restored' = restored /\ lastScored' = lastScored /\ pc' = "init"
    BY <1>2 DEF EngineRestore, EngineInv, historyVars
  <2>2. CASE game.round = 0
    <3>1. game'.round = 1 /\ currentRound' = 1 /\ lastScored = 0
      BY <1>0, <1>2, <2>2 DEF EngineRestore
    <3> QED BY <2>1, <3>1 DEF Unscored, Scored
  <2>3. CASE game.round # 0
    <3>1. game'.round = game.round /\ currentRound' = game.round
      BY <1>0, <1>2, <2>3 DEF EngineRestore
    <3> QED BY <1>0, <2>1, <2>3, <3>1 DEF Unscored, Scored
  <2> QED BY <2>2, <2>3
<1>3. CASE EnginePause
  BY <1>0, <1>3 DEF EnginePause
<1>4. CASE EngineResume
  BY <1>0, <1>4 DEF EngineResume
<1>5. CASE EngineStop
  BY <1>0, <1>5 DEF EngineStop, historyVars
<1>6. CASE Run
  <2> USE <1>0 DEF Goto, Unscored, Scored, engineVars, historyVars
  <2>1. CASE RunInit BY <2>1 DEF RunInit
  <2>2. CASE RunArm BY <2>2 DEF RunArm
  <2>3. CASE RunTop BY <2>3 DEF RunTop
  <2>4. CASE SelectCancelled BY <2>4 DEF SelectCancelled, Selects
  <2>5. CASE SelectPaused BY <2>5 DEF SelectPaused, Selects
  <2>6. CASE SelectFired BY <2>6 DEF SelectFired, Selects
  <2>7. CASE WaitOver BY <2>7 DEF WaitOver, AfterWait, Waiting
  <2>8. CASE WaitCancelled BY <2>8 DEF WaitCancelled, Waiting
  <2>9. CASE WaitRenew BY <2>9 DEF WaitRenew
  <2>10. CASE RoundRearm BY <2>10 DEF RoundRearm
  <2>11. CASE BreakRearm BY <2>11 DEF BreakRearm
  <2>12. CASE RoundEnd BY <2>12 DEF RoundEnd
  <2>13. CASE AfterRoundEnd BY <2>13 DEF AfterRoundEnd
  <2>14. CASE FinishGame BY <2>14 DEF FinishGame
  <2>15. CASE BreakSetup BY <2>15 DEF BreakSetup
  <2>16. CASE RoundNext BY <2>16 DEF RoundNext
  <2>17. CASE RoundStart BY <2>17 DEF RoundStart, OnRoundStart
  <2>18. CASE RoundFresh BY <2>18 DEF RoundFresh
  <2> QED
    BY <1>6, <2>1, <2>2, <2>3, <2>4, <2>5, <2>6, <2>7, <2>8, <2>9, <2>10, <2>11, <2>12,
       <2>13, <2>14, <2>15, <2>16, <2>17, <2>18 DEF Run
<1>7. CASE Tick
  BY <1>7 DEF Tick, engineVars
<1>8. CASE UNCHANGED vars
  BY <1>8 DEF vars, engineVars, historyVars
<1> QED
  BY <1>1, <1>2, <1>3, <1>4, <1>5, <1>6, <1>7, <1>8 DEF Next, Engine

\* The row, the engine and the manager stay in agreement.
LEMMA EngineStep == ASSUME TypeOK, ScoreInv, EngineInv, [Next]_vars PROVE EngineInv'
<1> USE DEF EngineInv
<1>0. /\ running \in BOOLEAN /\ healthChecking \in BOOLEAN /\ paused \in BOOLEAN
      /\ managed \in BOOLEAN /\ runDone \in BOOLEAN
      /\ game = [status |-> game.status, phase |-> game.phase, round |-> game.round]
  BY DEF TypeOK, RowOK, EngineOK, SchedulerOK, GoroutineOK
<1>1. CASE EngineStart
  BY <1>0, <1>1 DEF EngineStart, OnRoundStart, schedVars, ctxVars
<1>2. CASE EngineRestore
  <2>1. game'.status = "running"
    <3>1. CASE game.round = 0
      BY <1>2, <3>1 DEF EngineRestore
    <3>2. CASE game.round # 0
      BY <1>0, <1>2, <3>2 DEF EngineRestore
    <3> QED BY <3>1, <3>2
  <2> QED BY <1>0, <1>2, <2>1 DEF EngineRestore, schedVars, ctxVars
<1>3. CASE EnginePause
  BY <1>0, <1>3 DEF EnginePause, SchedulerPause
<1>4. CASE EngineResume
  BY <1>0, <1>4 DEF EngineResume
<1>5. CASE EngineStop
  BY <1>0, <1>5 DEF EngineStop, schedVars
<1>6. CASE Run
  <2> USE <1>0 DEF Goto, engineVars, schedVars, ctxVars, captureVars, historyVars
  <2>1. CASE RunInit BY <2>1 DEF RunInit
  <2>2. CASE RunArm BY <2>2 DEF RunArm
  <2>3. CASE RunTop BY <2>3 DEF RunTop
  <2>4. CASE SelectCancelled BY <2>4 DEF SelectCancelled, Selects
  <2>5. CASE SelectPaused BY <2>5 DEF SelectPaused, Selects
  <2>6. CASE SelectFired BY <2>6 DEF SelectFired, Selects
  <2>7. CASE WaitOver BY <2>7 DEF WaitOver, AfterWait, Waiting
  <2>8. CASE WaitCancelled BY <2>8 DEF WaitCancelled, Waiting
  <2>9. CASE WaitRenew BY <2>9 DEF WaitRenew
  <2>10. CASE RoundRearm BY <2>10 DEF RoundRearm
  <2>11. CASE BreakRearm BY <2>11 DEF BreakRearm
  <2>12. CASE RoundEnd BY <2>12 DEF RoundEnd
  <2>13. CASE AfterRoundEnd BY <2>13 DEF AfterRoundEnd
  <2>14. CASE FinishGame BY <2>14 DEF FinishGame, ScoreInv, Scored
  <2>15. CASE BreakSetup BY <2>15 DEF BreakSetup
  <2>16. CASE RoundNext BY <2>16 DEF RoundNext
  <2>17. CASE RoundStart BY <2>17 DEF RoundStart, OnRoundStart
  <2>18. CASE RoundFresh BY <2>18 DEF RoundFresh
  <2> QED
    BY <1>6, <2>1, <2>2, <2>3, <2>4, <2>5, <2>6, <2>7, <2>8, <2>9, <2>10, <2>11, <2>12,
       <2>13, <2>14, <2>15, <2>16, <2>17, <2>18 DEF Run
<1>7. CASE Tick
  BY <1>7 DEF Tick, engineVars, ctxVars
<1>8. CASE UNCHANGED vars
  BY <1>8 DEF vars, engineVars, schedVars, ctxVars, captureVars, historyVars
<1> QED
  BY <1>1, <1>2, <1>3, <1>4, <1>5, <1>6, <1>7, <1>8 DEF Next, Engine

\* A round end or start is counted at most once between a Pause and a Resume.
LEMMA BoundaryStep == ASSUME TypeOK, BoundaryInv, EngineInv, [Next]_vars PROVE BoundaryInv'
<1> USE DEF BoundaryInv
<1>0. crossed \in Nat /\ paused \in BOOLEAN
  BY DEF TypeOK, SchedulerOK, HistoryOK
<1>1. CASE EngineStart
  BY <1>0, <1>1 DEF EngineStart, EngineInv, schedVars
<1>2. CASE EngineRestore
  BY <1>0, <1>2 DEF EngineRestore, EngineInv, schedVars
<1>3. CASE EnginePause
  <2>1. ~paused
    BY <1>3 DEF EnginePause, EngineInv
  <2>2. crossed' = 0
    BY <1>3, <2>1 DEF EnginePause, SchedulerPause
  <2> QED BY <2>2
<1>4. CASE EngineResume
  BY <1>0, <1>4 DEF EngineResume
<1>5. CASE EngineStop
  BY <1>0, <1>5 DEF EngineStop, schedVars, historyVars
<1>6. CASE Run
  <2> USE <1>0 DEF Goto, schedVars, historyVars
  <2>1. CASE RunInit BY <2>1 DEF RunInit
  <2>2. CASE RunArm BY <2>2 DEF RunArm
  <2>3. CASE RunTop BY <2>3 DEF RunTop
  <2>4. CASE SelectCancelled BY <2>4 DEF SelectCancelled
  <2>5. CASE SelectPaused BY <2>5 DEF SelectPaused
  <2>6. CASE SelectFired BY <2>6 DEF SelectFired
  <2>7. CASE WaitOver BY <2>7 DEF WaitOver
  <2>8. CASE WaitCancelled BY <2>8 DEF WaitCancelled
  <2>9. CASE WaitRenew BY <2>9 DEF WaitRenew, Waiting
  <2>10. CASE RoundRearm BY <2>10 DEF RoundRearm
  <2>11. CASE BreakRearm BY <2>11 DEF BreakRearm
  <2>12. CASE RoundEnd BY <2>12 DEF RoundEnd, Cross
  <2>13. CASE AfterRoundEnd BY <2>13 DEF AfterRoundEnd
  <2>14. CASE FinishGame BY <2>14 DEF FinishGame
  <2>15. CASE BreakSetup BY <2>15 DEF BreakSetup
  <2>16. CASE RoundNext BY <2>16 DEF RoundNext
  <2>17. CASE RoundStart BY <2>17 DEF RoundStart, Cross
  <2>18. CASE RoundFresh BY <2>18 DEF RoundFresh
  <2> QED
    BY <1>6, <2>1, <2>2, <2>3, <2>4, <2>5, <2>6, <2>7, <2>8, <2>9, <2>10, <2>11, <2>12,
       <2>13, <2>14, <2>15, <2>16, <2>17, <2>18 DEF Run
<1>7. CASE Tick
  BY <1>7 DEF Tick
<1>8. CASE UNCHANGED vars
  BY <1>8 DEF vars, schedVars, historyVars
<1> QED
  BY <1>1, <1>2, <1>3, <1>4, <1>5, <1>6, <1>7, <1>8 DEF Next, Engine

-----------------------------------------------------------------------------
IInv == TypeOK /\ ScoreInv /\ EngineInv /\ BoundaryInv

LEMMA InitIInv == Init => IInv
<1> SUFFICES ASSUME Init PROVE IInv
  OBVIOUS
<1>1. TypeOK
  <2>0. 0 \in Rounds
    BY DurationAssumption DEF Rounds
  <2>1. RowOK
    BY <2>0 DEF Init, RowOK, Statuses, Phases
  <2>2. HistoryOK
    BY <2>0 DEF Init, HistoryOK
  <2>3. EngineOK
    BY <2>0 DEF Init, EngineOK, Phases
  <2>4. SchedulerOK
    <3>1. Horizon \in 0..Horizon
      BY HorizonBounds
    <3> QED BY <3>1, TimeBounds DEF Init, SchedulerOK
  <2>5. GoroutineOK
    BY DEF Init, GoroutineOK, Labels
  <2> QED BY <2>1, <2>2, <2>3, <2>4, <2>5 DEF TypeOK
<1>2. ScoreInv
  BY DEF Init, ScoreInv, Unscored, Scored
<1>3. EngineInv
  BY DEF Init, EngineInv
<1>4. BoundaryInv
  BY DEF Init, BoundaryInv
<1> QED BY <1>1, <1>2, <1>3, <1>4 DEF IInv

\* The invariant that carries all the theorems below.
LEMMA Inductive == Spec => []IInv
<1>1. IInv /\ [Next]_vars => IInv'
  BY TypeStep, ScoreStep, EngineStep, BoundaryStep DEF IInv
<1> QED BY InitIInv, <1>1, PTL DEF Spec

\* Every variable keeps its type: no round beyond the last is ever started and
\* no timer is set beyond the durations of the game.
THEOREM TypeCorrect == Spec => []TypeOK
  BY Inductive, PTL DEF IInv

\* Every round that is scored is scored once and after all earlier ones, and a
\* round is opened only when the current one is scored.
THEOREM ScoredOnce == Spec => []EachRoundScoredOnce
<1>1. IInv => EachRoundScoredOnce
  BY DEF IInv, ScoreInv, EachRoundScoredOnce, Unscored, Scored
<1> QED BY <1>1, Inductive, PTL

\* A game that ends by itself has had every one of its rounds scored.
THEOREM FinishScored == Spec => []FinishedGameIsFullyScored
<1>1. IInv => FinishedGameIsFullyScored
  BY DEF IInv, EngineInv, FinishedGameIsFullyScored
<1> QED BY <1>1, Inductive, PTL

\* While the manager has the engine, it and the row agree.
THEOREM RowMatches == Spec => []EngineMatchesRow
<1>1. IInv => EngineMatchesRow
  BY DEF IInv, EngineInv, ScoreInv, EngineMatchesRow
<1> QED BY <1>1, Inductive, PTL

\* A Pause is overtaken by at most one round end or round start.
THEOREM OneBoundary == Spec => []OneBoundaryPerPause
<1>1. IInv => OneBoundaryPerPause
  BY DEF IInv, BoundaryInv, OneBoundaryPerPause
<1> QED BY <1>1, Inductive, PTL

\* The initial row maps to an initial sequence.
LEMMA RefineInit == Init => Rounds_!Init
  BY DurationAssumption DEF Init, Rounds_!Init, Rounds

\* Each step of the engine opens a round, scores one, ends the sequence or
\* leaves it alone.
LEMMA RefineStep ==
  ASSUME IInv, IInv', [Next]_vars PROVE [Rounds_!Next]_(Rounds_!seqVars)
<1> DEFINE outcome == IF pc # "done" THEN "open" ELSE IF managed THEN "complete" ELSE "aborted"
<1>0. /\ game.round \in 0..TotalRounds /\ lastScored \in 0..TotalRounds
      /\ currentRound \in 0..TotalRounds /\ TotalRounds \in Nat \ {0}
      /\ game = [status |-> game.status, phase |-> game.phase, round |-> game.round]
  BY DurationAssumption DEF IInv, TypeOK, RowOK, EngineOK, HistoryOK, Rounds
<1>1. \/ UNCHANGED <<game.round, lastScored, outcome>>
      \/ Rounds_!Next
  <2>1. CASE EngineStart
    <3>1. game.round = 0 /\ lastScored = 0
      BY <1>0, <2>1 DEF EngineStart, IInv, EngineInv, ScoreInv
    <3>2. game'.round = 1 /\ lastScored' = lastScored /\ pc = "absent" /\ pc' = "init"
      BY <1>0, <2>1 DEF EngineStart, OnRoundStart
    <3> QED BY <1>0, <3>1, <3>2 DEF Rounds_!Next, Rounds_!OpenRound
  <2>2. CASE EngineRestore
    <3>1. lastScored' = lastScored /\ pc = "absent" /\ pc' = "init"
      BY <2>2 DEF EngineRestore, historyVars
    <3>2. CASE game.round = 0
      <4>1. game'.round = 1
        BY <2>2, <3>2 DEF EngineRestore
      <4>2. lastScored = 0
        BY <1>0, <3>2 DEF IInv, ScoreInv
      <4> QED BY <1>0, <3>1, <3>2, <4>1, <4>2 DEF Rounds_!Next, Rounds_!OpenRound
    <3>3. CASE game.round # 0
      <4>1. game'.round = game.round
        BY <1>0, <2>2, <3>3 DEF EngineRestore
      <4> QED BY <3>1, <4>1
    <3> QED BY <3>2, <3>3
  <2>3. CASE EnginePause
    BY <1>0, <2>3 DEF EnginePause
  <2>4. CASE EngineResume
    BY <1>0, <2>4 DEF EngineResume
  <2>5. CASE EngineStop
    <3>1. pc # "done" /\ pc' = pc /\ game'.round = game.round /\ lastScored' = lastScored
      BY <1>0, <2>5 DEF EngineStop, IInv, EngineInv, historyVars
    <3> QED BY <3>1
  <2>6. CASE Run
    <3> USE <1>0 DEF Goto, historyVars
    <3>1. CASE SelectCancelled \/ WaitCancelled
      <4>1. ~managed /\ pc # "done" /\ pc' = "done"
        BY <3>1 DEF SelectCancelled, WaitCancelled, IInv, EngineInv, Selects, Waiting
      <4>2. UNCHANGED <<game, lastScored, managed>>
        BY <3>1 DEF SelectCancelled, WaitCancelled, engineVars
      <4> QED BY <4>1, <4>2 DEF Rounds_!Next, Rounds_!Abort
    <3>2. CASE FinishGame
      <4>1. lastScored = TotalRounds
        BY <3>2 DEF FinishGame, IInv, ScoreInv, Scored
      <4>2. /\ pc # "done" /\ pc' = "done" /\ lastScored' = lastScored
            /\ managed' = managed /\ game'.round = game.round
        BY <3>2 DEF FinishGame
      <4> QED BY <4>1, <4>2 DEF Rounds_!Next, Rounds_!Abort, Rounds_!Complete
    <3>3. CASE RoundEnd
      <4>1. currentRound = game.round /\ lastScored \in {currentRound - 1, currentRound}
        BY <3>3 DEF RoundEnd, IInv, ScoreInv
      <4>2. lastScored' = currentRound /\ game' = game /\ pc = "end" /\ pc' = "after"
        BY <3>3 DEF RoundEnd
      <4> QED BY <4>1, <4>2 DEF Rounds_!Next, Rounds_!ScoreRound
    <3>4. CASE RoundStart
      <4>1. currentRound = game.round /\ lastScored = currentRound /\ currentRound < TotalRounds
        BY <3>4 DEF RoundStart, IInv, ScoreInv, Scored
      <4>2. /\ game'.round = currentRound + 1 /\ lastScored' = lastScored
            /\ pc = "start" /\ pc' = "fresh"
        BY <3>4 DEF RoundStart, OnRoundStart
      <4> QED BY <4>1, <4>2 DEF Rounds_!Next, Rounds_!OpenRound
    <3>5. CASE RunInit
      BY <3>5 DEF RunInit, engineVars
    <3>6. CASE RunArm
      BY <3>6 DEF RunArm, engineVars
    <3>7. CASE RunTop
      BY <3>7 DEF RunTop, engineVars
    <3>8. CASE SelectPaused
      BY <3>8 DEF SelectPaused, engineVars, Selects
    <3>9. CASE SelectFired
      BY <3>9 DEF SelectFired, engineVars, Selects
    <3>10. CASE WaitOver
      BY <3>10 DEF WaitOver, engineVars, AfterWait, Waiting
    <3>11. CASE WaitRenew
      BY <3>11 DEF WaitRenew, engineVars, Waiting
    <3>12. CASE RoundRearm
      BY <3>12 DEF RoundRearm, engineVars
    <3>13. CASE BreakRearm
      BY <3>13 DEF BreakRearm, engineVars
    <3>14. CASE AfterRoundEnd
      BY <3>14 DEF AfterRoundEnd
    <3>15. CASE BreakSetup
      BY <3>15 DEF BreakSetup, engineVars
    <3>16. CASE RoundNext
      BY <3>16 DEF RoundNext, engineVars
    <3>17. CASE RoundFresh
      BY <3>17 DEF RoundFresh, engineVars
    <3> QED
      BY <2>6, <3>1, <3>2, <3>3, <3>4, <3>5, <3>6, <3>7, <3>8, <3>9, <3>10, <3>11, <3>12,
         <3>13, <3>14, <3>15, <3>16, <3>17 DEF Run
  <2>7. CASE Tick
    BY <2>7 DEF Tick, engineVars
  <2>8. CASE UNCHANGED vars
    BY <2>8 DEF vars, engineVars, historyVars
  <2> QED
    BY <2>1, <2>2, <2>3, <2>4, <2>5, <2>6, <2>7, <2>8 DEF Next, Engine
<1> QED BY <1>1 DEF Rounds_!seqVars

\* Scheduler, engine and manager together implement a round sequence.
THEOREM Refinement == Spec => ImplementsRoundSequence
<1>1. IInv /\ IInv' /\ [Next]_vars => [Rounds_!Next]_(Rounds_!seqVars)
  BY RefineStep
<1> QED BY RefineInit, <1>1, Inductive, PTL DEF Spec, ImplementsRoundSequence, Rounds_!Spec
-----------------------------------------------------------------------------
(***************************************************************************)
(* The time of a round.  since runs on while the scheduler is paused, and  *)
(* is taken off the remaining time when a Pause comes; Unspent is what has *)
(* not been taken off yet.                                                 *)
(***************************************************************************)
Cut == pauseDone /\ ~paused
Unspent == IF paused THEN 0 ELSE since
Timed == {"top", "select", "waitRound", "rearm"}
Ran == played + lost

\* The goroutine waits for a context that no Pause and no Resume will cancel: the
\* one Run made during a pause, current or replaced.
Unhearing == pc = "select" /\ (deaf \/ (paused /\ ~pauseDone))

\* Which pauses the goroutine does not see, and where since starts from 0.
PauseInv ==
  /\ managed /\ ~paused => ~pauseDone
  /\ paused /\ ~pauseDone =>
       pc \in Waiting \cup {"done"} \/ (unheard /\ pc \in {"arm", "top", "select"})
  /\ deaf => ~stale /\ cancels = "resume" /\ ~runDone
  /\ Unhearing => unheard /\ ~stale
  /\ inBreak => pc \in {"breakSelect", "waitBreak", "breakRearm", "gateStart", "next", "done"}
  /\ pc \in {"absent", "init", "arm"} => remainingRoundTime = 0 /\ Ran = 0
  /\ pc = "absent" => ~pauseDone
  /\ pc \in {"arm", "start"} => paused \/ since = 0
  /\ pc = "fresh" => Ran = 0 /\ Unspent <= MaxFlagWrite
  /\ pc \in {"waitRound", "rearm"} => paused \/ Cut \/ since = 0
  /\ pc = "select" /\ stale => paused \/ Cut \/ since = 0

\* The remaining time is not what the goroutine goes by: it does not hear of
\* pauses, or it was stopped and will not get out of its loop, or its wait.
Adrift ==
  \/ Unhearing \/ Cut
  \/ paused /\ ~managed /\ pc \in {"select", "waitRound"}

\* The time the timer has run and the time remaining add up to the round, less what
\* the flags took, from the first timer of the round to the last.
TimeInv ==
  /\ Ran <= RoundDuration
  /\ lost > 0 => unheard
  /\ pc \in Timed /\ remainingRoundTime > 0 =>
       Ran + remainingRoundTime >= RoundDuration - MaxFlagWrite + Unspent
  /\ pc \in Timed =>
       \/ Adrift \/ (~paused /\ since >= remainingRoundTime)
       \/ Ran + remainingRoundTime <= RoundDuration + Unspent
  /\ pc \in {"top", "select"} =>
       IF timer = Off THEN remainingRoundTime = 0
       ELSE /\ Ran + timer >= RoundDuration - MaxFlagWrite
            /\ (Cut /\ ~Unhearing) \/ Ran + timer <= RoundDuration
  /\ pc \in {"gateEnd", "end"} => Ran >= RoundDuration - MaxFlagWrite

LEMMA PauseStep == ASSUME TypeOK, EngineInv, PauseInv, [Next]_vars PROVE PauseInv'
<1> USE DEF PauseInv, Cut, Unspent, Ran, Unhearing
<1>0. /\ paused \in BOOLEAN /\ pauseDone \in BOOLEAN /\ managed \in BOOLEAN /\ inBreak \in BOOLEAN
      /\ unheard \in BOOLEAN /\ stale \in BOOLEAN /\ deaf \in BOOLEAN /\ runDone \in BOOLEAN
      /\ since \in Nat /\ remainingRoundTime \in Nat /\ played \in Nat /\ lost \in Nat
      /\ MaxFlagWrite \in Nat
  BY HorizonBounds, DurationAssumption
  DEF TypeOK, EngineOK, SchedulerOK, GoroutineOK, HistoryOK
<1>1. CASE EngineStart
  BY <1>0, <1>1 DEF EngineStart, OnRoundStart, EngineInv, schedVars, ctxVars, captureVars
<1>2. CASE EngineRestore
  BY <1>0, <1>2 DEF EngineRestore, EngineInv, schedVars, ctxVars, captureVars, historyVars
<1>3. CASE EnginePause
  <2>1. /\ paused' /\ pauseDone' /\ ~paused /\ pc # "absent"
        /\ UNCHANGED <<managed, inBreak, since, captureVars, cancels, runDone, unheard, pc, played, lost>>
    BY <1>0, <1>3 DEF EnginePause, SchedulerPause, EngineInv
  <2>2. ASSUME pc \in {"absent", "init", "arm"}
        PROVE  remainingRoundTime' = 0
    <3>1. ~inBreak /\ remainingRoundTime = 0
      BY <2>2
    <3>2. remainingRoundTime' = Larger(0, remainingRoundTime - since)
      BY <1>3, <2>1, <3>1 DEF EnginePause, SchedulerPause
    <3> QED BY <1>0, <3>1, <3>2 DEF Larger
  <2> QED BY <1>0, <2>1, <2>2 DEF captureVars
<1>4. CASE EngineResume
  BY <1>0, <1>4 DEF EngineResume, EngineInv, CaptureDone, captureVars, Waiting
<1>5. CASE EngineStop
  BY <1>0, <1>5 DEF EngineStop, EngineInv, schedVars, captureVars, historyVars
<1>6. CASE Run
  <2> USE <1>0 DEF Goto, engineVars, schedVars, ctxVars, captureVars, historyVars
  <2>1. CASE RunInit BY <2>1 DEF RunInit, EngineInv
  <2>2. CASE RunArm BY <2>2 DEF RunArm, Waiting
  <2>3. CASE RunTop BY <2>3 DEF RunTop, Waiting
  <2>4. CASE SelectCancelled BY <2>4 DEF SelectCancelled, Selects
  <2>5. CASE SelectPaused BY <2>5 DEF SelectPaused, Selects, CaptureDone, Waiting
  <2>6. CASE SelectFired BY <2>6 DEF SelectFired, Selects, Waiting
  <2>7. CASE WaitOver BY <2>7 DEF WaitOver, AfterWait, Waiting
  <2>8. CASE WaitCancelled BY <2>8 DEF WaitCancelled, Waiting
  <2>9. CASE WaitRenew BY <2>9 DEF WaitRenew, Waiting
  <2>10. CASE RoundRearm BY <2>10 DEF RoundRearm, Waiting
  <2>11. CASE BreakRearm BY <2>11 DEF BreakRearm, Waiting
  <2>12. CASE RoundEnd BY <2>12 DEF RoundEnd, Waiting
  <2>13. CASE AfterRoundEnd BY <2>13 DEF AfterRoundEnd, Waiting
  <2>14. CASE FinishGame BY <2>14 DEF FinishGame, Waiting
  <2>15. CASE BreakSetup BY <2>15 DEF BreakSetup, Waiting
  <2>16. CASE RoundNext BY <2>16 DEF RoundNext, Waiting
  <2>17. CASE RoundStart
    <3>1. ~paused => since' <= MaxFlagWrite
      <4>1. PICK d \in 0..MaxFlagWrite : since' = Smaller(Horizon, since + d)
        BY <2>17 DEF RoundStart
      <4>2. ~paused => since + d <= MaxFlagWrite
        BY <2>17, <4>1 DEF RoundStart
      <4> QED BY <4>1, <4>2, HorizonBounds DEF Smaller
    <3> QED BY <2>17, <3>1 DEF RoundStart, OnRoundStart, Waiting
  <2>18. CASE RoundFresh BY <2>18 DEF RoundFresh, Waiting
  <2> QED
    BY <1>6, <2>1, <2>2, <2>3, <2>4, <2>5, <2>6, <2>7, <2>8, <2>9, <2>10, <2>11, <2>12,
       <2>13, <2>14, <2>15, <2>16, <2>17, <2>18 DEF Run
<1>7. CASE Tick
  BY <1>0, <1>7 DEF Tick, Blocked, Waiting, Selects, CaptureDone, engineVars, ctxVars, captureVars, historyVars
<1>8. CASE UNCHANGED vars
  BY <1>0, <1>8 DEF vars, engineVars, schedVars, ctxVars, captureVars, historyVars
<1> QED
  BY <1>1, <1>2, <1>3, <1>4, <1>5, <1>6, <1>7, <1>8 DEF Next, Engine

\* The time of a round is accounted for at every step.
LEMMA TimeStep ==
  ASSUME TypeOK, EngineInv, PauseInv, PauseInv', TimeInv, [Next]_vars PROVE TimeInv'
<1> USE DEF TimeInv, Timed, Cut, Unspent, Ran, Unhearing, Adrift
<1>0. /\ paused \in BOOLEAN /\ pauseDone \in BOOLEAN /\ managed \in BOOLEAN /\ inBreak \in BOOLEAN
      /\ unheard \in BOOLEAN /\ stale \in BOOLEAN /\ deaf \in BOOLEAN
      /\ since \in Nat /\ remainingRoundTime \in Nat /\ remainingRoundTime <= RoundDuration
      /\ played \in Nat /\ lost \in Nat /\ MaxFlagWrite \in Nat /\ RoundDuration \in Nat
      /\ timer \in Int /\ (timer # Off => timer >= 0) /\ Off = -1
  BY HorizonBounds, DurationAssumption
  DEF TypeOK, EngineOK, SchedulerOK, GoroutineOK, HistoryOK, Off
<1>1. CASE EngineStart
  BY <1>0, <1>1 DEF EngineStart, OnRoundStart
<1>2. CASE EngineRestore
  BY <1>0, <1>2 DEF EngineRestore, historyVars
<1>3. CASE EnginePause
  <2>1. /\ paused' /\ ~paused /\ pauseDone' /\ ~Cut
        /\ UNCHANGED <<managed, captureVars, unheard, pc, timer, played, lost>>
        /\ inBreak => UNCHANGED remainingRoundTime
    BY <1>0, <1>3 DEF EnginePause, SchedulerPause, EngineInv, PauseInv
  <2>2. ~inBreak => remainingRoundTime' = Larger(0, remainingRoundTime - since)
    BY <1>3, <2>1 DEF EnginePause, SchedulerPause
  <2>3. ~inBreak => remainingRoundTime' = IF since >= remainingRoundTime THEN 0
                                          ELSE remainingRoundTime - since
    BY <1>0, <2>2 DEF Larger
  <2>4. pc \in {"top", "select", "waitRound", "rearm"} => ~inBreak
    BY DEF PauseInv
  <2> QED BY <1>0, <2>1, <2>3, <2>4 DEF captureVars
<1>4. CASE EngineResume
  BY <1>0, <1>4 DEF EngineResume, EngineInv, PauseInv, CaptureDone, captureVars
<1>5. CASE EngineStop
  BY <1>0, <1>5 DEF EngineStop, EngineInv, PauseInv, schedVars, captureVars, historyVars
<1>6. CASE Run
  <2> USE <1>0 DEF Goto, engineVars, schedVars, ctxVars, captureVars, historyVars
  <2>1. CASE RunInit BY <2>1 DEF RunInit, PauseInv
  <2>2. CASE RunArm BY <2>2, DurationAssumption DEF RunArm, PauseInv
  <2>3. CASE RunTop BY <2>3 DEF RunTop
  <2>4. CASE SelectCancelled BY <2>4 DEF SelectCancelled
  <2>5. CASE SelectPaused BY <2>5 DEF SelectPaused, Selects, CaptureDone, PauseInv
  <2>6. CASE SelectFired BY <2>6 DEF SelectFired, Selects, Fired
  <2>7. CASE WaitOver BY <2>7 DEF WaitOver, AfterWait, Waiting
  <2>8. CASE WaitCancelled BY <2>8 DEF WaitCancelled
  <2>9. CASE WaitRenew BY <2>9 DEF WaitRenew, Waiting
  <2>10. CASE RoundRearm BY <2>10 DEF RoundRearm, PauseInv
  <2>11. CASE BreakRearm BY <2>11 DEF BreakRearm
  <2>12. CASE RoundEnd BY <2>12 DEF RoundEnd
  <2>13. CASE AfterRoundEnd BY <2>13 DEF AfterRoundEnd
  <2>14. CASE FinishGame BY <2>14 DEF FinishGame
  <2>15. CASE BreakSetup BY <2>15 DEF BreakSetup
  <2>16. CASE RoundNext BY <2>16 DEF RoundNext
  <2>17. CASE RoundStart BY <2>17 DEF RoundStart, OnRoundStart
  <2>18. CASE RoundFresh BY <2>18, DurationAssumption DEF RoundFresh, PauseInv
  <2> QED
    BY <1>6, <2>1, <2>2, <2>3, <2>4, <2>5, <2>6, <2>7, <2>8, <2>9, <2>10, <2>11, <2>12,
       <2>13, <2>14, <2>15, <2>16, <2>17, <2>18 DEF Run
<1>7. CASE Tick
  <2>1. /\ UNCHANGED <<pc, managed, paused, pauseDone, captureVars, remainingRoundTime, unheard>>
        /\ timer' = (IF timer > 0 THEN timer - 1 ELSE timer)
    BY <1>7 DEF Tick, ctxVars, engineVars
  <2>2. IF pc = "select" /\ timer > 0
        THEN IF paused THEN lost' = lost + 1 /\ played' = played
                       ELSE played' = played + 1 /\ lost' = lost
        ELSE played' = played /\ lost' = lost
    BY <1>7 DEF Tick
  <2>3. /\ since' = since + 1 \/ (since' = since /\ since >= remainingRoundTime)
        /\ since' >= since
    BY <1>0, <1>7, HorizonBounds DEF Tick, Smaller, TypeOK, SchedulerOK
  <2>4. pc = "select" => timer # 0 /\ (deaf \/ ~pauseDone)
    BY <1>7 DEF Tick, Blocked, Waiting, Selects, CaptureDone, Fired
  <2>5. pc \in {"top", "waitRound", "rearm", "gateEnd", "end"} =>
          pc \in {"waitRound", "gateEnd"} /\ paused
    BY <1>7 DEF Tick, Blocked, Waiting, Selects
  <2>6. CASE pc # "select"
    BY <1>0, <2>1, <2>2, <2>5, <2>6
  <2>7. CASE pc = "select" /\ timer = Off
    BY <1>0, <2>1, <2>2, <2>3, <2>4, <2>7 DEF captureVars
  <2>8. CASE pc = "select" /\ timer # Off
    <3>1. timer > 0 /\ timer' = timer - 1 /\ timer' # Off
      BY <1>0, <2>1, <2>4, <2>8
    <3>2. (played + lost)' = played + lost + 1
      BY <1>0, <2>2, <2>8, <3>1
    <3>3. CASE paused
      <4>1. Unhearing /\ Unhearing' /\ unheard'
        BY <2>1, <2>4, <2>8, <3>3 DEF PauseInv, captureVars
      <4> QED BY <1>0, <2>1, <2>2, <2>8, <3>1, <3>2, <3>3, <4>1
    <3>4. CASE ~paused
      BY <1>0, <2>1, <2>2, <2>3, <2>4, <2>8, <3>1, <3>2, <3>4 DEF captureVars
    <3> QED BY <3>3, <3>4
  <2> QED BY <2>6, <2>7, <2>8
<1>8. CASE UNCHANGED vars
  BY <1>0, <1>8 DEF vars, engineVars, schedVars, ctxVars, captureVars, historyVars
<1> QED
  BY <1>1, <1>2, <1>3, <1>4, <1>5, <1>6, <1>7, <1>8 DEF Next, Engine

LEMMA TimeInductive == Spec => [](PauseInv /\ TimeInv)
<1>1. Init => PauseInv /\ TimeInv
  BY DurationAssumption
  DEF Init, PauseInv, TimeInv, Timed, Ran, Unhearing
<1>2. IInv /\ PauseInv /\ TimeInv /\ [Next]_vars => PauseInv' /\ TimeInv'
  BY PauseStep, TimeStep DEF IInv
<1> QED BY <1>1, <1>2, Inductive, PTL DEF Spec

\* However often a round is paused and resumed, whatever the durations: its timer
\* runs no longer than the round, and shorter by no more than the writing of its
\* flags took; and it runs during a pause only if Run missed that pause.
THEOREM RoundTime == Spec => []RoundNeitherExtendedNorCut
<1>1. TimeInv => RoundNeitherExtendedNorCut
  BY DEF TimeInv, Ran, RoundNeitherExtendedNorCut
<1> QED BY <1>1, TimeInductive, PTL
-----------------------------------------------------------------------------
(***************************************************************************)
(* The engine of EngineLifecycle.                                          *)
(***************************************************************************)
LEMMA PlaceFacts ==
  /\ Place["absent"] = "none" /\ Place["init"] = "fresh" /\ Place["end"] = "ending"
  /\ Place["after"] = "scored" /\ Place["finish"] = "finishing" /\ Place["done"] = "done"
  /\ Place["next"] = "starting" /\ Place["start"] = "starting"
  /\ \A p \in {"breakSetup", "breakSelect", "waitBreak", "breakRearm", "gateStart"} :
       Place[p] = "break"
  /\ \A p \in {"arm", "top", "select", "waitRound", "rearm", "gateEnd", "fresh"} :
       Place[p] = "round"
  BY DEF Place

\* The goroutine of a stopped engine whose pause context is cancelled, and which was
\* not waiting for its timer when it was stopped.
Halted == Lost /\ ~slip

\* Such a goroutine goes round in its loop: no timer of its has run out, so none
\* lets it through to a gate.
LifeInv ==
  /\ slip \in BOOLEAN
  /\ pc = "absent" => /\ ~running /\ currentRound = 0 /\ cancels = "run"
                      /\ pauseParent = "run" /\ ~slip
  /\ Halted => /\ pc \notin {"gateEnd", "gateStart"}
               /\ pc \in {"top", "select", "breakSelect"} => timer # 0
               /\ pc \in Selects => ~deaf
               /\ pc \in {"breakSelect", "waitBreak", "breakRearm"} => remainingBreakTime > 0

\* What a step does to the history variable.
LEMMA SlipFacts ==
  ASSUME TypeOK, slip \in BOOLEAN, MCNext
  PROVE  /\ slip' \in BOOLEAN
         /\ managed /\ ~managed' => slip' = (Place[pc] \in {"round", "break"})
         /\ ~(managed /\ ~managed') /\ ~(pc \in {"gateEnd", "gateStart"} /\ pc' \in {"end", "next"})
              => slip' = slip
         /\ UNCHANGED managed /\ pc \in {"gateEnd", "gateStart"} /\ pc' \in {"end", "next"}
              => ~slip'
<1> DEFINE waiting == Place[pc] \in {"round", "break"}
           leaving == pc \in {"gateEnd", "gateStart"} /\ pc' \in {"end", "next"}
<1>1. slip' = IF managed /\ ~managed' THEN waiting ELSE slip /\ ~leaving
  BY DEF MCNext
<1>2. waiting \in BOOLEAN /\ leaving \in BOOLEAN /\ managed \in BOOLEAN
  BY DEF TypeOK, EngineOK
<1> HIDE DEF waiting, leaving
<1>3. CASE managed /\ ~managed'
  <2>1. slip' = waiting
    BY <1>1, <1>3, Zenon
  <2> QED BY <1>2, <1>3, <2>1 DEF waiting
<1>4. CASE ~(managed /\ ~managed')
  <2>1. slip' = (slip /\ ~leaving)
    BY <1>1, <1>4, Zenon
  <2>2. /\ slip' \in BOOLEAN
        /\ ~leaving => slip' = slip
        /\ leaving => ~slip'
    <3>1. slip \in BOOLEAN
      OBVIOUS
    <3> QED BY <1>2, <2>1, <3>1
  <2> QED BY <1>4, <2>2 DEF leaving
<1> QED BY <1>3, <1>4

LEMMA LifeStep ==
  ASSUME TypeOK, EngineInv, PauseInv, LifeInv, [MCNext]_<<vars, slip>> PROVE LifeInv'
<1> USE DEF LifeInv, Halted, Lost, Stopped, Cut, Selects
<1>0. /\ paused \in BOOLEAN /\ pauseDone \in BOOLEAN /\ managed \in BOOLEAN
      /\ running \in BOOLEAN /\ runDone \in BOOLEAN /\ slip \in BOOLEAN
      /\ remainingBreakTime \in Nat /\ remainingRoundTime \in Nat
      /\ timer \in Int /\ Off = -1 /\ RoundDuration > 0 /\ BreakDuration > 0
  BY HorizonBounds, DurationAssumption, BreakAssumption
  DEF TypeOK, EngineOK, SchedulerOK, GoroutineOK, Off
<1>1. CASE UNCHANGED <<vars, slip>>
  BY <1>0, <1>1 DEF vars, engineVars, schedVars, ctxVars, captureVars, Selects
<1>2. CASE MCNext
  <2>1. Next
    BY <1>2 DEF MCNext
  <2>2. /\ slip' \in BOOLEAN
        /\ UNCHANGED managed /\ ~slip => ~slip'
    BY <1>0, <1>2, SlipFacts
  <2>3. ASSUME UNCHANGED managed, pc \notin {"gateEnd", "gateStart"}
        PROVE  slip' = slip
    BY <1>2, <2>3, SlipFacts
  <2>5. ASSUME managed, ~managed', pc \notin {"absent", "init", "end", "after", "finish", "next",
                                              "start", "done"}
        PROVE  slip'
    <3>1. Place[pc] \in {"round", "break"}
      BY <2>5, PlaceFacts DEF TypeOK, GoroutineOK, Labels, Waiting, Selects
    <3>2. slip' = (Place[pc] \in {"round", "break"})
      BY <1>2, <2>5, SlipFacts
    <3> QED BY <2>2, <3>1, <3>2
  <2> USE <1>0, <2>2
  <2>7. CASE EngineStart BY <2>7 DEF EngineStart, OnRoundStart, schedVars, ctxVars, captureVars
  <2>8. CASE EngineRestore BY <2>8 DEF EngineRestore, schedVars, ctxVars, captureVars
  <2>9. CASE EnginePause BY <2>9 DEF EnginePause, EngineInv, captureVars
  <2>10. CASE EngineResume BY <2>10 DEF EngineResume, EngineInv
  <2>11. CASE EngineStop BY <2>5, <2>11 DEF EngineStop, EngineInv, schedVars, captureVars
  <2>12. CASE Run
    <3> USE DEF Goto, engineVars, schedVars, ctxVars, captureVars
    <3>1. CASE RunInit BY <2>3, <3>1 DEF RunInit
    <3>2. CASE RunArm BY <2>3, <3>2 DEF RunArm
    <3>3. CASE RunTop BY <2>3, <3>3 DEF RunTop
    <3>4. CASE SelectCancelled BY <3>4 DEF SelectCancelled
    <3>5. CASE SelectPaused BY <2>3, <3>5 DEF SelectPaused, Selects
    <3>6. CASE SelectFired BY <2>3, <3>6 DEF SelectFired, Selects, Fired
    <3>7. CASE WaitOver BY <2>3, <3>7 DEF WaitOver, AfterWait, Waiting
    <3>8. CASE WaitCancelled BY <3>8 DEF WaitCancelled
    <3>9. CASE WaitRenew BY <3>9 DEF WaitRenew, Waiting
    <3>10. CASE RoundRearm BY <2>3, <3>10 DEF RoundRearm
    <3>11. CASE BreakRearm BY <2>3, <3>11 DEF BreakRearm
    <3>12. CASE RoundEnd BY <3>12 DEF RoundEnd
    <3>13. CASE AfterRoundEnd BY <3>13 DEF AfterRoundEnd
    <3>14. CASE FinishGame BY <3>14 DEF FinishGame
    <3>15. CASE BreakSetup BY <2>3, <3>15 DEF BreakSetup
    <3>16. CASE RoundNext BY <3>16 DEF RoundNext
    <3>17. CASE RoundStart BY <3>17 DEF RoundStart, OnRoundStart
    <3>18. CASE RoundFresh BY <2>3, <3>18 DEF RoundFresh
    <3> QED
      BY <2>12, <3>1, <3>2, <3>3, <3>4, <3>5, <3>6, <3>7, <3>8, <3>9, <3>10, <3>11, <3>12,
         <3>13, <3>14, <3>15, <3>16, <3>17, <3>18 DEF Run
  <2>13. CASE Tick
    <3>1. UNCHANGED <<pc, managed, paused, pauseDone, running, currentRound, cancels, pauseParent,
                      remainingBreakTime, deaf>>
      BY <2>13 DEF Tick, engineVars, ctxVars, captureVars
    <3>2. /\ Halted => pc \in {"absent", "done"}
          /\ Cut => pc \notin {"gateEnd", "gateStart"}
      BY <2>13 DEF Tick, Blocked, Waiting, Selects, CaptureDone
    <3>3. pc \notin {"gateEnd", "gateStart"} => slip' = slip
      BY <2>3, <3>1
    <3> QED BY <3>1, <3>2, <3>3
  <2> QED BY <2>1, <2>7, <2>8, <2>9, <2>10, <2>11, <2>12, <2>13 DEF Next, Engine
<1> QED BY <1>1, <1>2

\* The record of an engine, field by field, and the values its operations compute.
EngineOf(r, n, p, a, c, h, d, k, s) ==
  [running |-> r, round |-> n, paused |-> p, at |-> a, cancels |-> c, heeds |-> h,
   runDone |-> d, cut |-> k, slip |-> s]
Yes == TRUE
No  == FALSE
FirstRound(n)    == IF n = 0 THEN 1 ELSE n
HeedsAfter(p, h) == IF p THEN "resume" ELSE h
EndsRun(c)       == c = "run"
CutsPause(p, h, c) == ~p /\ h = c
MaySlip(a)       == a \in {"round", "break"}
CutAtBegin(d, p) == d /\ ~p
PastGate(a)      == IF a = "round" THEN "ending" ELSE "starting"
AfterTest(n)     == IF n >= TotalRounds THEN "finishing" ELSE "break"

LEMMA NoEngineOf ==
  Life!NoEngine = EngineOf(No, 0, No, "none", "run", "run", No, No, No)
  BY DEF EngineOf, Life!NoEngine, No

LEMMA StartedOf ==
  Life!Started = EngineOf(Yes, 1, No, "fresh", "run", "run", No, No, No)
<1>1. Life!Started = [Life!NoEngine EXCEPT !.running = Yes, !.round = 1, !.at = "fresh"]
  BY DEF Life!Started, Yes
<1> QED BY <1>1, NoEngineOf DEF EngineOf

LEMMA RestoredOf ==
  \A n : Life!Restored(n) = EngineOf(Yes, FirstRound(n), No, "fresh", "run", "run", No, No, No)
<1> TAKE n
<1>1. Life!Restored(n) = [Life!Started EXCEPT !.round = FirstRound(n)]
  BY DEF Life!Restored, FirstRound
<1> QED BY <1>1, StartedOf DEF EngineOf

LEMMA PausedOf ==
  \A n, p, a, c, h, d, k, s :
    Life!Paused(EngineOf(Yes, n, p, a, c, h, d, k, s)) =
      EngineOf(No, n, Yes, a, c, "run", d, k, s)
<1> TAKE n, p, a, c, h, d, k, s
<1> DEFINE e == EngineOf(Yes, n, p, a, c, h, d, k, s)
<1>1. e.running = Yes
  BY DEF EngineOf
<1>2. e = [running |-> Yes, round |-> n, paused |-> p, at |-> a, cancels |-> c, heeds |-> h,
           runDone |-> d, cut |-> k, slip |-> s]
  BY DEF EngineOf
<1> HIDE DEF e
<1>4. Life!Paused(e) = [e EXCEPT !.running = No, !.paused = Yes, !.heeds = "run"]
  BY <1>1 DEF Life!Paused, Yes, No
<1>5. Life!Paused(e) = EngineOf(No, n, Yes, a, c, "run", d, k, s)
  BY <1>2, <1>4 DEF EngineOf
<1> QED BY <1>5 DEF e

LEMMA ResumedOf ==
  \A n, p, a, c, h, d, k, s :
    Life!Resumed(EngineOf(No, n, p, a, c, h, d, k, s)) =
      EngineOf(Yes, n, No, a, "resume", HeedsAfter(p, h), d, k, s)
<1> TAKE n, p, a, c, h, d, k, s
<1> DEFINE e == EngineOf(No, n, p, a, c, h, d, k, s)
           h1 == HeedsAfter(p, h)
<1>1. e.running = No /\ e.paused = p /\ e.heeds = h
  BY DEF EngineOf
<1>2. e = [running |-> No, round |-> n, paused |-> p, at |-> a, cancels |-> c, heeds |-> h,
           runDone |-> d, cut |-> k, slip |-> s]
  BY DEF EngineOf
<1>3. h1 = (IF p THEN "resume" ELSE h)
  BY DEF HeedsAfter
<1> HIDE DEF e, h1
<1>4. Life!Resumed(e) = [e EXCEPT !.running = Yes, !.cancels = "resume", !.paused = No, !.heeds = h1]
  BY <1>1, <1>3 DEF Life!Resumed, Yes, No
<1>5. Life!Resumed(e) = EngineOf(Yes, n, No, a, "resume", h1, d, k, s)
  BY <1>2, <1>4 DEF EngineOf
<1> QED BY <1>5 DEF e, h1

LEMMA StoppedOf ==
  \A r, n, p, a, c, h, d, k, s :
    Life!Stopped(EngineOf(r, n, p, a, c, h, d, k, s)) =
      EngineOf(No, n, p, a, c, h, EndsRun(c), CutsPause(p, h, c), MaySlip(a))
<1> TAKE r, n, p, a, c, h, d, k, s
<1> DEFINE e == EngineOf(r, n, p, a, c, h, d, k, s)
           d1 == EndsRun(c)
           k1 == CutsPause(p, h, c)
           s1 == MaySlip(a)
<1>1. e.cancels = c /\ e.paused = p /\ e.heeds = h /\ e.at = a
  BY DEF EngineOf
<1>2. e = [running |-> r, round |-> n, paused |-> p, at |-> a, cancels |-> c, heeds |-> h,
           runDone |-> d, cut |-> k, slip |-> s]
  BY DEF EngineOf
<1>3. d1 = (c = "run") /\ k1 = (~p /\ h = c) /\ s1 = (a \in {"round", "break"})
  BY DEF EndsRun, CutsPause, MaySlip
<1> HIDE DEF e, d1, k1, s1
<1>4. Life!Stopped(e) = [e EXCEPT !.running = No, !.slip = s1, !.runDone = d1, !.cut = k1]
  BY <1>1, <1>3 DEF Life!Stopped, No
<1>5. Life!Stopped(e) = EngineOf(No, n, p, a, c, h, d1, k1, s1)
  BY <1>2, <1>4 DEF EngineOf
<1> QED BY <1>5 DEF e, d1, k1, s1

LEMMA BegunOf ==
  \A r, n, p, a, c, h, d, k, s :
    Life!Begun(EngineOf(r, n, p, a, c, h, d, k, s)) =
      EngineOf(r, n, p, "round", c, "run", d, CutAtBegin(d, p), s)
<1> TAKE r, n, p, a, c, h, d, k, s
<1> DEFINE e == EngineOf(r, n, p, a, c, h, d, k, s)
           k1 == CutAtBegin(d, p)
<1>1. e.runDone = d /\ e.paused = p
  BY DEF EngineOf
<1>2. e = [running |-> r, round |-> n, paused |-> p, at |-> a, cancels |-> c, heeds |-> h,
           runDone |-> d, cut |-> k, slip |-> s]
  BY DEF EngineOf
<1>3. k1 = (d /\ ~p)
  BY DEF CutAtBegin
<1> HIDE DEF e, k1
<1>4. Life!Begun(e) = [e EXCEPT !.at = "round", !.heeds = "run", !.cut = k1]
  BY <1>1, <1>3 DEF Life!Begun
<1>5. Life!Begun(e) = EngineOf(r, n, p, "round", c, "run", d, k1, s)
  BY <1>2, <1>4 DEF EngineOf
<1> QED BY <1>5 DEF e, k1

LEMMA LeftOf ==
  \A r, n, p, a, c, h, d, k, s :
    Life!Left(EngineOf(r, n, p, a, c, h, d, k, s)) =
      EngineOf(r, n, p, PastGate(a), c, h, d, k, No)
<1> TAKE r, n, p, a, c, h, d, k, s
<1> DEFINE e == EngineOf(r, n, p, a, c, h, d, k, s)
           a1 == PastGate(a)
<1>1. e.at = a
  BY DEF EngineOf
<1>2. e = [running |-> r, round |-> n, paused |-> p, at |-> a, cancels |-> c, heeds |-> h,
           runDone |-> d, cut |-> k, slip |-> s]
  BY DEF EngineOf
<1>3. a1 = (IF a = "round" THEN "ending" ELSE "starting")
  BY DEF PastGate
<1> HIDE DEF e, a1
<1>4. Life!Left(e) = [e EXCEPT !.at = a1, !.slip = No]
  BY <1>1, <1>3 DEF Life!Left, No
<1>5. Life!Left(e) = EngineOf(r, n, p, a1, c, h, d, k, No)
  BY <1>2, <1>4 DEF EngineOf
<1> QED BY <1>5 DEF e, a1

LEMMA JudgedOf ==
  \A r, n, p, a, c, h, d, k, s :
    Life!Judged(EngineOf(r, n, p, a, c, h, d, k, s)) =
      EngineOf(r, n, p, AfterTest(n), c, h, d, k, s)
<1> TAKE r, n, p, a, c, h, d, k, s
<1> DEFINE e == EngineOf(r, n, p, a, c, h, d, k, s)
           a1 == AfterTest(n)
<1>1. e.round = n
  BY DEF EngineOf
<1>2. e = [running |-> r, round |-> n, paused |-> p, at |-> a, cancels |-> c, heeds |-> h,
           runDone |-> d, cut |-> k, slip |-> s]
  BY DEF EngineOf
<1>3. a1 = (IF n >= TotalRounds THEN "finishing" ELSE "break")
  BY DEF AfterTest
<1> HIDE DEF e, a1
<1>4. Life!Judged(e) = [e EXCEPT !.at = a1]
  BY <1>1, <1>3 DEF Life!Judged
<1>5. Life!Judged(e) = EngineOf(r, n, p, a1, c, h, d, k, s)
  BY <1>2, <1>4 DEF EngineOf
<1> QED BY <1>5 DEF e, a1

LEMMA RoundStartedOf ==
  \A r, n, p, a, c, h, d, k, s :
    Life!RoundStarted(EngineOf(r, n, p, a, c, h, d, k, s)) =
      EngineOf(r, n + 1, p, "round", c, h, d, k, s)
<1> TAKE r, n, p, a, c, h, d, k, s
<1> DEFINE e == EngineOf(r, n, p, a, c, h, d, k, s)
<1>1. e.round = n
  BY DEF EngineOf
<1>2. e = [running |-> r, round |-> n, paused |-> p, at |-> a, cancels |-> c, heeds |-> h,
           runDone |-> d, cut |-> k, slip |-> s]
  BY DEF EngineOf
<1> HIDE DEF e
<1>4. Life!RoundStarted(e) = [e EXCEPT !.at = "round", !.round = n + 1]
  BY <1>1 DEF Life!RoundStarted
<1>5. Life!RoundStarted(e) = EngineOf(r, n + 1, p, "round", c, h, d, k, s)
  BY <1>2, <1>4 DEF EngineOf
<1> QED BY <1>5 DEF e

LEMMA RoundEndedOf ==
  \A r, n, p, a, c, h, d, k, s :
    Life!RoundEnded(EngineOf(r, n, p, a, c, h, d, k, s)) =
      EngineOf(r, n, p, "scored", c, h, d, k, s)
<1> TAKE r, n, p, a, c, h, d, k, s
<1> DEFINE e == EngineOf(r, n, p, a, c, h, d, k, s)
<1>2. e = [running |-> r, round |-> n, paused |-> p, at |-> a, cancels |-> c, heeds |-> h,
           runDone |-> d, cut |-> k, slip |-> s]
  BY DEF EngineOf
<1> HIDE DEF e
<1>4. Life!RoundEnded(e) = [e EXCEPT !.at = "scored"]
  BY DEF Life!RoundEnded
<1>5. Life!RoundEnded(e) = EngineOf(r, n, p, "scored", c, h, d, k, s)
  BY <1>2, <1>4 DEF EngineOf
<1> QED BY <1>5 DEF e

LEMMA FinishedOf ==
  \A r, n, p, a, c, h, d, k, s :
    Life!Finished(EngineOf(r, n, p, a, c, h, d, k, s)) =
      EngineOf(No, n, p, "done", c, h, d, k, s)
<1> TAKE r, n, p, a, c, h, d, k, s
<1> DEFINE e == EngineOf(r, n, p, a, c, h, d, k, s)
<1>2. e = [running |-> r, round |-> n, paused |-> p, at |-> a, cancels |-> c, heeds |-> h,
           runDone |-> d, cut |-> k, slip |-> s]
  BY DEF EngineOf
<1> HIDE DEF e
<1>4. Life!Finished(e) = [e EXCEPT !.at = "done", !.running = No]
  BY DEF Life!Finished, No
<1>5. Life!Finished(e) = EngineOf(No, n, p, "done", c, h, d, k, s)
  BY <1>2, <1>4 DEF EngineOf
<1> QED BY <1>5 DEF e

LEMMA ReturnedOf ==
  \A r, n, p, a, c, h, d, k, s :
    Life!Returned(EngineOf(r, n, p, a, c, h, d, k, s)) =
      EngineOf(r, n, p, "done", c, h, d, k, s)
<1> TAKE r, n, p, a, c, h, d, k, s
<1> DEFINE e == EngineOf(r, n, p, a, c, h, d, k, s)
<1>2. e = [running |-> r, round |-> n, paused |-> p, at |-> a, cancels |-> c, heeds |-> h,
           runDone |-> d, cut |-> k, slip |-> s]
  BY DEF EngineOf
<1> HIDE DEF e
<1>4. Life!Returned(e) = [e EXCEPT !.at = "done"]
  BY DEF Life!Returned
<1>5. Life!Returned(e) = EngineOf(r, n, p, "done", c, h, d, k, s)
  BY <1>2, <1>4 DEF EngineOf
<1> QED BY <1>5 DEF e

\* A draft game, or one found paused: the abstract engine does not exist yet.
LEMMA LifeInit == MCInit => Life!Init
<1> SUFFICES ASSUME MCInit PROVE Life!Init
  OBVIOUS
<1> USE DEF MCInit, Init
<1>1. game \in Life!Rows /\ game.status \in {"draft", "paused"}
  BY DurationAssumption DEF Life!Rows, Rounds
<1>2. Lost = FALSE /\ Heeds = "run"
  BY DEF Lost, Stopped, Heeds
<1>3. AsEngine = Life!NoEngine
  BY <1>2, PlaceFacts DEF AsEngine, Life!NoEngine
<1> QED BY <1>1, <1>3 DEF Life!Init

\* Each step of the scheduler is a step of the abstract engine, or none.
LEMMA LifeRefine ==
  ASSUME TypeOK, ScoreInv, EngineInv, PauseInv, LifeInv, [MCNext]_<<vars, slip>>
  PROVE  [Life!Next]_(Life!lifeVars)
<1>0. /\ paused \in BOOLEAN /\ pauseDone \in BOOLEAN /\ managed \in BOOLEAN
      /\ running \in BOOLEAN /\ runDone \in BOOLEAN /\ slip \in BOOLEAN
      /\ cancels \in {"run", "resume"} /\ pauseParent \in {"run", "resume"}
      /\ game = [status |-> game.status, phase |-> game.phase, round |-> game.round]
      /\ pc \in Labels
  BY DEF TypeOK, RowOK, EngineOK, SchedulerOK, GoroutineOK, LifeInv
<1>1. AsEngine = EngineOf(running, currentRound, paused, Place[pc], cancels, Heeds, runDone, Lost, slip)
  BY DEF AsEngine, EngineOf
<1>2. AsEngine' = EngineOf(running', currentRound', paused', Place[pc'], cancels', Heeds', runDone',
                           Lost', slip')
  BY DEF AsEngine, EngineOf, Place
<1>3. /\ AsEngine.running = running /\ AsEngine.round = currentRound /\ AsEngine.paused = paused
      /\ AsEngine.at = Place[pc] /\ AsEngine.cancels = cancels /\ AsEngine.heeds = Heeds
      /\ AsEngine.runDone = runDone /\ AsEngine.cut = Lost /\ AsEngine.slip = slip
  BY DEF AsEngine
<1>4. AsEngine'.round = currentRound'
  BY DEF AsEngine
<1>5. /\ managed => ~Lost
      /\ managed' => ~Lost'
      /\ UNCHANGED <<managed, paused, pauseDone>> /\ pc # "absent" /\ pc' # "absent" => Lost' = Lost
      /\ UNCHANGED <<paused, pauseParent>> => Heeds' = Heeds
      /\ Lost \in BOOLEAN /\ Lost' \in BOOLEAN
  BY DEF Lost, Stopped, Heeds
<1>6. ASSUME UNCHANGED <<game, managed, running, currentRound, paused, cancels, runDone>>,
             Place[pc'] = Place[pc], Heeds' = Heeds, Lost' = Lost, slip' = slip
      PROVE  UNCHANGED Life!lifeVars
  <2>1. AsEngine' = AsEngine
    BY <1>1, <1>2, <1>6
  <2> QED BY <1>6, <2>1 DEF Life!lifeVars
<1>7. CASE UNCHANGED <<vars, slip>>
  BY <1>7 DEF vars, engineVars, schedVars, ctxVars, Life!lifeVars, AsEngine, Lost, Heeds, Stopped
<1>8. CASE MCNext
  <2>0. /\ Next
        /\ managed /\ ~managed' => slip' = (Place[pc] \in {"round", "break"})
        /\ ~(managed /\ ~managed') /\ ~(pc \in {"gateEnd", "gateStart"} /\ pc' \in {"end", "next"})
             => slip' = slip
        /\ UNCHANGED managed /\ pc \in {"gateEnd", "gateStart"} /\ pc' \in {"end", "next"}
             => slip' = FALSE
    BY <1>0, <1>8, SlipFacts DEF MCNext
  <2>1. CASE EngineStart
    <3>1. AsEngine = Life!NoEngine
      <4>1. Lost = No /\ slip = No /\ Heeds = "run"
        BY <1>0, <2>1 DEF EngineStart, Lost, Stopped, Heeds, LifeInv, EngineInv, No
      <4>2. /\ running = No /\ currentRound = 0 /\ paused = No /\ Place[pc] = "none"
            /\ cancels = "run" /\ runDone = No
        BY <1>0, <2>1, PlaceFacts DEF EngineStart, LifeInv, EngineInv, No
      <4> QED BY <1>1, <4>1, <4>2, NoEngineOf
    <3>2. AsEngine' = Life!Started
      <4>1. /\ running' = Yes /\ currentRound' = 1 /\ paused' = No
            /\ cancels' = "run" /\ runDone' = No /\ Heeds' = "run" /\ pc' = "init"
        BY <1>0, <2>1
        DEF EngineStart, OnRoundStart, schedVars, ctxVars, LifeInv, EngineInv, Heeds, Yes, No
      <4>2. Lost' = No
        BY <1>5, <2>1 DEF EngineStart, No
      <4>3. slip' = No
        BY <1>0, <2>0, <2>1, <4>1 DEF EngineStart, LifeInv, EngineInv, No
      <4> QED BY <1>2, <4>1, <4>2, <4>3, PlaceFacts, StartedOf
    <3>3. game' = [status |-> "running", phase |-> "running", round |-> 1]
      BY <1>0, <2>1 DEF EngineStart, OnRoundStart
    <3> QED BY <2>1, <3>1, <3>2, <3>3 DEF EngineStart, Life!Start, Life!Next
  <2>2. CASE EngineRestore
    <3>1. AsEngine = Life!NoEngine
      <4>1. Lost = No /\ slip = No /\ Heeds = "run"
        BY <1>0, <2>2 DEF EngineRestore, Lost, Stopped, Heeds, LifeInv, EngineInv, No
      <4>2. /\ running = No /\ currentRound = 0 /\ paused = No /\ Place[pc] = "none"
            /\ cancels = "run" /\ runDone = No
        BY <1>0, <2>2, PlaceFacts DEF EngineRestore, LifeInv, EngineInv, No
      <4> QED BY <1>1, <4>1, <4>2, NoEngineOf
    <3>2. AsEngine' = Life!Restored(game.round)
      <4>1. /\ running' = Yes /\ currentRound' = FirstRound(game.round) /\ paused' = No
            /\ cancels' = "run" /\ runDone' = No /\ Heeds' = "run" /\ pc' = "init"
        BY <1>0, <2>2
        DEF EngineRestore, FirstRound, schedVars, ctxVars, LifeInv, EngineInv, Heeds, Yes, No
      <4>2. Lost' = No
        BY <1>5, <2>2 DEF EngineRestore, No
      <4>3. slip' = No
        BY <1>0, <2>0, <2>2, <4>1 DEF EngineRestore, LifeInv, EngineInv, No
      <4> QED BY <1>2, <4>1, <4>2, <4>3, PlaceFacts, RestoredOf
    <3>3. game' = [status |-> "running", phase |-> "running", round |-> currentRound']
      BY <1>0, <2>2 DEF EngineRestore
    <3> QED BY <1>4, <2>2, <3>1, <3>2, <3>3 DEF EngineRestore, Life!Restore, Life!Next
  <2>3. CASE EnginePause
    <3>1. AsEngine' = Life!Paused(AsEngine)
      <4>1. /\ UNCHANGED <<managed, currentRound, cancels, runDone, pc>> /\ managed
            /\ running = Yes /\ running' = No /\ paused' = Yes /\ Heeds' = "run"
        BY <1>0, <2>3 DEF EnginePause, SchedulerPause, EngineInv, Heeds, Yes, No
      <4>2. slip' = slip /\ Lost' = Lost
        BY <1>0, <1>5, <2>0, <4>1
      <4>3. AsEngine' = EngineOf(No, currentRound, Yes, Place[pc], cancels, "run", runDone, Lost, slip)
        BY <1>2, <4>1, <4>2
      <4> QED BY <1>1, <4>1, <4>3, PausedOf
    <3> QED BY <1>3, <2>3, <3>1 DEF EnginePause, Life!Next, Life!Pause
  <2>4. CASE EngineResume
    <3>1. AsEngine' = Life!Resumed(AsEngine)
      <4>1. /\ UNCHANGED <<managed, currentRound, runDone, pc>> /\ managed
            /\ running = No /\ running' = Yes /\ paused' = No /\ cancels' = "resume"
            /\ Heeds' = HeedsAfter(paused, Heeds)
        BY <1>0, <2>4 DEF EngineResume, Heeds, HeedsAfter, Yes, No
      <4>2. slip' = slip /\ Lost' = Lost
        BY <1>0, <1>5, <2>0, <4>1
      <4>3. AsEngine' = EngineOf(Yes, currentRound, No, Place[pc], "resume", HeedsAfter(paused, Heeds),
                                 runDone, Lost, slip)
        BY <1>2, <4>1, <4>2
      <4> QED BY <1>1, <4>1, <4>3, ResumedOf
    <3> QED BY <1>3, <2>4, <3>1 DEF EngineResume, Life!Next, Life!Resume
  <2>5. CASE EngineStop
    <3>1. AsEngine' = Life!Stopped(AsEngine)
      <4>1. UNCHANGED <<currentRound, paused, cancels, pauseParent, pc>> /\ running' = No
        BY <2>5 DEF EngineStop, schedVars, No
      <4>2. Heeds' = Heeds
        BY <1>5, <4>1
      <4>3. slip' = MaySlip(Place[pc])
        BY <2>0, <2>5 DEF EngineStop, MaySlip
      <4>4. runDone' = EndsRun(cancels)
        BY <1>0, <2>5 DEF EngineStop, EngineInv, EndsRun
      <4>5. Lost' = CutsPause(paused, Heeds, cancels)
        BY <1>0, <2>5, <4>1
        DEF EngineStop, EngineInv, PauseInv, Lost, Stopped, Heeds, CutsPause
      <4>6. AsEngine' = EngineOf(No, currentRound, paused, Place[pc], cancels, Heeds, EndsRun(cancels),
                                 CutsPause(paused, Heeds, cancels), MaySlip(Place[pc]))
        BY <1>2, <4>1, <4>2, <4>3, <4>4, <4>5
      <4> QED BY <1>1, <4>6, StoppedOf
    <3> QED BY <1>3, <2>5, <3>1 DEF EngineStop, Life!Next, Life!Stop
  <2>6. CASE Run
    <3> USE DEF Goto, engineVars, schedVars, ctxVars
    <3>0. /\ pc # "absent" /\ pc' # "absent" /\ UNCHANGED managed
      BY <2>6
      DEF Run, RunInit, RunArm, RunTop, SelectCancelled, SelectPaused, SelectFired, WaitOver, AfterWait,
          WaitCancelled, WaitRenew, RoundRearm, BreakRearm, RoundEnd, AfterRoundEnd, FinishGame,
          BreakSetup, RoundNext, RoundStart, RoundFresh, OnRoundStart, Selects, Waiting
    \* A section that changes nothing but the clock, the timer and a place.
    <3>1. ASSUME UNCHANGED <<game, running, currentRound, paused, cancels, ctxVars>>,
                 Place[pc'] = Place[pc],
                 ~(pc \in {"gateEnd", "gateStart"} /\ pc' \in {"end", "next"})
          PROVE  UNCHANGED Life!lifeVars
      BY <1>0, <1>5, <1>6, <2>0, <3>0, <3>1
    <3>2. CASE RunInit
      <4>1. /\ UNCHANGED <<game, running, currentRound, paused, cancels, runDone>>
            /\ Heeds' = "run" /\ slip' = slip
        BY <1>0, <2>0, <3>0, <3>2 DEF RunInit, Heeds
      <4>2. Lost' = CutAtBegin(runDone, paused)
        BY <1>0, <3>0, <3>2 DEF RunInit, Lost, Stopped, EngineInv, CutAtBegin
      <4>3. Place[pc] = "fresh" /\ Place[pc'] = "round"
        BY <3>2, PlaceFacts DEF RunInit
      <4>4. AsEngine' = Life!Begun(AsEngine)
        BY <1>1, <1>2, <4>1, <4>2, <4>3, BegunOf
      <4> QED BY <1>3, <3>0, <4>1, <4>3, <4>4 DEF Life!Next, Life!Goroutine
    <3>3. CASE RunArm BY <3>1, <3>3, PlaceFacts DEF RunArm
    <3>4. CASE RunTop BY <3>1, <3>4, PlaceFacts DEF RunTop
    <3>5. CASE SelectCancelled \/ WaitCancelled
      <4>0. runDone /\ Place[pc] \in {"round", "break"}
        BY <3>5, PlaceFacts DEF SelectCancelled, WaitCancelled, Selects, Waiting
      <4>1. /\ UNCHANGED <<game, running, currentRound, paused, cancels, ctxVars>>
            /\ Place[pc'] = "done" /\ pc' = "done"
        BY <3>5, PlaceFacts DEF SelectCancelled, WaitCancelled, Selects, Waiting
      <4>2. Heeds' = Heeds /\ Lost' = Lost /\ slip' = slip
        BY <1>0, <1>5, <2>0, <3>0, <4>1
      <4>3. AsEngine' = Life!Returned(AsEngine)
        BY <1>1, <1>2, <4>1, <4>2, ReturnedOf
      <4> QED BY <1>3, <3>0, <4>0, <4>1, <4>3 DEF Life!Next, Life!Goroutine, Life!MayReturn
    <3>6. CASE SelectPaused BY <3>1, <3>6, PlaceFacts DEF SelectPaused, Selects
    <3>7. CASE SelectFired BY <3>1, <3>7, PlaceFacts DEF SelectFired, Selects
    <3>8. CASE WaitOver
      <4>1. CASE pc \in {"waitRound", "waitBreak"}
        BY <3>1, <3>8, <4>1, PlaceFacts DEF WaitOver, AfterWait
      <4>2. CASE pc \in {"gateEnd", "gateStart"}
        <5>1. /\ UNCHANGED <<game, running, currentRound, paused, cancels, ctxVars>> /\ ~paused
              /\ Place[pc] \in {"round", "break"} /\ Place[pc'] = PastGate(Place[pc])
              /\ pc' \in {"end", "next"}
          BY <3>8, <4>2, PlaceFacts DEF WaitOver, AfterWait, PastGate
        <5>2. Heeds' = Heeds /\ Lost' = Lost /\ slip' = No
          BY <1>0, <1>5, <2>0, <3>0, <4>2, <5>1 DEF No
        <5>3. Lost => slip
          BY <4>2 DEF LifeInv, Halted
        <5>4. AsEngine' = Life!Left(AsEngine)
          BY <1>1, <1>2, <5>1, <5>2, LeftOf
        <5> QED BY <1>3, <3>0, <5>1, <5>3, <5>4 DEF Life!Next, Life!Goroutine, Life!MayLeave
      <4> QED BY <3>8, <4>1, <4>2 DEF WaitOver, Waiting
    <3>9. CASE WaitRenew
      <4>1. /\ UNCHANGED <<game, running, currentRound, paused, cancels, runDone, pc>> /\ paused
        BY <3>9 DEF WaitRenew
      <4>2. Heeds' = Heeds /\ Lost' = Lost /\ slip' = slip
        BY <1>0, <2>0, <3>0, <4>1 DEF Heeds, Lost
      <4> QED BY <1>6, <3>0, <4>1, <4>2
    <3>10. CASE RoundRearm BY <3>1, <3>10, PlaceFacts DEF RoundRearm
    <3>11. CASE BreakRearm BY <3>1, <3>11, PlaceFacts DEF BreakRearm
    <3>12. CASE RoundEnd
      <4>1. /\ UNCHANGED <<game, running, currentRound, paused, cancels, ctxVars>>
            /\ Place[pc] = "ending" /\ Place[pc'] = "scored" /\ pc = "end"
        BY <3>12, PlaceFacts DEF RoundEnd
      <4>2. Heeds' = Heeds /\ Lost' = Lost /\ slip' = slip
        BY <1>0, <1>5, <2>0, <3>0, <4>1
      <4>3. AsEngine' = Life!RoundEnded(AsEngine)
        BY <1>1, <1>2, <4>1, <4>2, RoundEndedOf
      <4> QED BY <1>3, <3>0, <4>1, <4>3 DEF Life!Next, Life!Goroutine
    <3>13. CASE AfterRoundEnd
      <4>1. /\ UNCHANGED <<game, running, currentRound, paused, cancels, ctxVars>>
            /\ Place[pc] = "scored" /\ Place[pc'] = AfterTest(currentRound) /\ pc = "after"
        BY <3>13, PlaceFacts DEF AfterRoundEnd, AfterTest
      <4>2. Heeds' = Heeds /\ Lost' = Lost /\ slip' = slip
        BY <1>0, <1>5, <2>0, <3>0, <4>1
      <4>3. AsEngine' = Life!Judged(AsEngine)
        BY <1>1, <1>2, <4>1, <4>2, JudgedOf
      <4> QED BY <1>3, <3>0, <4>1, <4>3 DEF Life!Next, Life!Goroutine
    <3>14. CASE FinishGame
      <4>1. /\ UNCHANGED <<currentRound, paused, cancels, ctxVars>> /\ running' = No
            /\ Place[pc] = "finishing" /\ Place[pc'] = "done" /\ pc = "finish"
            /\ game' = [game EXCEPT !.status = "finished", !.phase = "finished"]
        BY <3>14, PlaceFacts DEF FinishGame, No
      <4>2. Heeds' = Heeds /\ Lost' = Lost /\ slip' = slip
        BY <1>0, <1>5, <2>0, <3>0, <4>1
      <4>3. AsEngine' = Life!Finished(AsEngine)
        BY <1>1, <1>2, <4>1, <4>2, FinishedOf
      <4> QED BY <1>3, <3>0, <4>1, <4>3 DEF Life!Next, Life!Goroutine
    <3>15. CASE BreakSetup BY <3>1, <3>15, PlaceFacts DEF BreakSetup
    <3>16. CASE RoundNext BY <3>1, <3>16, PlaceFacts DEF RoundNext
    <3>17. CASE RoundStart
      <4>1. /\ UNCHANGED <<running, paused, cancels, ctxVars>> /\ currentRound' = currentRound + 1
            /\ Place[pc] = "starting" /\ Place[pc'] = "round" /\ pc = "start"
            /\ game' = [game EXCEPT !.round = currentRound', !.phase = "running"]
        BY <3>17, PlaceFacts DEF RoundStart, OnRoundStart
      <4>2. Heeds' = Heeds /\ Lost' = Lost /\ slip' = slip
        BY <1>0, <1>5, <2>0, <3>0, <4>1
      <4>3. AsEngine' = Life!RoundStarted(AsEngine)
        BY <1>1, <1>2, <4>1, <4>2, RoundStartedOf
      <4> QED BY <1>3, <1>4, <3>0, <4>1, <4>3 DEF Life!Next, Life!Goroutine
    <3>18. CASE RoundFresh BY <3>1, <3>18, PlaceFacts DEF RoundFresh
    <3> QED
      BY <2>6, <3>2, <3>3, <3>4, <3>5, <3>6, <3>7, <3>8, <3>9, <3>10, <3>11, <3>12, <3>13, <3>14,
         <3>15, <3>16, <3>17, <3>18 DEF Run
  <2>7. CASE Tick
    <3>1. UNCHANGED <<game, managed, running, currentRound, paused, cancels, runDone, pauseDone,
                      pauseParent, pc>>
      BY <2>7 DEF Tick, engineVars, ctxVars
    <3>2. Heeds' = Heeds /\ Lost' = Lost /\ slip' = slip
      BY <1>0, <2>0, <3>1 DEF Heeds, Lost, Stopped
    <3> QED BY <1>6, <3>1, <3>2
  <2> QED BY <2>0, <2>1, <2>2, <2>3, <2>4, <2>5, <2>6, <2>7 DEF Next, Engine
<1> QED BY <1>7, <1>8

\* The scheduler with its timers and contexts implements the abstract engine, for
\* every number of rounds and all durations with a break: so what EngineLifecycle
\* says of a stopped engine, GameService may assume of this one.
THEOREM EngineRefinement == MCSpec => ImplementsEngineLifecycle
<1> DEFINE AllInv == IInv /\ PauseInv /\ LifeInv
<1>1. MCInit => Life!Init /\ AllInv
  <2>1. Init => PauseInv
    BY DEF Init, PauseInv, Ran, Unhearing
  <2>2. MCInit => LifeInv
    BY DEF MCInit, Init, LifeInv, Halted, Lost, Stopped
  <2> QED BY <2>1, <2>2, InitIInv, LifeInit DEF MCInit
<1>2. AllInv /\ [MCNext]_<<vars, slip>> => AllInv'
  <2>1. [MCNext]_<<vars, slip>> => [Next]_vars
    BY DEF MCNext
  <2> QED BY <2>1, TypeStep, ScoreStep, EngineStep, BoundaryStep, PauseStep, LifeStep DEF IInv
<1>3. AllInv /\ [MCNext]_<<vars, slip>> => [Life!Next]_(Life!lifeVars)
  BY LifeRefine DEF IInv
<1> QED BY <1>1, <1>2, <1>3, PTL DEF MCSpec, Life!Spec, ImplementsEngineLifecycle
=============================================================================
