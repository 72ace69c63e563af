-------------------------- MODULE GameServiceProofs --------------------------
(***************************************************************************)
(* Theorems about GameService, for any number of rounds and engines.       *)
(*                                                                         *)
(* EngineAgreesWithRow is stated for the moments when no operation is      *)
(* under way; AgreementInv says what holds in between, and OpInv what the  *)
(* operation under way may still rely on of what it read.                  *)
(***************************************************************************)
EXTENDS GameService, TLAPS

\* An engine that was started is in a round; a break, and the round start after
\* it, come before the last round only.
Placed(e) ==
  /\ e.at # "none" => e.round >= 1
  /\ e.at \in {"break", "starting"} => e.round < TotalRounds
PlaceInv == \A s \in Slots : Placed(engines[s])

\* Engines out of the map are off, and the one in the map was started.
OffInv ==
  /\ UnmanagedEngineIsOff
  /\ managed # NoSlot => engines[managed].at # "none"

InFlight(kind) == op.kind = kind /\ op.step = "written"

\* The managed engine and the row, at any moment.
AgreementInv ==
  ~foreign /\ managed # NoSlot /\ row # NoRow =>
    LET e == engines[managed] IN
    /\ e.running => row.status = "running" \/ InFlight("pause") \/ InFlight("stop")
    /\ e.at # "done" => /\ e.round = row.round
                        /\ row.status = "running" => e.running \/ InFlight("resume")
                        /\ row.status \in {"running", "paused"} \/ InFlight("stop")
                        /\ op.kind \notin {"start", "reset"}

\* What stays true of the row after the operation under way has read it.
OpInv ==
  /\ op.step = "failed" => managed = NoSlot /\ op.kind = "start"
  /\ ~foreign /\ row # NoRow =>
       /\ op.kind = "resume" /\ managed = NoSlot => op.round = row.round
       /\ op.kind = "reset" => row.status \in {"finished", "draft"}
       /\ InFlight("start") /\ managed = NoSlot => row.status = "running"

IInv == TypeOK /\ PlaceInv /\ OffInv /\ AgreementInv /\ OpInv
-----------------------------------------------------------------------------
(***************************************************************************)
(* What the operators of EngineModel do to an engine.                      *)
(***************************************************************************)
LEMMA CreatedFacts ==
  /\ NoEngine \in Engines /\ ~NoEngine.running /\ NoEngine.at = "none"
  /\ Started \in Engines /\ Started.running /\ Started.at = "fresh" /\ Started.round = 1
  /\ \A r \in 0..TotalRounds :
       /\ Restored(r) \in Engines /\ Restored(r).running /\ Restored(r).at = "fresh"
       /\ Restored(r).round = IF r = 0 THEN 1 ELSE r
<1>1. 0 \in 0..TotalRounds /\ 1 \in 0..TotalRounds
  BY TotalRoundsAssumption
<1>2. NoEngine \in Engines /\ ~NoEngine.running /\ NoEngine.at = "none"
  BY <1>1 DEF NoEngine, Engines, Places
<1>3. Started \in Engines /\ Started.running /\ Started.at = "fresh" /\ Started.round = 1
  BY <1>1, <1>2 DEF NoEngine, Started, Engines, Places
<1>4. ASSUME NEW r \in 0..TotalRounds
      PROVE  /\ Restored(r) \in Engines /\ Restored(r).running /\ Restored(r).at = "fresh"
             /\ Restored(r).round = IF r = 0 THEN 1 ELSE r
  <2>1. (IF r = 0 THEN 1 ELSE r) \in 0..TotalRounds
    BY <1>1
  <2> QED BY <1>3, <2>1 DEF Restored, Engines
<1> QED BY <1>2, <1>3, <1>4

LEMMA HandledFacts == ASSUME NEW e \in Engines PROVE
  /\ Paused(e) \in Engines /\ ~Paused(e).running
  /\ Paused(e).at = e.at /\ Paused(e).round = e.round
  /\ Resumed(e) \in Engines /\ Resumed(e).running
  /\ Resumed(e).at = e.at /\ Resumed(e).round = e.round
  /\ Stopped(e) \in Engines /\ ~Stopped(e).running
  /\ Stopped(e).at = e.at /\ Stopped(e).round = e.round
<1>1. Paused(e) \in Engines /\ ~Paused(e).running /\ Paused(e).at = e.at /\ Paused(e).round = e.round
  BY DEF Paused, Engines
<1>2. Resumed(e) \in Engines /\ Resumed(e).running /\ Resumed(e).at = e.at /\ Resumed(e).round = e.round
  <2>1. CASE e.running
    BY <2>1 DEF Resumed
  <2>2. CASE ~e.running
    BY <2>2 DEF Resumed, Engines
  <2> QED BY <2>1, <2>2
<1>3. Stopped(e) \in Engines /\ ~Stopped(e).running /\ Stopped(e).at = e.at /\ Stopped(e).round = e.round
  <2> DEFINE slip == e.at \in {"round", "break"}
             runDone == e.cancels = "run"
             cut == ~e.paused /\ e.heeds = e.cancels
  <2>1. slip \in BOOLEAN /\ runDone \in BOOLEAN /\ cut \in BOOLEAN
    OBVIOUS
  <2>2. Stopped(e) = [e EXCEPT !.running = FALSE, !.slip = slip, !.runDone = runDone, !.cut = cut]
    BY DEF Stopped
  <2> HIDE DEF slip, runDone, cut
  <2> QED BY <2>1, <2>2 DEF Engines
<1> QED BY <1>1, <1>2, <1>3

LEMMA GoroutineFacts == ASSUME NEW e \in Engines PROVE
  /\ Begun(e) \in Engines /\ Begun(e).running = e.running
  /\ Begun(e).at = "round" /\ Begun(e).round = e.round
  /\ Left(e) \in Engines /\ Left(e).running = e.running
  /\ Left(e).at = (IF e.at = "round" THEN "ending" ELSE "starting") /\ Left(e).round = e.round
  /\ RoundEnded(e) \in Engines /\ RoundEnded(e).running = e.running
  /\ RoundEnded(e).at = "scored" /\ RoundEnded(e).round = e.round
  /\ Returned(e) \in Engines /\ Returned(e).running = e.running
  /\ Returned(e).at = "done" /\ Returned(e).round = e.round
  /\ Finished(e) \in Engines /\ ~Finished(e).running
  /\ Finished(e).at = "done" /\ Finished(e).round = e.round
  BY DEF Begun, Left, RoundEnded, Returned, Finished, Engines, Places

LEMMA JudgedFacts == ASSUME NEW e \in Engines PROVE
  /\ Judged(e) \in Engines /\ Judged(e).running = e.running
  /\ Judged(e).at = (IF e.round >= TotalRounds THEN "finishing" ELSE "break")
  /\ Judged(e).round = e.round
  BY DEF Judged, Engines, Places

LEMMA RoundStartedFacts == ASSUME NEW e \in Engines, e.round < TotalRounds PROVE
  /\ RoundStarted(e) \in Engines /\ RoundStarted(e).running = e.running
  /\ RoundStarted(e).at = "round" /\ RoundStarted(e).round = e.round + 1
<1>1. e.round + 1 \in 0..TotalRounds
  BY TotalRoundsAssumption DEF Engines
<1> QED BY <1>1 DEF RoundStarted, Engines, Places

\* Dropping an engine that is out of the map keeps the types and turns it off.
LEMMA KeptFacts == ASSUME NEW e \in Engines, NEW inMap \in BOOLEAN PROVE
  /\ Kept(e, inMap) \in Engines
  /\ Kept(e, inMap).running => e.running
  /\ inMap => Kept(e, inMap) = e
  /\ Kept(e, inMap) \in {e, NoEngine}
  BY CreatedFacts DEF Kept

\* An UPDATE of status and phase leaves the round alone.
LEMMA WriteFacts ==
  ASSUME row \in Rows \cup {NoRow},
         NEW status \in {"draft", "running", "paused", "finished"},
         NEW phase \in {"preparation", "running", "break", "finished"},
         Write(status, phase)
  PROVE  /\ row' \in Rows \cup {NoRow}
         /\ row' = NoRow <=> row = NoRow
         /\ row # NoRow => row'.status = status /\ row'.round = row.round
<1>1. CASE row = NoRow
  BY <1>1 DEF Write
<1>2. CASE row # NoRow
  <2>1. row' = [row EXCEPT !.status = status, !.phase = phase]
    BY <1>2 DEF Write
  <2>2. row' \in Rows /\ row'.status = status /\ row'.round = row.round
    BY <1>2, <2>1 DEF Rows
  <2> QED BY <1>2, <2>2, SlotAssumption
<1> QED BY <1>1, <1>2

\* What an engine step does to the functions over slots.
LEMMA StepFacts ==
  ASSUME TypeOK, NEW s \in Slots, NEW e \in Engines, Step(s, e)
  PROVE  /\ engines' \in [Slots -> Engines]
         /\ \A t \in Slots : t # s => engines'[t] = engines[t]
         /\ engines'[s] \in {e, NoEngine}
         /\ engines'[s].running => e.running
         /\ s = managed => engines'[s] = e
<1>1. (s = managed) \in BOOLEAN
  OBVIOUS
<1>2. engines' = [engines EXCEPT ![s] = Kept(e, s = managed)]
  BY DEF Step
<1>3. Kept(e, s = managed) \in Engines
  BY <1>1, KeptFacts
<1>4. engines'[s] = Kept(e, s = managed)
  BY <1>2 DEF TypeOK
<1>5. engines' \in [Slots -> Engines] /\ \A t \in Slots : t # s => engines'[t] = engines[t]
  BY <1>2, <1>3 DEF TypeOK
<1>6. Kept(e, s = managed).running => e.running
  BY <1>1, KeptFacts
<1>7. s = managed => Kept(e, s = managed) = e
  BY <1>1, KeptFacts
<1>8. Kept(e, s = managed) \in {e, NoEngine}
  BY <1>1, KeptFacts
<1> QED BY <1>4, <1>5, <1>6, <1>7, <1>8

LEMMA LateFacts ==
  ASSUME TypeOK, NEW s \in Slots, Late(s)
  PROVE  late' \in [Slots -> 0..2]
<1>1. CASE Overrun(s)
  <2>1. late[s] + 1 \in 0..2
    BY <1>1 DEF Overrun, TypeOK
  <2> QED BY <1>1, <2>1 DEF Late, TypeOK
<1>2. CASE ~Overrun(s)
  BY <1>2 DEF Late, TypeOK
<1> QED BY <1>1, <1>2
-----------------------------------------------------------------------------
(***************************************************************************)
(* The steps of a goroutine, by what they do to the row.                   *)
(***************************************************************************)
Quiet(s, e) ==
  /\ Step(s, e)
  /\ e.round = engines[s].round /\ e.running = engines[s].running
  /\ engines[s].at \notin {"done", "none"} /\ e.at # "none" /\ Placed(e)
  /\ UNCHANGED <<row, managed, op, edit, foreign>>

LEMMA QuietSteps ==
  ASSUME TypeOK, PlaceInv, NEW s \in Slots, Silent(s) \/ Judge(s) \/ RoundEnd(s)
  PROVE  \E e \in Engines : Quiet(s, e)
<1>1. engines[s] \in Engines /\ Placed(engines[s])
  BY DEF TypeOK, PlaceInv
<1>2. CASE Silent(s)
  <2>1. UNCHANGED <<row, managed, op, edit, foreign>>
    BY <1>2 DEF Silent, history
  <2>2. CASE engines[s].at = "fresh" /\ Step(s, Begun(engines[s]))
    <3>1. Quiet(s, Begun(engines[s]))
      BY <1>1, <2>1, <2>2, GoroutineFacts DEF Quiet, Placed
    <3> QED BY <1>1, <3>1, GoroutineFacts
  <2>3. CASE MayLeave(engines[s]) /\ Step(s, Left(engines[s]))
    <3>1. Quiet(s, Left(engines[s]))
      BY <1>1, <2>1, <2>3, GoroutineFacts DEF Quiet, Placed, MayLeave
    <3> QED BY <1>1, <3>1, GoroutineFacts
  <2>4. CASE MayReturn(engines[s]) /\ Step(s, Returned(engines[s]))
    <3>1. Quiet(s, Returned(engines[s]))
      BY <1>1, <2>1, <2>4, GoroutineFacts DEF Quiet, Placed, MayReturn
    <3> QED BY <1>1, <3>1, GoroutineFacts
  <2> QED BY <1>2, <2>2, <2>3, <2>4 DEF Silent
<1>3. CASE Judge(s)
  <2>1. engines[s].round < TotalRounds \/ engines[s].round >= TotalRounds
    BY <1>1, TotalRoundsAssumption DEF Engines
  <2>2. Quiet(s, Judged(engines[s]))
    BY <1>1, <1>3, <2>1, JudgedFacts DEF Judge, Quiet, Placed, history
  <2> QED BY <1>1, <2>2, JudgedFacts
<1>4. CASE RoundEnd(s)
  <2>1. Quiet(s, RoundEnded(engines[s]))
    BY <1>1, <1>4, GoroutineFacts DEF RoundEnd, Quiet, Placed, Late
  <2> QED BY <1>1, <2>1, GoroutineFacts
<1> QED BY <1>2, <1>3, <1>4

LEMMA RoundStartFacts ==
  ASSUME TypeOK, PlaceInv, NEW s \in Slots, RoundStart(s)
  PROVE  /\ RoundStarted(engines[s]) \in Engines /\ Placed(RoundStarted(engines[s]))
         /\ RoundStarted(engines[s]).running = engines[s].running
         /\ RoundStarted(engines[s]).at = "round"
         /\ RoundStarted(engines[s]).round = engines[s].round + 1
         /\ row' \in Rows \cup {NoRow} /\ (row' = NoRow <=> row = NoRow)
         /\ row # NoRow => row'.status = row.status /\ row'.round = engines[s].round + 1
<1>1. engines[s] \in Engines /\ Placed(engines[s]) /\ engines[s].at = "starting"
  BY DEF TypeOK, PlaceInv, RoundStart
<1>2. engines[s].round < TotalRounds
  BY <1>1 DEF Placed
<1>3. engines[s].round + 1 \in 0..TotalRounds
  BY <1>1, <1>2, TotalRoundsAssumption DEF Engines
<1>4. Placed(RoundStarted(engines[s]))
  <2>1. /\ RoundStarted(engines[s]).at = "round"
        /\ RoundStarted(engines[s]).round = engines[s].round + 1
    BY <1>1, <1>2, RoundStartedFacts
  <2>2. engines[s].round + 1 >= 1
    BY <1>3, <1>1 DEF Engines
  <2> QED BY <2>1, <2>2 DEF Placed
<1>5. CASE row = NoRow
  <2>1. row' = NoRow
    BY <1>5 DEF RoundStart
  <2> QED BY <1>1, <1>2, <1>4, <1>5, <2>1, RoundStartedFacts
<1>6. CASE row # NoRow
  <2>1. row \in Rows /\ row' = [row EXCEPT !.round = engines[s].round + 1, !.phase = "running"]
    BY <1>6 DEF RoundStart, TypeOK
  <2>2. row' \in Rows /\ row'.status = row.status /\ row'.round = engines[s].round + 1
    BY <1>3, <2>1 DEF Rows
  <2> QED BY <1>1, <1>2, <1>4, <1>6, <2>2, RoundStartedFacts, SlotAssumption
<1> QED BY <1>5, <1>6
-----------------------------------------------------------------------------
(***************************************************************************)
(* Types.                                                                  *)
(***************************************************************************)
Ops == [kind : Kinds, step : {"checked", "written", "failed"}, round : 0..TotalRounds]

LEMMA TypeStep == ASSUME TypeOK, PlaceInv, OffInv, [Next]_vars PROVE TypeOK'
<1> USE DEF TypeOK
<1>0. op = Idle \/ op \in Ops
  BY DEF Ops
<1>1. ASSUME NEW kind \in Kinds, Check(kind)
      PROVE  TypeOK'
  <2>1. row \in Rows /\ row.round \in 0..TotalRounds /\ 0 \in 0..TotalRounds
    BY <1>1, TotalRoundsAssumption DEF Check, Rows
  <2>2. op' \in Ops
    BY <1>1, <2>1 DEF Check, Ops
  <2> QED BY <1>1, <2>2 DEF Check, Ops, world, history
<1>2. CASE WriteStatus
  <2>1. op' \in Ops
    BY <1>2, <1>0 DEF WriteStatus, Ops, Idle
  <2>2. row' \in Rows \cup {NoRow}
    BY <1>2, WriteFacts DEF WriteStatus
  <2> QED BY <1>2, <2>1, <2>2 DEF WriteStatus, Ops, history
<1>3. CASE CallStart
  <2>1. CASE managed # NoSlot
    BY <1>3, <2>1 DEF CallStart, world, history
  <2>2. CASE managed = NoSlot
    <3>1. engines' \in [Slots -> Engines] /\ managed' \in Slots /\ late' \in [Slots -> 0..2]
      BY <1>3, <2>2, CreatedFacts DEF CallStart, Create
    <3>2. 1 \in 0..TotalRounds
      BY TotalRoundsAssumption
    <3>3. row' \in Rows \cup {NoRow}
      BY <1>3, <2>2, <3>2 DEF CallStart, Rows
    <3> QED BY <1>3, <2>2, <3>1, <3>3 DEF CallStart
  <2> QED BY <2>1, <2>2
<1>4. CASE CallFails
  <2>1. op' = Idle \/ op' \in Ops
    BY <1>4, <1>0 DEF CallFails, Calling, Ops, Idle
  <2> QED BY <1>4, <2>1 DEF CallFails, Ops, world, history
<1>5. CASE RollBack
  <2>1. row' \in Rows \cup {NoRow}
    BY <1>5, WriteFacts DEF RollBack
  <2> QED BY <1>5, <2>1 DEF RollBack, history
<1>6. CASE CallPause
  <2>1. CASE managed # NoSlot /\ engines[managed].running
    <3>1. engines' \in [Slots -> Engines]
      BY <1>6, <2>1, HandledFacts DEF CallPause
    <3>2. row' \in Rows \cup {NoRow}
      BY <1>6, <2>1, WriteFacts DEF CallPause
    <3> QED BY <1>6, <3>1, <3>2 DEF CallPause, history
  <2>2. CASE ~(managed # NoSlot /\ engines[managed].running)
    BY <1>6, <2>2 DEF CallPause, history
  <2> QED BY <2>1, <2>2
<1>7. CASE CallResume
  <2>1. CASE managed # NoSlot
    <3>1. engines' \in [Slots -> Engines]
      BY <1>7, <2>1, HandledFacts DEF CallResume
    <3>2. row' \in Rows \cup {NoRow}
      BY <1>7, <2>1, WriteFacts DEF CallResume
    <3> QED BY <1>7, <2>1, <3>1, <3>2 DEF CallResume, history
  <2>2. CASE managed = NoSlot
    <3>0. op.round \in 0..TotalRounds
      BY <1>0, <1>7 DEF CallResume, Calling, Ops, Idle
    <3>1. engines' \in [Slots -> Engines] /\ managed' \in Slots /\ late' \in [Slots -> 0..2]
      BY <1>7, <2>2, <3>0, CreatedFacts DEF CallResume, Create
    <3>2. 1 \in 0..TotalRounds
      BY TotalRoundsAssumption
    <3>3. row' \in Rows \cup {NoRow}
      BY <1>7, <2>2, <3>2 DEF CallResume, Rows
    <3> QED BY <1>7, <2>2, <3>1, <3>3 DEF CallResume
  <2> QED BY <2>1, <2>2
<1>8. CASE CallStop
  <2>1. CASE managed # NoSlot
    <3>1. Stopped(engines[managed]) \in Engines
      BY <2>1, HandledFacts
    <3>2. engines' \in [Slots -> Engines]
      BY <1>8, <2>1, <3>1, KeptFacts DEF CallStop
    <3>3. row' \in Rows \cup {NoRow}
      BY <1>8, <2>1, WriteFacts DEF CallStop
    <3> QED BY <1>8, <2>1, <3>2, <3>3 DEF CallStop, history
  <2>2. CASE managed = NoSlot
    BY <1>8, <2>2 DEF CallStop, history
  <2> QED BY <2>1, <2>2
<1>9. CASE ClearScores
  <2>1. op' \in Ops
    BY <1>9, <1>0 DEF ClearScores, Ops, Idle
  <2> QED BY <1>9, <2>1 DEF ClearScores, Ops, history
<1>10. CASE ResetRow
  <2>1. 0 \in 0..TotalRounds
    BY TotalRoundsAssumption
  <2>2. row' \in Rows \cup {NoRow}
    BY <1>10, <2>1 DEF ResetRow, Draft, Rows
  <2> QED BY <1>10, <2>2 DEF ResetRow, history
<1>11. CASE EditRead \/ EditSave \/ DeleteGame
  BY <1>11 DEF EditRead, EditSave, DeleteGame, world, history
<1>12. ASSUME NEW s \in Slots, Silent(s) \/ Judge(s) \/ RoundEnd(s)
       PROVE  TypeOK'
  <2>1. PICK e \in Engines : Quiet(s, e)
    BY <1>12, QuietSteps
  <2>2. engines' \in [Slots -> Engines]
    BY <2>1, StepFacts DEF Quiet
  <2>3. CASE RoundEnd(s)
    <3>1. engines[s].round \in 1..TotalRounds
      BY <2>3, TotalRoundsAssumption DEF RoundEnd, PlaceInv, Placed, Engines
    <3>2. late' \in [Slots -> 0..2]
      BY <2>3, LateFacts DEF RoundEnd
    <3> QED BY <2>1, <2>2, <2>3, <3>1, <3>2 DEF Quiet, RoundEnd
  <2>4. CASE Silent(s) \/ Judge(s)
    BY <2>1, <2>2, <2>4 DEF Quiet, Silent, Judge, history
  <2> QED BY <1>12, <2>3, <2>4
<1>13. ASSUME NEW s \in Slots, RoundStart(s)
       PROVE  TypeOK'
  <2>1. RoundStarted(engines[s]) \in Engines /\ row' \in Rows \cup {NoRow}
    BY <1>13, RoundStartFacts
  <2>2. engines' \in [Slots -> Engines]
    BY <1>13, <2>1, StepFacts DEF RoundStart
  <2>3. late' \in [Slots -> 0..2] /\ foreign' \in BOOLEAN
    BY <1>13, LateFacts DEF RoundStart
  <2> QED BY <1>13, <2>1, <2>2, <2>3 DEF RoundStart, Late
<1>14. ASSUME NEW s \in Slots, FinishGame(s)
       PROVE  TypeOK'
  <2>1. Finished(engines[s]) \in Engines
    BY GoroutineFacts
  <2>2. engines' \in [Slots -> Engines]
    BY <1>14, <2>1, StepFacts DEF FinishGame
  <2>3. row' \in Rows \cup {NoRow} /\ foreign' \in BOOLEAN
    BY <1>14, WriteFacts DEF FinishGame
  <2> QED BY <1>14, <2>2, <2>3 DEF FinishGame
<1>15. CASE Crash \/ Shutdown
  <2>1. engines' \in [Slots -> Engines] /\ late' \in [Slots -> 0..2]
    BY <1>15, CreatedFacts DEF Crash, Shutdown, Forget
  <2>2. row' \in Rows \cup {NoRow}
    BY <1>15, WriteFacts DEF Crash, Shutdown
  <2> QED BY <1>15, <2>1, <2>2 DEF Crash, Shutdown, Forget
<1>16. CASE UNCHANGED vars
  BY <1>16 DEF vars, world, history
<1> QED
  BY <1>1, <1>2, <1>3, <1>4, <1>5, <1>6, <1>7, <1>8, <1>9, <1>10, <1>11, <1>12, <1>13,
     <1>14, <1>15, <1>16 DEF Next, Service, Handlers, Goroutine
-----------------------------------------------------------------------------
(***************************************************************************)
(* Where the engines are.                                                  *)
(***************************************************************************)
LEMMA PlaceStep == ASSUME TypeOK, PlaceInv, OffInv, [Next]_vars PROVE PlaceInv'
<1>1. /\ Placed(NoEngine)
      /\ Placed(Started)
      /\ \A r \in 0..TotalRounds : Placed(Restored(r))
  <2>1. \A r \in 0..TotalRounds : (IF r = 0 THEN 1 ELSE r) >= 1
    OBVIOUS
  <2> QED BY <2>1, CreatedFacts DEF Placed
<1>2. CASE UNCHANGED engines
  BY <1>2 DEF PlaceInv
<1>3. ASSUME NEW s \in Slots, NEW e \in Engines, Placed(e), engines' = [engines EXCEPT ![s] = e]
      PROVE  PlaceInv'
  BY <1>3 DEF PlaceInv, TypeOK
<1>4. ASSUME NEW s \in Slots, NEW e \in Engines, Placed(e), Step(s, e)
      PROVE  PlaceInv'
  <2>1. Placed(engines'[s])
    BY <1>1, <1>4, StepFacts
  <2>2. \A t \in Slots : t # s => engines'[t] = engines[t]
    BY <1>4, StepFacts
  <2> QED BY <2>1, <2>2 DEF PlaceInv
<1>5. CASE CallStart
  <2>1. CASE managed # NoSlot
    BY <1>2, <1>5, <2>1 DEF CallStart, world
  <2>2. CASE managed = NoSlot
    BY <1>1, <1>3, <1>5, <2>2, CreatedFacts DEF CallStart, Create
  <2> QED BY <2>1, <2>2
<1>6. CASE CallPause
  <2>1. CASE managed # NoSlot /\ engines[managed].running
    <3>1. managed \in Slots /\ engines[managed] \in Engines /\ Placed(engines[managed])
      BY <2>1 DEF TypeOK, PlaceInv
    <3>2. Paused(engines[managed]) \in Engines /\ Placed(Paused(engines[managed]))
      BY <3>1, HandledFacts DEF Placed
    <3> QED BY <1>3, <1>6, <2>1, <3>1, <3>2 DEF CallPause
  <2>2. CASE ~(managed # NoSlot /\ engines[managed].running)
    BY <1>2, <1>6, <2>2 DEF CallPause
  <2> QED BY <2>1, <2>2
<1>7. CASE CallResume
  <2>1. CASE managed # NoSlot
    <3>1. managed \in Slots /\ engines[managed] \in Engines /\ Placed(engines[managed])
      BY <2>1 DEF TypeOK, PlaceInv
    <3>2. Resumed(engines[managed]) \in Engines /\ Placed(Resumed(engines[managed]))
      BY <3>1, HandledFacts DEF Placed
    <3> QED BY <1>3, <1>7, <2>1, <3>1, <3>2 DEF CallResume
  <2>2. CASE managed = NoSlot
    <3>1. op.round \in 0..TotalRounds
      BY <1>7 DEF CallResume, Calling, Idle, TypeOK
    <3> QED BY <1>1, <1>3, <1>7, <2>2, <3>1, CreatedFacts DEF CallResume, Create
  <2> QED BY <2>1, <2>2
<1>8. CASE CallStop
  <2>1. CASE managed # NoSlot
    <3>1. managed \in Slots /\ engines[managed] \in Engines /\ Placed(engines[managed])
      BY <2>1 DEF TypeOK, PlaceInv
    <3>2. Stopped(engines[managed]) \in Engines /\ Placed(Stopped(engines[managed]))
      BY <3>1, HandledFacts DEF Placed
    <3>3. /\ Kept(Stopped(engines[managed]), FALSE) \in Engines
          /\ Placed(Kept(Stopped(engines[managed]), FALSE))
      BY <1>1, <3>2, KeptFacts
    <3> QED BY <1>3, <1>8, <2>1, <3>1, <3>3 DEF CallStop
  <2>2. CASE managed = NoSlot
    BY <1>2, <1>8, <2>2 DEF CallStop
  <2> QED BY <2>1, <2>2
<1>9. ASSUME NEW s \in Slots, Silent(s) \/ Judge(s) \/ RoundEnd(s)
      PROVE  PlaceInv'
  BY <1>4, <1>9, QuietSteps DEF Quiet
<1>10. ASSUME NEW s \in Slots, RoundStart(s)
       PROVE  PlaceInv'
  BY <1>4, <1>10, RoundStartFacts DEF RoundStart
<1>11. ASSUME NEW s \in Slots, FinishGame(s)
       PROVE  PlaceInv'
  <2>1. engines[s] \in Engines /\ Placed(engines[s]) /\ engines[s].at = "finishing"
    BY <1>11 DEF TypeOK, PlaceInv, FinishGame
  <2>2. Finished(engines[s]) \in Engines /\ Placed(Finished(engines[s]))
    BY <2>1, GoroutineFacts DEF Placed
  <2> QED BY <1>4, <1>11, <2>2 DEF FinishGame
<1>12. CASE Crash \/ Shutdown
  BY <1>1, <1>12 DEF Crash, Shutdown, Forget, PlaceInv
<1>13. CASE WriteStatus \/ CallFails \/ RollBack \/ ClearScores \/ ResetRow \/ UNCHANGED vars
  BY <1>2, <1>13 DEF WriteStatus, CallFails, RollBack, ClearScores, ResetRow, vars, world
<1>14. CASE Handlers \/ \E kind \in Kinds : Check(kind)
  BY <1>2, <1>14 DEF Handlers, EditRead, EditSave, DeleteGame, Check, world
<1> QED
  BY <1>5, <1>6, <1>7, <1>8, <1>9, <1>10, <1>11, <1>12, <1>13, <1>14
  DEF Next, Service, Goroutine

LEMMA OffStep == ASSUME TypeOK, PlaceInv, OffInv, [Next]_vars PROVE OffInv'
<1> USE DEF OffInv, UnmanagedEngineIsOff
<1>1. CASE UNCHANGED <<engines, managed>>
  BY <1>1
<1>2. ASSUME NEW s \in Slots, NEW e \in Engines, Step(s, e), e.at # "none",
             e.running => engines[s].running, UNCHANGED managed
      PROVE  OffInv'
  <2>1. \A t \in Slots : t # managed => ~engines'[t].running
    BY <1>2, StepFacts
  <2>2. managed # NoSlot => engines'[managed].at # "none"
    <3>1. CASE s = managed
      BY <1>2, <3>1, StepFacts
    <3>2. CASE s # managed
      BY <1>2, <3>2, StepFacts DEF TypeOK
    <3> QED BY <3>1, <3>2
  <2> QED BY <1>2, <2>1, <2>2
<1>3. CASE CallStart
  <2>1. CASE managed # NoSlot
    BY <1>1, <1>3, <2>1 DEF CallStart, world
  <2>2. CASE managed = NoSlot
    BY <1>3, <2>2, CreatedFacts, SlotAssumption DEF CallStart, Create, TypeOK
  <2> QED BY <2>1, <2>2
<1>4. CASE CallPause
  <2>1. CASE managed # NoSlot /\ engines[managed].running
    BY <1>4, <2>1, HandledFacts DEF CallPause, TypeOK
  <2>2. CASE ~(managed # NoSlot /\ engines[managed].running)
    BY <1>1, <1>4, <2>2 DEF CallPause
  <2> QED BY <2>1, <2>2
<1>5. CASE CallResume
  <2>1. CASE managed # NoSlot
    BY <1>5, <2>1, HandledFacts DEF CallResume, TypeOK
  <2>2. CASE managed = NoSlot
    <3>1. op.round \in 0..TotalRounds
      BY <1>5 DEF CallResume, Calling, Idle, TypeOK
    <3> QED BY <1>5, <2>2, <3>1, CreatedFacts, SlotAssumption DEF CallResume, Create, TypeOK
  <2> QED BY <2>1, <2>2
<1>6. CASE CallStop
  <2>1. CASE managed # NoSlot
    <3>1. Stopped(engines[managed]) \in Engines /\ ~Stopped(engines[managed]).running
      BY <2>1, HandledFacts DEF TypeOK
    <3>2. ~Kept(Stopped(engines[managed]), FALSE).running
      BY <3>1, KeptFacts
    <3> QED BY <1>6, <2>1, <3>2 DEF CallStop, TypeOK
  <2>2. CASE managed = NoSlot
    BY <1>1, <1>6, <2>2 DEF CallStop
  <2> QED BY <2>1, <2>2
<1>7. ASSUME NEW s \in Slots, Silent(s) \/ Judge(s) \/ RoundEnd(s)
      PROVE  OffInv'
  BY <1>2, <1>7, QuietSteps DEF Quiet
<1>8. ASSUME NEW s \in Slots, RoundStart(s)
      PROVE  OffInv'
  BY <1>2, <1>8, RoundStartFacts DEF RoundStart, Late
<1>9. ASSUME NEW s \in Slots, FinishGame(s)
      PROVE  OffInv'
  <2>1. engines[s] \in Engines
    BY DEF TypeOK
  <2> QED BY <1>2, <1>9, <2>1, GoroutineFacts DEF FinishGame
<1>10. CASE Crash \/ Shutdown
  BY <1>10, CreatedFacts DEF Crash, Shutdown, Forget
<1>11. CASE WriteStatus \/ CallFails \/ RollBack \/ ClearScores \/ ResetRow \/ UNCHANGED vars
  BY <1>1, <1>11 DEF WriteStatus, CallFails, RollBack, ClearScores, ResetRow, vars, world
<1>12. CASE Handlers \/ \E kind \in Kinds : Check(kind)
  BY <1>1, <1>12 DEF Handlers, EditRead, EditSave, DeleteGame, Check, world
<1> QED
  BY <1>3, <1>4, <1>5, <1>6, <1>7, <1>8, <1>9, <1>10, <1>11, <1>12
  DEF Next, Service, Goroutine
-----------------------------------------------------------------------------
(***************************************************************************)
(* The engine and the row.                                                 *)
(***************************************************************************)
LEMMA AgreementStep == ASSUME IInv, [Next]_vars PROVE AgreementInv'
<1> USE DEF AgreementInv, InFlight
<1>0. /\ TypeOK /\ PlaceInv /\ OffInv /\ AgreementInv /\ OpInv
      /\ managed # NoSlot => managed \in Slots /\ engines[managed] \in Engines
  BY DEF IInv, TypeOK
<1>1. ASSUME NEW kind \in Kinds, Check(kind)
      PROVE  AgreementInv'
  <2>1. kind = "start" => row.status = "draft"
    BY <1>1 DEF Check, Can, CanStart
  <2>2. kind = "reset" => row.status \in {"finished", "draft"}
    BY <1>1 DEF Check, Can, CanReset
  <2> QED BY <1>0, <1>1, <2>1, <2>2 DEF Check, Idle, world, history
<1>2. CASE WriteStatus
  <2>1. /\ op'.kind = op.kind /\ op'.step = "written"
        /\ UNCHANGED <<engines, managed, foreign>>
    BY <1>0, <1>2 DEF WriteStatus, Idle, TypeOK, history
  <2>2. CASE op.kind \in {"start", "resume"}
    <3>1. row # NoRow => row'.status = "running" /\ row'.round = row.round
      BY <1>0, <1>2, <2>2, WriteFacts DEF WriteStatus, TypeOK
    <3>2. row' = NoRow <=> row = NoRow
      BY <1>0, <1>2, <2>2, WriteFacts DEF WriteStatus, TypeOK
    <3> QED BY <1>0, <1>2, <2>1, <2>2, <3>1, <3>2 DEF WriteStatus
  <2>3. CASE op.kind = "pause"
    <3>1. row # NoRow => row'.status = "paused" /\ row'.round = row.round
      BY <1>0, <1>2, <2>3, WriteFacts DEF WriteStatus, TypeOK
    <3>2. row' = NoRow <=> row = NoRow
      BY <1>0, <1>2, <2>3, WriteFacts DEF WriteStatus, TypeOK
    <3> QED BY <1>0, <1>2, <2>1, <2>3, <3>1, <3>2 DEF WriteStatus
  <2>4. CASE op.kind = "stop"
    <3>1. row # NoRow => row'.status = "finished" /\ row'.round = row.round
      BY <1>0, <1>2, <2>4, WriteFacts DEF WriteStatus, TypeOK
    <3>2. row' = NoRow <=> row = NoRow
      BY <1>0, <1>2, <2>4, WriteFacts DEF WriteStatus, TypeOK
    <3> QED BY <1>0, <1>2, <2>1, <2>4, <3>1, <3>2 DEF WriteStatus
  <2> QED BY <1>2, <2>2, <2>3, <2>4 DEF WriteStatus
<1>3. CASE CallStart
  <2>1. CASE managed # NoSlot
    BY <1>0, <1>3, <2>1 DEF CallStart, Calling, Idle, world, history
  <2>2. CASE managed = NoSlot
    <3>1. /\ engines'[managed'] = Started /\ UNCHANGED foreign
          /\ op' = Idle /\ op.kind = "start" /\ op.step = "written"
      BY <1>0, <1>3, <2>2 DEF CallStart, Create, Calling, TypeOK
    <3>2. ~foreign /\ row' # NoRow => row'.status = "running" /\ row'.round = 1
      BY <1>0, <1>3, <2>2, <3>1 DEF CallStart, OpInv, TypeOK, Rows
    <3> QED BY <3>1, <3>2, CreatedFacts DEF Idle
  <2> QED BY <2>1, <2>2
<1>4. CASE CallFails \/ RollBack
  <2>1. managed' = NoSlot
    BY <1>0, <1>4 DEF CallFails, RollBack, OpInv, world
  <2> QED BY <2>1
<1>5. CASE CallPause
  <2>0. op' = Idle /\ op.kind = "pause" /\ UNCHANGED <<managed, foreign>>
    BY <1>5 DEF CallPause, Calling, history
  <2>1. CASE managed # NoSlot /\ engines[managed].running
    <3>1. engines'[managed] = Paused(engines[managed])
      BY <1>0, <1>5, <2>1 DEF CallPause, TypeOK
    <3>2. row # NoRow => row'.status = "paused" /\ row'.round = row.round
      BY <1>0, <1>5, <2>1, WriteFacts DEF CallPause, TypeOK
    <3>3. row' = NoRow <=> row = NoRow
      BY <1>0, <1>5, <2>1, WriteFacts DEF CallPause, TypeOK
    <3> QED BY <1>0, <2>0, <2>1, <3>1, <3>2, <3>3, HandledFacts DEF Idle
  <2>2. CASE ~(managed # NoSlot /\ engines[managed].running)
    BY <1>0, <1>5, <2>0, <2>2 DEF CallPause, Idle
  <2> QED BY <2>1, <2>2
<1>6. CASE CallResume
  <2>0. op' = Idle /\ op.kind = "resume" /\ op.step = "written"
    BY <1>6 DEF CallResume, Calling
  <2>1. CASE managed # NoSlot /\ engines[managed].running
    <3>1. engines'[managed] = engines[managed] /\ UNCHANGED <<row, managed, foreign>>
      BY <1>0, <1>6, <2>1 DEF CallResume, TypeOK, Resumed, history
    <3> QED BY <1>0, <2>0, <2>1, <3>1 DEF Idle
  <2>2. CASE managed # NoSlot /\ ~engines[managed].running
    <3>1. engines'[managed] = Resumed(engines[managed]) /\ UNCHANGED <<managed, foreign>>
      BY <1>0, <1>6, <2>2 DEF CallResume, TypeOK, history
    <3>2. row # NoRow => row'.status = "running" /\ row'.round = row.round
      BY <1>0, <1>6, <2>2, WriteFacts DEF CallResume, TypeOK
    <3>3. row' = NoRow <=> row = NoRow
      BY <1>0, <1>6, <2>2, WriteFacts DEF CallResume, TypeOK
    <3> QED BY <1>0, <2>0, <2>2, <3>1, <3>2, <3>3, HandledFacts DEF Idle
  <2>3. CASE managed = NoSlot
    <3>1. /\ engines'[managed'] = Restored(op.round) /\ UNCHANGED foreign
          /\ op.round \in 0..TotalRounds
      BY <1>0, <1>6, <2>0, <2>3 DEF CallResume, Create, TypeOK, Idle
    <3>2. row = NoRow => row' = NoRow
      BY <1>6, <2>3 DEF CallResume
    <3>3. row # NoRow => row'.status = "running"
                         /\ row'.round = IF op.round = 0 THEN 1 ELSE row.round
      BY <1>6, <2>3 DEF CallResume
    <3>4. ~foreign /\ row # NoRow => op.round = row.round
      BY <1>0, <2>0, <2>3 DEF OpInv
    <3> QED BY <2>0, <3>1, <3>2, <3>3, <3>4, CreatedFacts DEF Idle
  <2> QED BY <2>1, <2>2, <2>3
<1>7. CASE CallStop \/ Crash \/ Shutdown
  <2>1. managed' = NoSlot
    BY <1>7 DEF CallStop, Crash, Shutdown, Forget
  <2> QED BY <2>1
<1>8. CASE ClearScores
  <2>1. op'.kind = op.kind /\ op.kind = "reset" /\ UNCHANGED <<row, engines, managed, foreign>>
    BY <1>0, <1>8 DEF ClearScores, Idle, TypeOK, history
  <2> QED BY <1>0, <2>1
<1>9. CASE ResetRow
  <2>1. op' = Idle /\ op.kind = "reset" /\ UNCHANGED <<engines, managed, foreign>>
    BY <1>9 DEF ResetRow, Calling, history
  <2>2. ~foreign /\ row # NoRow => row.status \in {"finished", "draft"}
    BY <1>0, <2>1 DEF OpInv
  <2>3. row = NoRow => row' = NoRow
    BY <1>9 DEF ResetRow
  <2> QED BY <1>0, <2>1, <2>2, <2>3
<1>10. CASE EditRead \/ DeleteGame
  BY <1>0, <1>10 DEF EditRead, DeleteGame, world, history
<1>11. CASE EditSave
  <2>1. CASE row = edit
    <3>1. UNCHANGED <<row, engines, managed, op>>
      BY <1>11, <2>1 DEF EditSave
    <3>2. foreign' = foreign
      BY <1>0, <1>11, <2>1 DEF EditSave, TypeOK
    <3> QED BY <1>0, <3>1, <3>2
  <2>2. CASE row # edit
    <3>1. foreign'
      BY <1>11, <2>2, Zenon DEF EditSave
    <3> QED BY <3>1
  <2> QED BY <2>1, <2>2
<1>12. ASSUME NEW s \in Slots, Silent(s) \/ Judge(s) \/ RoundEnd(s)
       PROVE  AgreementInv'
  <2>1. PICK e \in Engines : Quiet(s, e)
    BY <1>0, <1>12, QuietSteps
  <2>2. UNCHANGED <<row, managed, op, foreign>> /\ Step(s, e)
    BY <2>1 DEF Quiet
  <2>3. CASE s = managed
    <3>1. engines'[managed] = e
      BY <1>0, <2>2, <2>3, StepFacts
    <3>2. /\ e.round = engines[managed].round /\ e.running = engines[managed].running
          /\ engines[managed].at # "done"
      BY <2>1, <2>3 DEF Quiet
    <3> QED BY <1>0, <2>2, <3>1, <3>2
  <2>4. CASE s # managed
    <3>1. managed # NoSlot => engines'[managed] = engines[managed]
      BY <1>0, <2>2, <2>4, StepFacts
    <3> QED BY <1>0, <2>2, <3>1
  <2> QED BY <2>3, <2>4
<1>13. ASSUME NEW s \in Slots, RoundStart(s)
       PROVE  AgreementInv'
  <2>1. CASE s # managed
    BY <2>1, <1>13 DEF RoundStart
  <2>2. CASE s = managed
    <3>1. UNCHANGED <<managed, op>> /\ Step(s, RoundStarted(engines[s])) /\ (foreign' = foreign)
          /\ engines[s].at = "starting"
      BY <1>0, <1>13, <2>2 DEF RoundStart, Late, TypeOK
    <3>2. engines'[managed] = RoundStarted(engines[managed])
      BY <1>0, <1>13, <2>2, <3>1, RoundStartFacts, StepFacts
    <3>3. /\ row' = NoRow <=> row = NoRow
          /\ row # NoRow => row'.status = row.status /\ row'.round = engines[s].round + 1
          /\ RoundStarted(engines[s]).running = engines[s].running
          /\ RoundStarted(engines[s]).round = engines[s].round + 1
      BY <1>0, <1>13, RoundStartFacts
    <3> QED BY <1>0, <2>2, <3>1, <3>2, <3>3
  <2> QED BY <2>1, <2>2
<1>14. ASSUME NEW s \in Slots, FinishGame(s)
       PROVE  AgreementInv'
  <2>1. CASE s # managed
    BY <2>1, <1>14 DEF FinishGame
  <2>2. CASE s = managed
    <3>1. UNCHANGED managed /\ Step(s, Finished(engines[s])) /\ engines[s] \in Engines
      BY <1>0, <1>14, <2>2 DEF FinishGame, TypeOK
    <3>2. engines'[managed].at = "done" /\ ~engines'[managed].running
      BY <1>0, <2>2, <3>1, GoroutineFacts, StepFacts
    <3> QED BY <3>1, <3>2
  <2> QED BY <2>1, <2>2
<1>15. CASE UNCHANGED vars
  BY <1>0, <1>15 DEF vars, world, history
<1> QED
  BY <1>1, <1>2, <1>3, <1>4, <1>5, <1>6, <1>7, <1>8, <1>9, <1>10, <1>11, <1>12, <1>13,
     <1>14, <1>15 DEF Next, Service, Handlers, Goroutine

LEMMA OpStep == ASSUME IInv, [Next]_vars PROVE OpInv'
<1> USE DEF OpInv, InFlight
<1>0. /\ TypeOK /\ PlaceInv /\ OffInv /\ OpInv
      /\ op = Idle \/ op \in Ops
  BY DEF IInv, TypeOK, Ops
<1>1. CASE op' = Idle
  BY <1>1 DEF Idle
<1>2. ASSUME NEW kind \in Kinds, Check(kind)
      PROVE  OpInv'
  <2>1. kind = "reset" => row.status \in {"finished", "draft"}
    BY <1>2 DEF Check, Can, CanReset
  <2>2. /\ op'.kind = kind /\ op'.step = "checked" /\ (kind = "resume" => op'.round = row.round)
        /\ UNCHANGED <<row, managed, foreign>>
    BY <1>2 DEF Check, world, history
  <2> QED BY <2>1, <2>2
<1>3. CASE WriteStatus
  <2>1. /\ op'.kind = op.kind /\ op'.step = "written" /\ op'.round = op.round
        /\ UNCHANGED <<managed, foreign>>
        /\ op.kind \in {"start", "pause", "resume", "stop"}
    BY <1>0, <1>3 DEF WriteStatus, Idle, Ops, history
  <2>2. CASE op.kind \in {"start", "resume"}
    <3>1. row # NoRow => row'.status = "running" /\ row'.round = row.round
      BY <1>0, <1>3, <2>2, WriteFacts DEF WriteStatus, TypeOK
    <3>2. row' = NoRow <=> row = NoRow
      BY <1>0, <1>3, <2>2, WriteFacts DEF WriteStatus, TypeOK
    <3> QED BY <1>0, <2>1, <2>2, <3>1, <3>2
  <2>3. CASE op.kind \in {"pause", "stop"}
    BY <2>1, <2>3
  <2> QED BY <2>1, <2>2, <2>3
<1>4. CASE CallFails
  <2>1. CASE op' = Idle
    BY <1>1, <2>1
  <2>2. CASE op' = [op EXCEPT !.step = "failed"]
    <3>1. op.kind = "start" /\ managed = NoSlot /\ UNCHANGED managed
      BY <1>4, <2>2, <1>0 DEF CallFails, Calling, world, Idle, Ops
    <3>2. op'.kind = "start" /\ op'.step = "failed"
      BY <1>0, <1>4, <2>2, <3>1 DEF Idle, Ops
    <3> QED BY <3>1, <3>2
  <2> QED BY <1>4, <2>1, <2>2 DEF CallFails
<1>5. CASE ClearScores
  <2>1. /\ op.kind = "reset" /\ op'.kind = "reset" /\ op'.step = "written"
        /\ UNCHANGED <<row, managed, foreign>>
    BY <1>0, <1>5 DEF ClearScores, Idle, Ops, history
  <2> QED BY <1>0, <2>1
<1>6. CASE EditRead \/ DeleteGame
  BY <1>0, <1>6 DEF EditRead, DeleteGame, world, history
<1>7. CASE EditSave
  <2>0. UNCHANGED <<managed, op>>
    BY <1>7 DEF EditSave
  <2>1. CASE row = edit
    <3>1. UNCHANGED row
      BY <1>7, <2>1 DEF EditSave
    <3>2. foreign' = foreign
      BY <1>0, <1>7, <2>1 DEF EditSave, TypeOK
    <3> QED BY <1>0, <2>0, <3>1, <3>2
  <2>2. CASE row # edit
    <3>1. foreign'
      BY <1>7, <2>2, Zenon DEF EditSave
    <3> QED BY <1>0, <2>0, <3>1
  <2> QED BY <2>1, <2>2
<1>8. ASSUME NEW s \in Slots, Silent(s) \/ Judge(s) \/ RoundEnd(s)
      PROVE  OpInv'
  <2>1. UNCHANGED <<row, managed, op, foreign>>
    BY <1>0, <1>8, QuietSteps DEF Quiet
  <2> QED BY <1>0, <2>1
<1>9. ASSUME NEW s \in Slots, RoundStart(s) \/ FinishGame(s)
      PROVE  OpInv'
  <2>1. UNCHANGED <<managed, op>>
    BY <1>9 DEF RoundStart, FinishGame, Late
  <2>2. CASE s # managed
    <3>1. foreign'
      BY <1>9, <2>2, Zenon DEF RoundStart, FinishGame
    <3> QED BY <1>0, <2>1, <3>1
  <2>3. CASE s = managed
    <3>1. managed # NoSlot
      BY <2>3, SlotAssumption
    <3>2. engines[managed].at # "done"
      BY <1>9, <2>3 DEF RoundStart, FinishGame
    <3>3. ~foreign /\ row # NoRow => op.kind \notin {"start", "reset"}
      BY <1>0, <3>1, <3>2, Zenon DEF IInv, AgreementInv
    <3>4. row' = NoRow <=> row = NoRow
      <4>1. CASE RoundStart(s)
        BY <1>0, <4>1, RoundStartFacts
      <4>2. CASE FinishGame(s)
        BY <1>0, <4>2, WriteFacts DEF FinishGame, TypeOK
      <4> QED BY <1>9, <4>1, <4>2
    <3>5. foreign' = foreign
      BY <1>0, <1>9, <2>3 DEF RoundStart, FinishGame, TypeOK
    <3> QED BY <1>0, <2>1, <3>1, <3>3, <3>4, <3>5
  <2> QED BY <2>2, <2>3
<1>10. CASE UNCHANGED vars
  BY <1>0, <1>10 DEF vars, world, history
<1>11. CASE CallStart \/ RollBack \/ CallPause \/ CallResume \/ CallStop \/ ResetRow
            \/ Crash \/ Shutdown
  BY <1>1, <1>11 DEF CallStart, RollBack, CallPause, CallResume, CallStop, ResetRow,
                     Crash, Shutdown, Forget
<1> QED
  BY <1>2, <1>3, <1>4, <1>5, <1>6, <1>7, <1>8, <1>9, <1>10, <1>11
  DEF Next, Service, Handlers, Goroutine

LEMMA Start == ASSUME Init PROVE IInv
<1>1. 0 \in 0..TotalRounds
  BY TotalRoundsAssumption
<1>2. TypeOK
  <2>1. Draft \in Rows
    BY <1>1 DEF Draft, Rows
  <2>2. [s \in Slots |-> NoEngine] \in [Slots -> Engines] /\ [s \in Slots |-> 0] \in [Slots -> 0..2]
    BY CreatedFacts
  <2> QED BY <2>1, <2>2 DEF Init, TypeOK
<1>3. PlaceInv /\ OffInv
  BY CreatedFacts DEF Init, PlaceInv, Placed, OffInv, UnmanagedEngineIsOff
<1>4. AgreementInv /\ OpInv
  BY DEF Init, AgreementInv, OpInv, InFlight, Idle
<1> QED BY <1>2, <1>3, <1>4 DEF IInv

\* The four parts of the invariant hold together in every state.
THEOREM Inductive == Spec => []IInv
<1>1. Init => IInv
  BY Start
<1>2. IInv /\ [Next]_vars => IInv'
  <2> SUFFICES ASSUME IInv, [Next]_vars PROVE IInv'
    OBVIOUS
  <2>1. TypeOK /\ PlaceInv /\ OffInv
    BY DEF IInv
  <2> QED BY <2>1, TypeStep, PlaceStep, OffStep, AgreementStep, OpStep DEF IInv
<1> QED BY <1>1, <1>2, PTL DEF Spec

\* Rows, engines and operations keep their types: the round of an engine and of
\* the row never passes game.TotalRounds.
THEOREM TypeCorrect == Spec => []TypeOK
<1>1. IInv => TypeOK
  BY DEF IInv
<1> QED BY <1>1, Inductive, PTL

\* However operations, edits, deletions, crashes and goroutines interleave, the
\* engines the manager has let go of are off.
THEOREM EnginesOff == Spec => []UnmanagedEngineIsOff
<1>1. IInv => UnmanagedEngineIsOff
  BY DEF IInv, OffInv
<1> QED BY <1>1, Inductive, PTL

\* The managed engine and the row of its game agree whenever no operation of
\* GameService is under way, unless the row was overwritten from outside.
THEOREM Agreement == Spec => []EngineAgreesWithRow
<1>1. IInv => EngineAgreesWithRow
  BY DEF IInv, AgreementInv, InFlight, Idle, EngineAgreesWithRow
<1> QED BY <1>1, Inductive, PTL
-----------------------------------------------------------------------------
(***************************************************************************)
(* Whether a running game can be paused.                                   *)
(***************************************************************************)
\* Of the row, and of the row an edit will write.
Pausable(r) == r # NoRow /\ r.status = "running" => r.phase = "running"
PauseInv == Pausable(row) /\ Pausable(edit)

LEMMA WrittenPausable ==
  ASSUME row \in Rows \cup {NoRow},
         NEW status \in {"draft", "running", "paused", "finished"},
         NEW phase \in {"preparation", "running", "break", "finished"},
         Write(status, phase), status = "running" => phase = "running"
  PROVE  Pausable(row')
<1>1. CASE row = NoRow
  BY <1>1 DEF Write, Pausable
<1>2. CASE row # NoRow
  BY <1>2 DEF Write, Pausable, Rows
<1> QED BY <1>1, <1>2

LEMMA PauseStep == ASSUME TypeOK, PauseInv, [Next]_vars PROVE PauseInv'
<1> USE DEF PauseInv, Pausable
<1>0. row \in Rows \cup {NoRow}
  BY DEF TypeOK
<1>1. CASE UNCHANGED <<row, edit>>
  BY <1>1
<1>2. CASE WriteStatus \/ RollBack \/ CallPause \/ CallStop
  <2>1. UNCHANGED edit /\ (UNCHANGED row \/ Pausable(row'))
    BY <1>0, <1>2, WrittenPausable DEF WriteStatus, RollBack, CallPause, CallStop
  <2> QED BY <2>1
<1>3. CASE CallStart
  <2>1. row # NoRow /\ row' # row => row'.phase = "running"
    BY <1>0, <1>3 DEF CallStart, Rows, world
  <2>2. UNCHANGED edit /\ (row = NoRow => row' = NoRow)
    BY <1>3, SlotAssumption DEF CallStart, world
  <2> QED BY <2>1, <2>2
<1>4. CASE CallResume
  <2>1. UNCHANGED edit
    BY <1>4 DEF CallResume
  <2>2. CASE managed # NoSlot
    BY <1>0, <1>4, <2>1, <2>2, WrittenPausable DEF CallResume
  <2>3. CASE managed = NoSlot
    <3>1. row' = IF row = NoRow THEN NoRow
                 ELSE [status |-> "running", phase |-> "running",
                       round |-> IF op.round = 0 THEN 1 ELSE row.round]
      BY <1>4, <2>3 DEF CallResume
    <3> QED BY <2>1, <3>1
  <2> QED BY <2>2, <2>3
<1>5. CASE ResetRow
  BY <1>5 DEF ResetRow, Draft
<1>6. CASE EditRead \/ EditSave \/ DeleteGame
  BY <1>6 DEF EditRead, EditSave, DeleteGame, world
<1>7. ASSUME NEW s \in Slots, RoundStart(s) \/ FinishGame(s)
      PROVE  PauseInv'
  <2>1. CASE RoundStart(s)
    <3>1. row # NoRow => row'.phase = "running"
      BY <1>0, <2>1 DEF RoundStart, Rows
    <3>2. UNCHANGED edit /\ (row = NoRow => row' = NoRow)
      BY <2>1 DEF RoundStart, Late
    <3> QED BY <3>1, <3>2
  <2>2. CASE FinishGame(s)
    BY <1>0, <2>2, WrittenPausable DEF FinishGame
  <2> QED BY <1>7, <2>1, <2>2
<1>8. ASSUME NEW s \in Slots, Silent(s) \/ Judge(s) \/ RoundEnd(s)
      PROVE  PauseInv'
  BY <1>1, <1>8 DEF Silent, Judge, RoundEnd, Late
<1>9. CASE Crash \/ Shutdown
  <2>1. edit' = NoRow /\ (UNCHANGED row \/ Pausable(row'))
    BY <1>0, <1>9, WrittenPausable DEF Crash, Shutdown, Forget
  <2> QED BY <2>1
<1>10. CASE CallFails \/ ClearScores \/ UNCHANGED vars \/ \E kind \in Kinds : Check(kind)
  BY <1>1, <1>10 DEF CallFails, ClearScores, Check, vars, world
<1> QED
  BY <1>2, <1>3, <1>4, <1>5, <1>6, <1>7, <1>8, <1>9, <1>10
  DEF Next, Service, Handlers, Goroutine

\* The pause handler's second test, of the phase, refuses no running game:
\* edits and late engines included, whoever writes status running has written
\* phase running with it.
THEOREM PauseNotRefused == Spec => []RunningGameCanBePaused
<1>1. Init => PauseInv
  BY SlotAssumption DEF Init, Draft, PauseInv, Pausable
<1>2. TypeOK /\ PauseInv /\ [Next]_vars => PauseInv'
  BY PauseStep
<1>3. PauseInv => RunningGameCanBePaused
  BY DEF PauseInv, Pausable, RunningGameCanBePaused, CanPause
<1> QED BY <1>1, <1>2, <1>3, TypeCorrect, PTL DEF Spec
-----------------------------------------------------------------------------
(***************************************************************************)
(* Scores of the rounds that are over.                                     *)
(***************************************************************************)
Past(round) == 1..(round - 1)

\* The scores an engine can have behind it, at every place of its goroutine.
Scored(e, done) ==
  /\ e.at # "done" => Past(e.round) \subseteq done
  /\ e.at \in {"scored", "break", "starting"} => e.round \in done

\* An engine is built from the row, so the row must not run ahead of the scores
\* while an engine can still be built from it; ResetGame deletes scores, so no
\* engine may be alive meanwhile, even if the row has been deleted.
ScoreInv ==
  ~foreign =>
    /\ managed # NoSlot =>
         /\ op.kind \in {"start", "reset"} => engines[managed].at = "done"
         /\ Scored(engines[managed], scores)
    /\ op.kind = "resume" => Past(op.round) \subseteq scores
    /\ row # NoRow =>
         /\ row.status = "draft" \/ op.kind = "start" => row.round = 0
         /\ row.status # "finished" \/ op.kind \in {"pause", "resume"}
              => Past(row.round) \subseteq scores

LEMMA PastFacts ==
  /\ Past(0) = {} /\ Past(1) = {}
  /\ \A r \in 0..TotalRounds : Past(r + 1) \subseteq Past(r) \cup {r}
<1>1. Past(0) = {} /\ Past(1) = {}
  BY DEF Past
<1>2. ASSUME NEW r \in 0..TotalRounds
      PROVE  Past(r + 1) \subseteq Past(r) \cup {r}
  BY TotalRoundsAssumption DEF Past
<1> QED BY <1>1, <1>2

\* A goroutine scores its round before it goes on to the break.
LEMMA QuietScored ==
  ASSUME TypeOK, PlaceInv, NEW s \in Slots, Silent(s) \/ Judge(s) \/ RoundEnd(s),
         s = managed, Scored(engines[s], scores)
  PROVE  Scored(engines'[s], scores') /\ scores \subseteq scores'
<1>1. engines[s] \in Engines /\ Placed(engines[s])
  BY DEF TypeOK, PlaceInv
<1>2. ASSUME NEW e \in Engines, Step(s, e)
      PROVE  engines'[s] = e
  BY <1>2, StepFacts
<1>3. CASE Silent(s)
  <2>1. UNCHANGED scores
    BY <1>3 DEF Silent
  <2>2. CASE engines[s].at = "fresh" /\ Step(s, Begun(engines[s]))
    BY <1>1, <1>2, <2>1, <2>2, GoroutineFacts DEF Scored
  <2>3. CASE MayLeave(engines[s]) /\ Step(s, Left(engines[s]))
    BY <1>1, <1>2, <2>1, <2>3, GoroutineFacts DEF Scored, MayLeave
  <2>4. CASE MayReturn(engines[s]) /\ Step(s, Returned(engines[s]))
    BY <1>1, <1>2, <2>1, <2>4, GoroutineFacts DEF Scored
  <2> QED BY <1>3, <2>2, <2>3, <2>4 DEF Silent
<1>4. CASE Judge(s)
  <2>1. engines'[s] = Judged(engines[s]) /\ engines[s].at = "scored" /\ UNCHANGED scores
    BY <1>1, <1>2, <1>4, JudgedFacts DEF Judge
  <2> QED BY <1>1, <2>1, JudgedFacts DEF Scored
<1>5. CASE RoundEnd(s)
  <2>1. /\ engines'[s] = RoundEnded(engines[s]) /\ engines[s].at = "ending"
        /\ scores' = scores \cup {engines[s].round}
    BY <1>1, <1>2, <1>5, GoroutineFacts DEF RoundEnd
  <2> QED BY <1>1, <2>1, GoroutineFacts DEF Scored
<1> QED BY <1>3, <1>4, <1>5

LEMMA ScoreStep == ASSUME IInv, ScoreInv, [Next]_vars PROVE ScoreInv'
<1>0. /\ TypeOK /\ PlaceInv /\ OffInv /\ AgreementInv /\ OpInv
      /\ managed # NoSlot => managed \in Slots /\ engines[managed] \in Engines
      /\ op = Idle \/ op \in Ops
  BY DEF IInv, TypeOK, Ops
<1>1. ASSUME NEW kind \in Kinds, Check(kind)
      PROVE  ScoreInv'
  <2>1. /\ kind = "start" => row.status = "draft"
        /\ kind = "reset" => row.status \in {"finished", "draft"}
        /\ kind = "resume" => row.status = "paused"
        /\ kind = "pause" => row.status = "running"
    BY <1>1 DEF Check, Can, CanStart, CanReset, CanResume, CanPause
  <2>2. /\ op'.kind = kind /\ (kind = "resume" => op'.round = row.round)
        /\ op = Idle /\ row # NoRow /\ UNCHANGED <<row, scores, engines, managed, foreign>>
    BY <1>1 DEF Check, world, history
  <2>3. ~foreign /\ managed # NoSlot /\ kind \in {"start", "reset"} => engines[managed].at = "done"
    BY <1>0, <2>1, <2>2 DEF AgreementInv, InFlight, Idle
  <2> QED BY <2>1, <2>2, <2>3 DEF ScoreInv, Scored, Idle
<1>2. CASE WriteStatus
  <2>1. /\ op'.kind = op.kind /\ op'.round = op.round
        /\ op.kind \in {"start", "pause", "resume", "stop"}
        /\ UNCHANGED <<scores, engines, managed, foreign>>
    BY <1>0, <1>2 DEF WriteStatus, Idle, Ops, history
  <2>2. /\ row' = NoRow <=> row = NoRow
        /\ row # NoRow => /\ row'.round = row.round /\ row'.status # "draft"
                          /\ op.kind = "stop" => row'.status = "finished"
    <3>1. CASE op.kind \in {"start", "resume"}
      BY <1>0, <1>2, <3>1, WriteFacts DEF WriteStatus, TypeOK
    <3>2. CASE op.kind = "pause"
      BY <1>0, <1>2, <3>2, WriteFacts DEF WriteStatus, TypeOK
    <3>3. CASE op.kind = "stop"
      BY <1>0, <1>2, <3>3, WriteFacts DEF WriteStatus, TypeOK
    <3> QED BY <2>1, <3>1, <3>2, <3>3
  <2>3. CASE op.kind = "start"
    BY <2>1, <2>2, <2>3, PastFacts DEF ScoreInv, Scored
  <2>4. CASE op.kind # "start"
    BY <2>1, <2>2, <2>4 DEF ScoreInv, Scored
  <2> QED BY <2>3, <2>4
<1>3. CASE CallStart
  <2>0. op.kind = "start" /\ op' = Idle
    BY <1>3 DEF CallStart, Calling
  <2>1. CASE managed # NoSlot
    <3>1. UNCHANGED <<row, scores, engines, managed, foreign>>
      BY <1>3, <2>1 DEF CallStart, world, history
    <3> QED BY <2>0, <3>1, PastFacts DEF ScoreInv, Scored, Idle
  <2>2. CASE managed = NoSlot
    <3>1. engines'[managed'] = Started /\ UNCHANGED <<scores, foreign>>
      BY <1>0, <1>3, <2>2 DEF CallStart, Create, TypeOK
    <3>2. row # NoRow => /\ row \in Rows
                         /\ row' = [row EXCEPT !.round = 1, !.phase = "running"]
      BY <1>0, <1>3, <2>2 DEF CallStart, TypeOK
    <3>3. ~foreign /\ row # NoRow => row'.status = "running" /\ row'.round = 1
      BY <1>0, <1>3, <2>2, <3>2 DEF OpInv, CallStart, Calling, InFlight, Rows
    <3>4. row = NoRow => row' = NoRow
      BY <1>3, <2>2 DEF CallStart
    <3> QED BY <2>0, <3>1, <3>3, <3>4, CreatedFacts, PastFacts DEF ScoreInv, Scored, Idle
  <2> QED BY <2>1, <2>2
<1>4. CASE CallFails
  <2>1. /\ UNCHANGED <<row, scores, engines, managed, foreign>>
        /\ managed = NoSlot
        /\ (op' = Idle) \/ (op'.kind = "start" /\ op.kind = "start")
    BY <1>0, <1>4 DEF CallFails, Calling, Ops, Idle, world, history
  <2> QED BY <2>1 DEF ScoreInv, Scored, Idle
<1>5. CASE RollBack
  <2>1. op.kind = "start" /\ managed = NoSlot /\ op' = Idle /\ UNCHANGED <<scores, managed, foreign>>
    BY <1>0, <1>5 DEF RollBack, OpInv, history
  <2>2. /\ row' = NoRow <=> row = NoRow
        /\ row # NoRow => row'.round = row.round
    BY <1>0, <1>5, WriteFacts DEF RollBack, TypeOK
  <2> QED BY <2>1, <2>2, PastFacts DEF ScoreInv, Scored, Idle
<1>6. CASE CallPause
  <2>0. op' = Idle /\ op.kind = "pause" /\ UNCHANGED <<scores, managed, foreign>>
    BY <1>6 DEF CallPause, Calling, history
  <2>1. CASE managed # NoSlot /\ engines[managed].running
    <3>1. engines'[managed] = Paused(engines[managed])
      BY <1>0, <1>6, <2>1 DEF CallPause, TypeOK
    <3>2. /\ row' = NoRow <=> row = NoRow
          /\ row # NoRow => row'.status = "paused" /\ row'.round = row.round
      BY <1>0, <1>6, <2>1, WriteFacts DEF CallPause, TypeOK
    <3> QED BY <1>0, <2>0, <2>1, <3>1, <3>2, HandledFacts DEF ScoreInv, Scored, Idle
  <2>2. CASE ~(managed # NoSlot /\ engines[managed].running)
    BY <2>0, <2>2, <1>6 DEF CallPause, ScoreInv, Scored, Idle
  <2> QED BY <2>1, <2>2
<1>7. CASE CallResume
  <2>0. op' = Idle /\ op.kind = "resume" /\ UNCHANGED <<scores, foreign>>
    BY <1>7 DEF CallResume, Calling, Create, history
  <2>1. CASE managed # NoSlot
    <3>1. engines'[managed] = Resumed(engines[managed]) /\ UNCHANGED managed
      BY <1>0, <1>7, <2>1 DEF CallResume, TypeOK
    <3>2. /\ row' = NoRow <=> row = NoRow
          /\ row # NoRow => /\ row'.round = row.round
                            /\ row'.status \in {"running", row.status}
      BY <1>0, <1>7, <2>1, WriteFacts DEF CallResume, TypeOK
    <3> QED BY <1>0, <2>0, <2>1, <3>1, <3>2, HandledFacts DEF ScoreInv, Scored, Idle
  <2>2. CASE managed = NoSlot
    <3>1. engines'[managed'] = Restored(op.round) /\ op.round \in 0..TotalRounds
      BY <1>0, <1>7, <2>2 DEF CallResume, Create, TypeOK, Calling, Ops, Idle
    <3>2. /\ row = NoRow => row' = NoRow
          /\ row # NoRow => /\ row'.status = "running"
                            /\ row'.round = IF op.round = 0 THEN 1 ELSE row.round
      BY <1>7, <2>2 DEF CallResume
    <3> QED BY <2>0, <3>1, <3>2, CreatedFacts, PastFacts DEF ScoreInv, Scored, Idle
  <2> QED BY <2>1, <2>2
<1>8. CASE CallStop \/ Crash \/ Shutdown
  <2>1. managed' = NoSlot /\ op' = Idle /\ UNCHANGED <<scores, foreign>>
    BY <1>8 DEF CallStop, Crash, Shutdown, Forget, history
  <2>2. \/ UNCHANGED row
        \/ /\ row' = NoRow <=> row = NoRow
           /\ row # NoRow => row'.status = "finished" /\ row'.round = row.round
    BY <1>0, <1>8, WriteFacts DEF CallStop, Crash, Shutdown, TypeOK
  <2> QED BY <2>1, <2>2 DEF ScoreInv, Scored, Idle
<1>9. CASE ClearScores
  <2>1. op.kind = "reset" /\ op'.kind = "reset" /\ UNCHANGED <<row, engines, managed, foreign>>
    BY <1>0, <1>9 DEF ClearScores, Idle, Ops, history
  <2>2. ~foreign /\ row # NoRow => row.status \in {"finished", "draft"}
    BY <1>0, <2>1 DEF OpInv
  <2> QED BY <2>1, <2>2, PastFacts DEF ScoreInv, Scored
<1>10. CASE ResetRow
  <2>1. op.kind = "reset" /\ op' = Idle /\ UNCHANGED <<scores, engines, managed, foreign>>
    BY <1>10 DEF ResetRow, Calling, history
  <2>2. row' = NoRow \/ row'.round = 0
    BY <1>10 DEF ResetRow, Draft
  <2> QED BY <2>1, <2>2, PastFacts DEF ScoreInv, Scored, Idle
<1>11. CASE EditRead \/ DeleteGame
  BY <1>11 DEF EditRead, DeleteGame, world, history, ScoreInv, Scored
<1>12. CASE EditSave
  <2>1. CASE row = edit
    <3>1. UNCHANGED <<row, scores, engines, managed, op>>
      BY <1>12, <2>1 DEF EditSave
    <3>2. foreign' = foreign
      BY <1>0, <1>12, <2>1 DEF EditSave, TypeOK
    <3> QED BY <3>1, <3>2 DEF ScoreInv, Scored
  <2>2. CASE row # edit
    <3>1. foreign'
      BY <1>12, <2>2, Zenon DEF EditSave
    <3> QED BY <3>1 DEF ScoreInv
  <2> QED BY <2>1, <2>2
<1>13. ASSUME NEW s \in Slots, Silent(s) \/ Judge(s) \/ RoundEnd(s)
       PROVE  ScoreInv'
  <2>1. PICK e \in Engines : Quiet(s, e)
    BY <1>0, <1>13, QuietSteps
  <2>2. UNCHANGED <<row, managed, op, foreign>> /\ Step(s, e) /\ engines[s].at # "done"
    BY <2>1 DEF Quiet
  <2>3. CASE s = managed
    <3>0. managed # NoSlot
      BY <2>3, SlotAssumption
    <3>1. ~foreign => Scored(engines'[s], scores') /\ scores \subseteq scores'
      BY <1>0, <1>13, <2>3, <3>0, QuietScored DEF ScoreInv
    <3> QED BY <2>2, <2>3, <3>0, <3>1 DEF ScoreInv
  <2>4. CASE s # managed
    <3>1. managed # NoSlot => engines'[managed] = engines[managed]
      BY <1>0, <2>2, <2>4, StepFacts
    <3>2. scores \subseteq scores'
      BY <1>13 DEF Silent, Judge, RoundEnd
    <3> QED BY <2>2, <3>1, <3>2 DEF ScoreInv, Scored
  <2> QED BY <2>3, <2>4
<1>14. ASSUME NEW s \in Slots, RoundStart(s)
       PROVE  ScoreInv'
  <2>1. CASE s # managed
    BY <2>1, <1>14 DEF RoundStart, ScoreInv
  <2>2. CASE s = managed
    <3>0. managed # NoSlot /\ engines[s] \in Engines
      BY <1>0, <2>2, SlotAssumption DEF TypeOK
    <3>1. /\ UNCHANGED <<managed, op, scores>> /\ Step(s, RoundStarted(engines[s]))
          /\ foreign' = foreign /\ engines[s].at = "starting"
      BY <1>0, <1>14, <2>2 DEF RoundStart, Late, TypeOK
    <3>2. engines'[managed] = RoundStarted(engines[managed])
      BY <1>0, <1>14, <2>2, <3>1, RoundStartFacts, StepFacts
    <3>3. /\ row' = NoRow <=> row = NoRow
          /\ row # NoRow => row'.status = row.status /\ row'.round = engines[s].round + 1
          /\ RoundStarted(engines[s]).at = "round"
          /\ RoundStarted(engines[s]).round = engines[s].round + 1
      BY <1>0, <1>14, RoundStartFacts
    <3>4. ~foreign => Past(engines[s].round + 1) \subseteq scores
      <4>1. engines[s].round \in 0..TotalRounds
        BY <3>0 DEF Engines
      <4> QED BY <2>2, <3>0, <3>1, <4>1, PastFacts DEF ScoreInv, Scored
    <3>5. ~foreign /\ row # NoRow => row.status # "draft" /\ op.kind # "start"
      <4>1. engines[s].round # 0
        BY <1>0, <2>2, <3>0, <3>1 DEF PlaceInv, Placed
      <4>2. ~foreign /\ row # NoRow => engines[s].round = row.round /\ op.kind # "start"
        BY <1>0, <2>2, <3>0, <3>1 DEF AgreementInv
      <4> QED BY <4>1, <4>2 DEF ScoreInv
    <3> QED BY <2>2, <3>0, <3>1, <3>2, <3>3, <3>4, <3>5 DEF ScoreInv, Scored
  <2> QED BY <2>1, <2>2
<1>15. ASSUME NEW s \in Slots, FinishGame(s)
       PROVE  ScoreInv'
  <2>1. CASE s # managed
    BY <2>1, <1>15 DEF FinishGame, ScoreInv
  <2>2. CASE s = managed
    <3>0. managed # NoSlot
      BY <2>2, SlotAssumption
    <3>1. /\ UNCHANGED <<managed, op, scores>> /\ Step(s, Finished(engines[s]))
          /\ engines[s] \in Engines /\ engines[s].at = "finishing" /\ foreign' = foreign
      BY <1>0, <1>15, <2>2 DEF FinishGame, TypeOK
    <3>2. engines'[managed].at = "done"
      BY <1>0, <2>2, <3>1, GoroutineFacts, StepFacts
    <3>3. /\ row' = NoRow <=> row = NoRow
          /\ row # NoRow => row'.status = "finished" /\ row'.round = row.round
      BY <1>0, <1>15, WriteFacts DEF FinishGame, TypeOK
    <3> QED BY <2>2, <3>0, <3>1, <3>2, <3>3 DEF ScoreInv, Scored
  <2> QED BY <2>1, <2>2
<1>16. CASE UNCHANGED vars
  BY <1>16 DEF vars, world, history, ScoreInv, Scored
<1> QED
  BY <1>1, <1>2, <1>3, <1>4, <1>5, <1>6, <1>7, <1>8, <1>9, <1>10, <1>11, <1>12, <1>13,
     <1>14, <1>15, <1>16 DEF Next, Service, Handlers, Goroutine

\* Through resets, crashes and engines rebuilt from the row, a live engine never
\* leaves a round without scores behind it.
THEOREM NoneUnscored == Spec => []NoRoundLeftUnscored
<1>1. Init => ScoreInv
  BY PastFacts DEF Init, Draft, Idle, ScoreInv
<1>2. IInv /\ ScoreInv /\ [Next]_vars => ScoreInv'
  BY ScoreStep
<1>3. ScoreInv => NoRoundLeftUnscored
  BY DEF ScoreInv, Scored, Past, NoRoundLeftUnscored
<1> QED BY <1>1, <1>2, <1>3, Inductive, PTL DEF Spec
-----------------------------------------------------------------------------
(***************************************************************************)
(* How far a stopped engine overruns.                                      *)
(***************************************************************************)
Ahead(e) == e.at \in {"fresh", "ending", "starting"} \/ MayLeave(e)

\* n is late[s] of the slot of e.  A stopped engine that the Stop reached, and
\* that has run a boundary since, has no way to the next one: its pause context
\* is cancelled, or it is paused with nobody left to resume it.
Bounded(e, inMap, n) ==
  /\ n <= 1 /\ (inMap => n = 0)
  /\ e.cancels = "run" => e.heeds = "run"
  /\ e.slip => e.at \in {"round", "break", "done"}
  /\ ~inMap /\ e.at # "none" /\ e.heeds = e.cancels =>
       /\ e.cancels = "run" => e.runDone
       /\ e.at # "fresh" => e.cut \/ e.paused
       /\ Ahead(e) => n = 0
OverrunInv == \A s \in Slots : Bounded(engines[s], s = managed, late[s])

LEMMA BoundedNew ==
  /\ \A n \in 0..2, m \in BOOLEAN : n <= 1 /\ (m => n = 0) => Bounded(NoEngine, m, n)
  /\ Bounded(Started, TRUE, 0)
  /\ \A r \in 0..TotalRounds : Bounded(Restored(r), TRUE, 0)
<1>1. \A n \in 0..2, m \in BOOLEAN : n <= 1 /\ (m => n = 0) => Bounded(NoEngine, m, n)
  BY DEF Bounded, NoEngine
<1>2. Bounded(Started, TRUE, 0)
  BY DEF Bounded, Started, NoEngine
<1>3. ASSUME NEW r \in 0..TotalRounds
      PROVE  Bounded(Restored(r), TRUE, 0)
  BY DEF Bounded, Restored, Started, NoEngine
<1> QED BY <1>1, <1>2, <1>3

LEMMA BoundedHandled ==
  ASSUME NEW e \in Engines, Bounded(e, TRUE, 0)
  PROVE  Bounded(Paused(e), TRUE, 0) /\ Bounded(Resumed(e), TRUE, 0) /\ Bounded(Stopped(e), FALSE, 0)
<1>1. Bounded(Paused(e), TRUE, 0)
  BY DEF Bounded, Paused, Engines
<1>2. Bounded(Resumed(e), TRUE, 0)
  <2>1. CASE e.running
    BY <2>1 DEF Resumed
  <2>2. CASE ~e.running
    BY <2>2 DEF Bounded, Resumed, Engines
  <2> QED BY <2>1, <2>2
<1>3. Bounded(Stopped(e), FALSE, 0)
  <2> DEFINE slip == e.at \in {"round", "break"}
             runDone == e.cancels = "run"
             cut == ~e.paused /\ e.heeds = e.cancels
             f == [e EXCEPT !.running = FALSE, !.slip = slip, !.runDone = runDone, !.cut = cut]
  <2>1. Stopped(e) = f
    BY DEF Stopped
  <2>2. /\ f.at = e.at /\ f.cancels = e.cancels /\ f.heeds = e.heeds /\ f.paused = e.paused
        /\ f.slip = slip /\ f.runDone = runDone /\ f.cut = cut
    BY DEF Engines
  <2>3. e.cancels = "run" => e.heeds = "run"
    BY DEF Bounded
  <2> HIDE DEF f
  <2> QED BY <2>1, <2>2, <2>3 DEF Bounded
<1> QED BY <1>1, <1>2, <1>3

\* The steps of a goroutine that are no boundary.
LEMMA BoundedSilent ==
  ASSUME NEW e \in Engines, NEW m \in BOOLEAN, NEW n \in 0..2, Bounded(e, m, n)
  PROVE  /\ e.at = "fresh" => Bounded(Begun(e), m, n)
         /\ MayLeave(e) => Bounded(Left(e), m, n)
         /\ MayReturn(e) => Bounded(Returned(e), m, n)
         /\ e.at = "scored" => Bounded(Judged(e), m, n)
         /\ e.at = "finishing" => Bounded(Finished(e), m, n)
<1> USE DEF Bounded, Ahead, MayLeave, Engines
<1>1. ASSUME e.at = "fresh"
      PROVE  Bounded(Begun(e), m, n)
  <2> DEFINE cut == e.runDone /\ ~e.paused
             f == [e EXCEPT !.at = "round", !.heeds = "run", !.cut = cut]
  <2>1. Begun(e) = f
    BY DEF Begun
  <2>2. /\ f.at = "round" /\ f.cancels = e.cancels /\ f.heeds = "run" /\ f.paused = e.paused
        /\ f.slip = e.slip /\ f.runDone = e.runDone /\ f.cut = cut
    OBVIOUS
  <2>3. ~e.slip
    BY <1>1
  <2> HIDE DEF f
  <2> QED BY <1>1, <2>1, <2>2, <2>3
<1>2. ASSUME MayLeave(e)
      PROVE  Bounded(Left(e), m, n)
  BY <1>2 DEF Left
<1>3. ASSUME MayReturn(e)
      PROVE  Bounded(Returned(e), m, n)
  BY <1>3 DEF MayReturn, Returned
<1>4. ASSUME e.at = "scored"
      PROVE  Bounded(Judged(e), m, n)
  BY <1>4 DEF Judged
<1>5. ASSUME e.at = "finishing"
      PROVE  Bounded(Finished(e), m, n)
  BY <1>5 DEF Finished
<1> QED BY <1>1, <1>2, <1>3, <1>4, <1>5

\* A boundary run by an engine the Stop has reached uses up the one it had left.
LEMMA BoundedBoundary ==
  ASSUME NEW e \in Engines, NEW m \in BOOLEAN, NEW n \in 0..2, Bounded(e, m, n),
         NEW k \in 0..2, k = IF ~m /\ e.heeds = e.cancels THEN n + 1 ELSE n
  PROVE  /\ e.at = "ending" => Bounded(RoundEnded(e), m, k)
         /\ e.at = "starting" /\ e.round < TotalRounds => Bounded(RoundStarted(e), m, k)
<1> USE DEF Bounded, Ahead, MayLeave, Engines
<1>1. ASSUME e.at = "ending"
      PROVE  Bounded(RoundEnded(e), m, k)
  BY <1>1 DEF RoundEnded
<1>2. ASSUME e.at = "starting"
      PROVE  Bounded(RoundStarted(e), m, k)
  <2> DEFINE f == [e EXCEPT !.at = "round", !.round = e.round + 1]
  <2>1. RoundStarted(e) = f
    BY DEF RoundStarted
  <2>2. /\ f.at = "round" /\ f.cancels = e.cancels /\ f.heeds = e.heeds /\ f.paused = e.paused
        /\ f.slip = e.slip /\ f.runDone = e.runDone /\ f.cut = e.cut
    OBVIOUS
  <2>3. ~e.slip
    BY <1>2
  <2> HIDE DEF f
  <2> QED BY <1>2, <2>1, <2>2, <2>3
<1> QED BY <1>1, <1>2

LEMMA OverrunStep == ASSUME TypeOK, PlaceInv, OverrunInv, [Next]_vars PROVE OverrunInv'
<1>0. /\ managed # NoSlot => managed \in Slots /\ engines[managed] \in Engines
      /\ \A s \in Slots : /\ engines[s] \in Engines /\ late[s] \in 0..2
                          /\ Bounded(engines[s], s = managed, late[s])
                          /\ (s = managed) \in BOOLEAN
      /\ managed # NoSlot => Bounded(engines[managed], TRUE, 0)
  <2>1. \A s \in Slots : engines[s] \in Engines /\ late[s] \in 0..2
    BY DEF TypeOK
  <2>2. managed # NoSlot => managed \in Slots
    BY DEF TypeOK
  <2>3. managed # NoSlot => Bounded(engines[managed], TRUE, late[managed]) /\ late[managed] = 0
    BY <2>2 DEF OverrunInv, Bounded
  <2> QED BY <2>1, <2>2, <2>3 DEF OverrunInv
<1>1. CASE UNCHANGED <<engines, managed, late>>
  BY <1>1 DEF OverrunInv
<1>2. ASSUME NEW s \in Slots, NEW e \in Engines, UNCHANGED <<managed, late>>,
             engines' = [engines EXCEPT ![s] = e], Bounded(e, s = managed, late[s])
      PROVE  OverrunInv'
  BY <1>2 DEF OverrunInv, TypeOK
<1>3. ASSUME NEW s \in Slots, NEW e \in Engines, Step(s, e), UNCHANGED managed,
             late' \in [Slots -> 0..2], \A t \in Slots : t # s => late'[t] = late[t],
             Bounded(e, s = managed, late'[s])
      PROVE  OverrunInv'
  <2>1. /\ engines'[s] \in {e, NoEngine}
        /\ \A t \in Slots : t # s => engines'[t] = engines[t]
    BY <1>3, StepFacts
  <2>2. Bounded(engines'[s], s = managed', late'[s])
    <3>1. late'[s] \in 0..2 /\ late'[s] <= 1 /\ (s = managed => late'[s] = 0)
      BY <1>3 DEF Bounded
    <3>2. Bounded(NoEngine, s = managed, late'[s])
      BY <1>0, <3>1, BoundedNew
    <3> QED BY <1>3, <2>1, <3>2
  <2> QED BY <1>3, <2>1, <2>2 DEF OverrunInv
<1>4. ASSUME NEW s \in Slots, NEW e \in Engines, Create(s, e), managed = NoSlot, Bounded(e, TRUE, 0)
      PROVE  OverrunInv'
  <2>1. managed' = s /\ engines'[s] = e /\ late'[s] = 0
    BY <1>4 DEF Create, TypeOK
  <2>2. \A t \in Slots : t # s => /\ engines'[t] = engines[t] /\ late'[t] = late[t]
                                  /\ t # managed /\ t # managed'
    BY <1>4, <2>1, SlotAssumption DEF Create, TypeOK
  <2>3. \A t \in Slots : t # s => Bounded(engines[t], FALSE, late[t])
    BY <2>2 DEF OverrunInv
  <2> QED BY <1>4, <2>1, <2>2, <2>3 DEF OverrunInv
<1>5. CASE CallStart
  <2>1. CASE managed # NoSlot
    BY <1>1, <1>5, <2>1 DEF CallStart, world, history
  <2>2. CASE managed = NoSlot
    BY <1>4, <1>5, <2>2, CreatedFacts, BoundedNew DEF CallStart
  <2> QED BY <2>1, <2>2
<1>6. CASE CallPause
  <2>1. CASE managed # NoSlot /\ engines[managed].running
    <3>1. Paused(engines[managed]) \in Engines /\ Bounded(Paused(engines[managed]), TRUE, 0)
      BY <1>0, <2>1, HandledFacts, BoundedHandled
    <3>2. late[managed] = 0
      BY <1>0, <2>1 DEF Bounded
    <3> QED BY <1>0, <1>2, <1>6, <2>1, <3>1, <3>2 DEF CallPause, history
  <2>2. CASE ~(managed # NoSlot /\ engines[managed].running)
    BY <1>1, <1>6, <2>2 DEF CallPause, history
  <2> QED BY <2>1, <2>2
<1>7. CASE CallResume
  <2>1. CASE managed # NoSlot
    <3>1. Resumed(engines[managed]) \in Engines /\ Bounded(Resumed(engines[managed]), TRUE, 0)
      BY <1>0, <2>1, HandledFacts, BoundedHandled
    <3>2. late[managed] = 0
      BY <1>0, <2>1 DEF Bounded
    <3> QED BY <1>0, <1>2, <1>7, <2>1, <3>1, <3>2 DEF CallResume, history
  <2>2. CASE managed = NoSlot
    <3>1. op.round \in 0..TotalRounds
      BY <1>7 DEF CallResume, Calling, Idle, TypeOK
    <3> QED BY <1>4, <1>7, <2>2, <3>1, CreatedFacts, BoundedNew DEF CallResume
  <2> QED BY <2>1, <2>2
<1>8. CASE CallStop
  <2>1. CASE managed # NoSlot
    <3> DEFINE f == Kept(Stopped(engines[managed]), FALSE)
    <3>1. Bounded(Stopped(engines[managed]), FALSE, 0) /\ Stopped(engines[managed]) \in Engines
      BY <1>0, <2>1, HandledFacts, BoundedHandled
    <3>2. Bounded(f, FALSE, 0)
      <4>1. f \in {Stopped(engines[managed]), NoEngine}
        BY <3>1, KeptFacts
      <4>2. Bounded(NoEngine, FALSE, 0)
        BY DEF Bounded, NoEngine
      <4> HIDE DEF f
      <4> QED BY <3>1, <4>1, <4>2
    <3>3. engines' = [engines EXCEPT ![managed] = f] /\ managed' = NoSlot /\ UNCHANGED late
      BY <1>8, <2>1 DEF CallStop, history
    <3> HIDE DEF f
    <3>4. late[managed] = 0
      BY <1>0, <2>1 DEF Bounded
    <3>5. engines'[managed] = f
      BY <1>0, <2>1, <3>3 DEF TypeOK
    <3>6. \A t \in Slots : t # managed => /\ engines'[t] = engines[t]
                                          /\ Bounded(engines[t], FALSE, late[t])
      BY <3>3 DEF TypeOK, OverrunInv
    <3> QED BY <3>2, <3>3, <3>4, <3>5, <3>6, SlotAssumption DEF OverrunInv
  <2>2. CASE managed = NoSlot
    BY <1>1, <1>8, <2>2 DEF CallStop, history
  <2> QED BY <2>1, <2>2
<1>9. ASSUME NEW s \in Slots, Silent(s) \/ Judge(s) \/ FinishGame(s)
      PROVE  OverrunInv'
  <2>1. UNCHANGED <<managed, late>>
    BY <1>9 DEF Silent, Judge, FinishGame, history
  <2>2. ASSUME NEW e \in Engines, Step(s, e), Bounded(e, s = managed, late[s])
        PROVE  OverrunInv'
    BY <1>3, <2>1, <2>2 DEF TypeOK
  <2>3. /\ engines[s] \in Engines /\ late[s] \in 0..2 /\ (s = managed) \in BOOLEAN
        /\ Bounded(engines[s], s = managed, late[s])
    BY <1>0
  <2>4. CASE Silent(s)
    BY <2>2, <2>3, <2>4, GoroutineFacts, BoundedSilent DEF Silent
  <2>5. CASE Judge(s)
    BY <2>2, <2>3, <2>5, JudgedFacts, BoundedSilent DEF Judge
  <2>6. CASE FinishGame(s)
    BY <2>2, <2>3, <2>6, GoroutineFacts, BoundedSilent DEF FinishGame
  <2> QED BY <1>9, <2>4, <2>5, <2>6
<1>10. ASSUME NEW s \in Slots, RoundEnd(s) \/ RoundStart(s)
       PROVE  OverrunInv'
  <2>1. /\ engines[s] \in Engines /\ late[s] \in 0..2 /\ (s = managed) \in BOOLEAN
        /\ Bounded(engines[s], s = managed, late[s]) /\ Placed(engines[s])
    BY <1>0 DEF PlaceInv
  <2>2. Late(s) /\ UNCHANGED managed
    BY <1>10 DEF RoundEnd, RoundStart, Late
  <2>3. late' \in [Slots -> 0..2] /\ \A t \in Slots : t # s => late'[t] = late[t]
    BY <2>2, LateFacts DEF Late, TypeOK
  <2>4. late'[s] = IF s # managed /\ engines[s].heeds = engines[s].cancels
                   THEN late[s] + 1 ELSE late[s]
    BY <2>1, <2>2 DEF Late, Overrun, Bounded, TypeOK
  <2>5. CASE RoundEnd(s)
    <3>1. RoundEnded(engines[s]) \in Engines /\ Step(s, RoundEnded(engines[s]))
      BY <2>1, <2>5, GoroutineFacts DEF RoundEnd
    <3>2. Bounded(RoundEnded(engines[s]), s = managed, late'[s])
      BY <2>1, <2>3, <2>4, <2>5, BoundedBoundary DEF RoundEnd
    <3> QED BY <1>3, <2>2, <2>3, <3>1, <3>2
  <2>6. CASE RoundStart(s)
    <3>1. RoundStarted(engines[s]) \in Engines /\ Step(s, RoundStarted(engines[s]))
      BY <2>6, RoundStartFacts DEF RoundStart
    <3>2. Bounded(RoundStarted(engines[s]), s = managed, late'[s])
      BY <2>1, <2>3, <2>4, <2>6, BoundedBoundary DEF RoundStart, Placed
    <3> QED BY <1>3, <2>2, <2>3, <3>1, <3>2
  <2> QED BY <1>10, <2>5, <2>6
<1>11. CASE Crash \/ Shutdown
  BY <1>11, SlotAssumption DEF Crash, Shutdown, Forget, OverrunInv, Bounded, NoEngine
<1>12. CASE WriteStatus \/ CallFails \/ RollBack \/ ClearScores \/ ResetRow \/ UNCHANGED vars
  BY <1>1, <1>12 DEF WriteStatus, CallFails, RollBack, ClearScores, ResetRow, vars, world, history
<1>13. CASE Handlers \/ \E kind \in Kinds : Check(kind)
  BY <1>1, <1>13 DEF Handlers, EditRead, EditSave, DeleteGame, Check, world, history
<1> QED
  BY <1>5, <1>6, <1>7, <1>8, <1>9, <1>10, <1>11, <1>12, <1>13
  DEF Next, Service, Goroutine

\* A stopped engine opens or scores at most one more round, for any number of
\* rounds and of engines alive at a time, unless its goroutine began after a
\* Resume.
THEOREM OneRoundOverrun == Spec => []OverrunsByOneRound
<1>1. Init => OverrunInv
  BY SlotAssumption DEF Init, OverrunInv, Bounded, NoEngine
<1>2. TypeOK /\ PlaceInv /\ OverrunInv /\ [Next]_vars => OverrunInv'
  BY OverrunStep
<1>3. OverrunInv => OverrunsByOneRound
  BY DEF OverrunInv, Bounded, OverrunsByOneRound
<1>4. IInv => TypeOK /\ PlaceInv
  BY DEF IInv
<1> QED BY <1>1, <1>2, <1>3, <1>4, Inductive, PTL DEF Spec
=============================================================================
