---------------------------- MODULE EngineModel ----------------------------
(***************************************************************************)
(* A CompetitionEngine without its clock: what Start, Pause, Resume, Stop  *)
(* and the goroutine of its RoundScheduler do to one record.  A timer may  *)
(* fire at any moment.  EngineLifecycle is the state machine of one such   *)
(* engine, which RoundScheduler implements; GameService composes several.  *)
(*                                                                         *)
(* The goroutine is at one of                                              *)
(*   fresh      started, before the first section of Run                   *)
(*   round, break      waiting for the timer, or for a resume              *)
(*   ending, starting  past the last look at paused: onRoundEnd (or        *)
(*                     onRoundStart) will run                              *)
(*   scored     onRoundEnd has run, the test for the last round has not    *)
(*   finishing  in finishGame;   done   returned;   none   never started   *)
(***************************************************************************)
EXTENDS Naturals

CONSTANT TotalRounds     \* game.TotalRounds

ASSUME TotalRoundsAssumption == TotalRounds \in Nat \ {0}

Rows == [status : {"draft", "running", "paused", "finished"},
         phase  : {"preparation", "running", "break", "finished"},
         round  : 0..TotalRounds]

Places == {"none", "fresh", "round", "ending", "scored", "break", "starting",
           "finishing", "done"}

Engines == [running : BOOLEAN,          \* e.running
            round   : 0..TotalRounds,   \* e.currentRound
            paused  : BOOLEAN,          \* rs.paused
            at      : Places,
            cancels : {"run", "resume"},  \* the context e.cancelFunc cancels
            heeds   : {"run", "resume"},  \* the one rs.pauseCtx comes from
            runDone : BOOLEAN,          \* the context given to Run is cancelled
            cut     : BOOLEAN,          \* rs.pauseCtx is cancelled for good
            slip    : BOOLEAN]          \* its timer may let it out once after the Stop

NoEngine == [running |-> FALSE, round |-> 0, paused |-> FALSE, at |-> "none",
             cancels |-> "run", heeds |-> "run",
             runDone |-> FALSE, cut |-> FALSE, slip |-> FALSE]

\* Start, and Resume of a new engine that takes over the round of the row.
Started == [NoEngine EXCEPT !.running = TRUE, !.round = 1, !.at = "fresh"]
\* Mutant: the next round is taken up.
Restored_NextRound(round) ==
  [Started EXCEPT !.round = IF round < TotalRounds THEN round + 1 ELSE round]
Restored(round) == [Started EXCEPT !.round = IF round = 0 THEN 1 ELSE round]

\* While it waits, the goroutine derives rs.pauseCtx from Run's own context.
Paused(e) ==
  IF e.running THEN [e EXCEPT !.running = FALSE, !.paused = TRUE, !.heeds = "run"] ELSE e

\* Resume replaces e.cancelFunc even when the scheduler is not paused.
Resumed(e) ==
  IF e.running THEN e
  ELSE [e EXCEPT !.running = TRUE, !.cancels = "resume", !.paused = FALSE,
                 !.heeds = IF e.paused THEN "resume" ELSE @]

\* Mutant: no context is cancelled.
Stopped_NoCancel(e) == [e EXCEPT !.running = FALSE]

\* Only the context of the latest Resume is cancelled.
Stopped(e) ==
  [e EXCEPT !.running = FALSE, !.slip = (e.at \in {"round", "break"}),
            !.runDone = (e.cancels = "run"),
            !.cut = ~e.paused /\ e.heeds = e.cancels]

\* Run creates the pause context, whatever was done with it before.
Begun(e) == [e EXCEPT !.at = "round", !.heeds = "run", !.cut = e.runDone /\ ~e.paused]

\* A cancelled pause context stops the timer again and again; it loses once at
\* most, when the timer had fired already or Run waits for an older context.
MayLeave(e) == e.at \in {"round", "break"} /\ ~e.paused /\ (e.cut => e.slip)
Left(e) == [e EXCEPT !.at = IF e.at = "round" THEN "ending" ELSE "starting", !.slip = FALSE]

RoundEnded(e) == [e EXCEPT !.at = "scored"]
Judged(e) == [e EXCEPT !.at = IF e.round >= TotalRounds THEN "finishing" ELSE "break"]
RoundStarted(e) == [e EXCEPT !.at = "round", !.round = e.round + 1]
Finished(e) == [e EXCEPT !.at = "done", !.running = FALSE]
MayReturn(e) == e.at \in {"round", "break"} /\ e.runDone
Returned(e) == [e EXCEPT !.at = "done"]
=============================================================================
