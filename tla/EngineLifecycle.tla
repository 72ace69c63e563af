--------------------------- MODULE EngineLifecycle ---------------------------
(***************************************************************************)
(* The abstract specification of one engine and the row of its game: the   *)
(* operations of EngineManager, and the goroutine of the RoundScheduler    *)
(* with its clock left out.                                                *)
(***************************************************************************)
EXTENDS EngineModel

VARIABLES row,       \* the row of games
          engine,    \* the engine
          managed    \* is it in EngineManager.engines?

lifeVars == <<row, engine, managed>>

Init ==
  /\ row \in Rows /\ row.status \in {"draft", "paused"}
  /\ engine = NoEngine /\ managed = FALSE

Start ==
  /\ engine = NoEngine /\ row.status = "draft"
  /\ engine' = Started /\ managed' = TRUE
  /\ row' = [status |-> "running", phase |-> "running", round |-> 1]

Restore ==
  /\ engine = NoEngine /\ row.status = "paused"
  /\ engine' = Restored(row.round) /\ managed' = TRUE
  /\ row' = [status |-> "running", phase |-> "running", round |-> engine'.round]

Pause ==
  /\ managed /\ engine.running /\ row.status = "running"
  /\ engine' = Paused(engine)
  /\ row' = [row EXCEPT !.status = "paused", !.phase = "break"]
  /\ UNCHANGED managed

Resume ==
  /\ managed /\ ~engine.running /\ row.status = "paused"
  /\ engine' = Resumed(engine)
  /\ row' = [row EXCEPT !.status = "running", !.phase = "running"]
  /\ UNCHANGED managed

Stop ==
  /\ managed /\ row.status \in {"running", "paused"}
  /\ engine' = Stopped(engine) /\ managed' = FALSE
  /\ row' = [row EXCEPT !.status = "finished", !.phase = "finished"]

Goroutine ==
  \/ /\ \/ engine.at = "fresh"  /\ engine' = Begun(engine)
        \/ MayLeave(engine)     /\ engine' = Left(engine)
        \/ engine.at = "ending" /\ engine' = RoundEnded(engine)
        \/ engine.at = "scored" /\ engine' = Judged(engine)
        \/ MayReturn(engine)    /\ engine' = Returned(engine)
     /\ UNCHANGED <<row, managed>>
  \/ /\ engine.at = "starting" /\ engine' = RoundStarted(engine)
     /\ row' = [row EXCEPT !.round = engine'.round, !.phase = "running"]
     /\ UNCHANGED managed
  \/ /\ engine.at = "finishing" /\ engine' = Finished(engine)
     /\ row' = [row EXCEPT !.status = "finished", !.phase = "finished"]
     /\ UNCHANGED managed

Next == Start \/ Restore \/ Pause \/ Resume \/ Stop \/ Goroutine

Spec == Init /\ [][Next]_lifeVars
=============================================================================
