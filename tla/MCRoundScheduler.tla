-------------------------- MODULE MCRoundScheduler --------------------------
(***************************************************************************)
(* RoundScheduler for TLC, with the refinement mapping under which it      *)
(* implements EngineLifecycle.  The history variable slip says that the    *)
(* goroutine was waiting for its timer when the manager let go of the      *)
(* engine, and has not passed a gate since: the timer may have fired, or   *)
(* the goroutine may be deaf to the pause context that is cancelled.       *)
(***************************************************************************)
EXTENDS RoundScheduler

VARIABLE slip

\* The handlers put the default in the place of a break of no length
\* (auth_handler.go:420, admin_handler.go:157).  Without a break, a stopped
\* engine that was about to end a round could open the next one too.
ASSUME BreakAssumption == BreakDuration > 0

Stopped == pc # "absent" /\ ~managed
\* Its pause context stays cancelled.
Lost == Stopped /\ pauseDone /\ ~paused
\* The context the next pause context is derived from, or this one was.
Heeds == IF paused THEN "run" ELSE pauseParent

Place ==
  [absent |-> "none", init |-> "fresh", end |-> "ending", after |-> "scored",
   finish |-> "finishing", next |-> "starting", start |-> "starting", done |-> "done",
   breakSetup |-> "break", breakSelect |-> "break", waitBreak |-> "break",
   breakRearm |-> "break", gateStart |-> "break",
   arm |-> "round", top |-> "round", select |-> "round", waitRound |-> "round",
   rearm |-> "round", gateEnd |-> "round", fresh |-> "round"]

MCInit == Init /\ slip = FALSE

MCNext ==
  /\ Next
  /\ slip' = IF managed /\ ~managed' THEN Place[pc] \in {"round", "break"}
             ELSE slip /\ ~(pc \in {"gateEnd", "gateStart"} /\ pc' \in {"end", "next"})

MCSpec == MCInit /\ [][MCNext]_<<vars, slip>> /\ Fairness

\* The engine of EngineLifecycle this one implements.
AsEngine ==
  [running |-> running, round |-> currentRound, paused |-> paused,
   at |-> Place[pc], cancels |-> cancels,
   heeds |-> Heeds, runDone |-> runDone, cut |-> Lost, slip |-> slip]

Life == INSTANCE EngineLifecycle WITH row <- game, engine <- AsEngine

\* The scheduler with its timers and contexts is one engine of EngineModel: a
\* stopped engine opens or closes at most one more round, unless its goroutine
\* began after a Resume.
ImplementsEngineLifecycle == Life!Spec
=============================================================================
