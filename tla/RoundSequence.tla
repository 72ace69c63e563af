---------------------------- MODULE RoundSequence ----------------------------
(***************************************************************************)
(* What a round scheduler promises, whatever its timers and pauses: rounds *)
(* are opened one after the other, a round is opened only when the one     *)
(* before it is scored, a round is scored while it is the current one, and *)
(* a sequence is complete only when its last round is scored.              *)
(***************************************************************************)
EXTENDS Integers

CONSTANT TotalRounds

VARIABLES round,     \* the current round, 0 before the first
          scored,    \* the last round scored
          outcome    \* open, or how the sequence ended

seqVars == <<round, scored, outcome>>

Init ==
  /\ round \in 0..TotalRounds
  /\ scored \in {round - 1, round} \cap 0..TotalRounds
  /\ outcome = "open"

OpenRound ==
  /\ outcome = "open" /\ scored = round /\ round < TotalRounds
  /\ round' = round + 1
  /\ UNCHANGED <<scored, outcome>>

ScoreRound ==
  /\ outcome = "open" /\ scored = round - 1
  /\ scored' = round
  /\ UNCHANGED <<round, outcome>>

Complete ==
  /\ outcome = "open" /\ scored = TotalRounds
  /\ outcome' = "complete"
  /\ UNCHANGED <<round, scored>>

Abort ==
  /\ outcome = "open"
  /\ outcome' = "aborted"
  /\ UNCHANGED <<round, scored>>

Next == OpenRound \/ ScoreRound \/ Complete \/ Abort

Spec == Init /\ [][Next]_seqVars
=============================================================================
