----------------------------- MODULE MCScoring ------------------------------
(***************************************************************************)
(* Scoring for TLC: the teams are interchangeable, and a bound is put on   *)
(* how much happens at all.                                                *)
(***************************************************************************)
EXTENDS Scoring, TLC

CONSTANT Budget   \* bound: captures, requests, restarts and further rounds, together

TeamSymmetry == Permutations(Teams)

WithinBudget == Cardinality(captures) + used + (life - 1) + round <= Budget
=============================================================================
