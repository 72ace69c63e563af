-------------------------- MODULE MCGameContainers --------------------------
(***************************************************************************)
(* GameContainers for TLC.  Cells are alike and goroutines are alike,      *)
(* which is used where safety alone is checked.                            *)
(***************************************************************************)
EXTENDS GameContainers, TLC

Alike == Permutations(Cells) \cup Permutations(Jobs)

SafetySpec == Init /\ [][Next]_vars
=============================================================================
