--------------------------- MODULE MCRoundManager ---------------------------
(***************************************************************************)
(* RoundManager for TLC: managers, goroutines and requests are             *)
(* interchangeable, and every property is a safety property.               *)
(***************************************************************************)
EXTENDS RoundManager, TLC

Symmetry == Permutations(Managers) \cup Permutations(Loops) \cup Permutations(Requests)

\* Rounds of no time are looked at while requests come one at a time.
TimeIfOverlap == overlap => \A m \in Managers : managers[m].roundDuration > 0
=============================================================================
