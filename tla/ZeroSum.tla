------------------------------- MODULE ZeroSum -------------------------------
(***************************************************************************)
(* The zero-sum scoring mode: AWDScoreMode of internal/engine/mode/        *)
(* awd_score.go with ZeroSumScorer, DefenseCalculator and                  *)
(* FirstBloodDetector of internal/engine/scoring.                          *)
(*                                                                         *)
(* Each operation holds the mutex of the scorer and is one step.  The      *)
(* scores are float64 in the code and whole numbers here: InitialTotal is  *)
(* taken so that the teams of any game divide it without a remainder.      *)
(***************************************************************************)
EXTENDS Integers, FiniteSets, Functions

CONSTANTS Squads,        \* all teams
          Flags,
          InitialTotal, FlagValue, FirstBloodBonus,
          RoundDefense,  \* roundDefenseValue, half of the value of a flag
          TotalRounds, MaxAttacks

ASSUME ZeroSumAssumption ==
  /\ IsFiniteSet(Squads)
  /\ InitialTotal \in Nat /\ FlagValue \in Nat /\ FirstBloodBonus \in Nat
  /\ RoundDefense \in Nat /\ TotalRounds \in Nat \ {0} /\ MaxAttacks \in Nat
  /\ \A n \in 1..Cardinality(Squads) : InitialTotal % n = 0

VARIABLES
  scores,   \* teamScores: the entries of the teams in the map
  blood,    \* records of the first bloods: flags
  breaches, \* breachHistory: round and team to the number of breaches
  round     \* the round of the game; 0 before the mode starts

zeroVars == <<scores, blood, breaches, round>>

TeamScore == [initial : Int, attack : Int, defense : Int, bonus : Int, total : Int,
              captured : Nat, lost : Nat, defended : Nat]

ZeroTypeOK ==
  /\ DOMAIN scores \subseteq Squads /\ \A t \in DOMAIN scores : scores[t] \in TeamScore
  /\ blood \subseteq Flags
  /\ breaches \in [(1..TotalRounds) \X Squads -> Nat]
  /\ round \in 0..TotalRounds + 1

ZeroInit ==
  /\ scores = [t \in {} |-> 0]
  /\ blood = {}
  /\ breaches = [b \in (1..TotalRounds) \X Squads |-> 0]
  /\ round = 0

NewScore(initial) ==
  [initial |-> initial, attack |-> 0, defense |-> 0, bonus |-> 0, total |-> initial,
   captured |-> 0, lost |-> 0, defended |-> 0]

-----------------------------------------------------------------------------
\* Start: the teams of the game, or all teams when it has none.
Start(teams) ==
  /\ round = 0 /\ teams # {}
  /\ scores' = [t \in teams |-> NewScore(InitialTotal \div Cardinality(teams))]
  /\ round' = 1
  /\ UNCHANGED <<blood, breaches>>

\* getOrCreateTeam: a team that was not there at the start has no points.
getOrCreateTeam(t) == IF t \in DOMAIN scores THEN scores[t] ELSE NewScore(0)

\* CheckAndRecord: the first capture of a flag, by whomever and from whomever.
Points(flag) == IF flag \in blood THEN FlagValue ELSE FlagValue + FirstBloodBonus

Winner(s, points) ==
  [s EXCEPT !.attack = s.attack + points, !.total = s.total + points, !.captured = s.captured + 1]
Loser(s, points) ==
  [s EXCEPT !.defense = s.defense - points, !.total = s.total - points, !.lost = s.lost + 1]

\* The scorer does not ask whether attacker and target are two.
Attacked(points, loss, attacker, target) ==
  [t \in DOMAIN scores \cup {attacker, target} |->
     LET s == getOrCreateTeam(t)
         w == IF t = attacker THEN Winner(s, points) ELSE s
     IN  IF t = target THEN Loser(w, loss) ELSE w]

\* The calculator of defence counts by the round of the attack.
RecordBreach(r, target) ==
  breaches' = [breaches EXCEPT ![<<r, target>>] = breaches[<<r, target>>] + 1]

\* Mutant: the bonus of the first blood is not taken from the target.
OnAttack_FreeBonus(attacker, target, flag, r) ==
  /\ round \in 1..TotalRounds /\ SumFunction(breaches) < MaxAttacks
  /\ scores' = Attacked(Points(flag), FlagValue, attacker, target)
  /\ blood' = blood \cup {flag}
  /\ RecordBreach(r, target)
  /\ UNCHANGED round

\* OnAttack of a correct submission made in round r; a wrong one changes nothing.
OnAttack(attacker, target, flag, r) ==
  /\ round \in 1..TotalRounds /\ SumFunction(breaches) < MaxAttacks
  /\ scores' = Attacked(Points(flag), Points(flag), attacker, target)
  /\ blood' = blood \cup {flag}
  /\ RecordBreach(r, target)
  /\ UNCHANGED round

\* CalculateDefenseBonus
DefenseBonus(lost) ==
  LET bonus == ((TotalRounds - lost) * RoundDefense) \div TotalRounds IN
  IF bonus < 0 THEN 0 ELSE bonus

Unbeaten == {t \in DOMAIN scores : scores[t].lost = 0}
Pool == SumFunction([t \in DOMAIN scores |-> IF scores[t].defense < 0 THEN -scores[t].defense ELSE 0])

\* OnDefense: the unbeaten teams share all that was ever lost, again in every
\* round, and get the bonus of the round.
OnDefense ==
  LET share == IF Unbeaten = {} THEN 0 ELSE Pool \div Cardinality(Unbeaten) IN
  scores' = [t \in DOMAIN scores |->
               IF t \in Unbeaten
               THEN [scores[t] EXCEPT !.bonus = scores[t].bonus + share + DefenseBonus(0),
                                      !.total = scores[t].total + share + DefenseBonus(0),
                                      !.defended = scores[t].defended + (IF Pool > 0 THEN 1 ELSE 0)]
               ELSE scores[t]]

\* OnRoundEnd; what ValidateZeroSum finds is logged.
OnRoundEnd ==
  /\ round \in 1..TotalRounds
  /\ OnDefense
  /\ round' = round + 1
  /\ UNCHANGED <<blood, breaches>>

ZeroNext ==
  \/ \E teams \in SUBSET Squads : Start(teams)
  \/ \E attacker, target \in Squads, flag \in Flags, r \in 1..round : OnAttack(attacker, target, flag, r)
  \/ OnRoundEnd

ZeroSpec == ZeroInit /\ [][ZeroNext]_zeroVars
-----------------------------------------------------------------------------
(***************************************************************************)
(* Properties.                                                             *)
(***************************************************************************)

\* ValidateStrictZeroSum: without the bonuses of defence the points are those of
\* the start, also when teams come in later; what a total holds beyond them is
\* bonus, the attack points are one value per capture and one bonus per flag,
\* and the scorer and the calculator of defence count the same breaches.
StrictZeroSum ==
  round > 0 =>
    /\ SumFunction([t \in DOMAIN scores |-> scores[t].initial + scores[t].attack + scores[t].defense])
         = InitialTotal
    /\ SumFunction([t \in DOMAIN scores |-> scores[t].attack]) =
         FlagValue * SumFunction([t \in DOMAIN scores |-> scores[t].captured])
           + FirstBloodBonus * Cardinality(blood)
    /\ \A t \in DOMAIN scores :
         LET s == scores[t] IN
         /\ s.total = s.initial + s.attack + s.defense + s.bonus
         /\ s.lost = SumFunction([r \in 1..TotalRounds |-> breaches[<<r, t>>]])
=============================================================================
