CONSTANTS
  Teams = {a, b, c}
  LastRound = 2
  Lives = 2
  Requests = 1
  MaxCaptures = 2
  Points = 2
  AttackWeight = 2
  DefenseWeight = 1
  FirstBlood = 1
  Adjustment = 3
  Penalty = 5
  NoTeam = NoTeam
  Budget = 5
SPECIFICATION Spec
INVARIANTS RoundTableIsRight ScoreIsTheSum
SYMMETRY TeamSymmetry
CONSTRAINT WithinBudget
CHECK_DEADLOCK FALSE
