CONSTANTS
  Managers = {m1, m2}
  Loops = {l1, l2}
  Requests = {q1, q2}
  NoManager = NoManager
  NoLoop = NoLoop
  TotalRounds = 2
  RoundDurations = {0, 1}
  BreakDurations = {0, 1}
SPECIFICATION Spec
SYMMETRY Symmetry
CONSTRAINT TimeIfOverlap
INVARIANTS
  RunningHasItsLoop
  OneLoopInTurn
  CancelledEndsOneRound
  PauseOvertakenOnce
  RoundsWithinTotal
CHECK_DEADLOCK FALSE
