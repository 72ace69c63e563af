CONSTANTS
  Managers = {m1}
  Loops = {l1}
  Requests = {q1}
  NoManager = NoManager
  NoLoop = NoLoop
  TotalRounds = 1
  RoundDurations = {2}
  BreakDurations = {1}
SPECIFICATION Spec
INVARIANT PauseFreezesTimer
CHECK_DEADLOCK FALSE
