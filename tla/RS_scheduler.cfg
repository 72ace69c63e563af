CONSTANTS
  TotalRounds = 2
  RoundDuration = 3
  BreakDuration = 2
  MaxFlagWrite = 1
SPECIFICATION MCSpec
INVARIANTS
  EachRoundScoredOnce
  FinishedGameIsFullyScored
  EngineMatchesRow
  OneBoundaryPerPause
  RoundNeitherExtendedNorCut
PROPERTIES
  ImplementsRoundSequence
  ImplementsEngineLifecycle
  FinishesUnlessUsedUp
  PauseParks
  CancelledRunReturns
CHECK_DEADLOCK FALSE
