CONSTANTS
  TotalRounds = 2
  RoundDuration = 2
  BreakDuration = 1
  MaxFlagWrite = 1
SPECIFICATION FairSpec
PROPERTY LeftAloneFinishes
CHECK_DEADLOCK FALSE
