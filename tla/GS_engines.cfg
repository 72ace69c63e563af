CONSTANTS
  TotalRounds = 2
  Slots = {e1, e2}
  NoSlot = NoSlot
  NoRow = NoRow
  Editing = FALSE
SPECIFICATION Spec
INVARIANTS
  UnmanagedEngineIsOff
  EngineAgreesWithRow
  NoRoundLeftUnscored
  OverrunsByOneRound
