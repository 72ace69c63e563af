CONSTANTS
  TotalRounds = 2
  Slots = {e1}
  NoSlot = NoSlot
  NoRow = NoRow
  Editing = TRUE
SPECIFICATION Spec
INVARIANT
  RunningGameCanBePaused
