CONSTANTS
  TotalRounds = 2
  Slots = {e1}
  NoSlot = NoSlot
  NoRow = NoRow
  Editing = FALSE
SPECIFICATION Spec
PROPERTY StartedGameHasEngine
