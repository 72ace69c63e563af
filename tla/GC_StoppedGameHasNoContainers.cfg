CONSTANTS
  Cells = {x, y}
  Lives = 1
  Jobs = {j1, j2}
  Free = Free
SPECIFICATION Spec
INVARIANT StoppedGameHasNoContainers
