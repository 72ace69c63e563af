CONSTANTS
  Cells = {x, y}
  Lives = 1
  Jobs = {j1, j2, j3}
  Free = Free
SPECIFICATION SafetySpec
INVARIANTS NothingLost ContainersMatchGame RunStateMatchesGame
SYMMETRY Alike
