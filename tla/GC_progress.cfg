CONSTANTS
  Cells = {x}
  Lives = 1
  Jobs = {j1, j2}
  Free = Free
SPECIFICATION Spec
PROPERTY JobsEnd
