CONSTANTS
  Keys = {j1}
  Editors = {e1}
  None = None
  MaxIntended = 0
  MaxGeneration = 2
  MaxRevision = 2
SPECIFICATION Spec
SYMMETRY Symmetry
INVARIANTS RemovesInactive
CHECK_DEADLOCK FALSE
