SPECIFICATION Spec
CONSTANTS
  Keys = {"k1", "k2"}
  Writers = {"w1", "w2"}
  States = {"PEND", "EXIT"}
  Created = "PEND"
  Editable = {"k1"}
  MaxRev = 2
  MaxLife = 2
CONSTRAINT FewWrites
INVARIANT Converges
PROPERTIES InOrder NoGhostRow
CHECK_DEADLOCK FALSE
