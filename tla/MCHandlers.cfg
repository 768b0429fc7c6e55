SPECIFICATION Spec
CONSTANTS
  Keys = {"k1", "k2"}
  Workers = {"w1"}
  Resubmits = {"k1"}
  Losable = {"k1"}
  AutoPolls = {TRUE, FALSE}
  MaxCycles = 2
  MaxReg = 2
  MaxTicks = 1
CONSTRAINT OneScenario
INVARIANTS NoOverlap QueueServed NoneForgotten
PROPERTY FinalRuns
CHECK_DEADLOCK FALSE
