SPECIFICATION Spec
CONSTANTS
  Ids = {"j1", "j2"}
  Readers = {c1, c2}
  Fetches = {f1, f2}
  MAX_INFLIGHT = 2
  Failover = FALSE
  MaxClock = 5
  MaxTruth = 1
  c1 = c1  c2 = c2  f1 = f1  f2 = f2
SYMMETRY Sym
CONSTRAINT OneEnding
INVARIANT AbsentIsReal
CHECK_DEADLOCK FALSE
