SPECIFICATION Spec
CONSTANTS
  Ids = {"j1"}
  Readers = {c1, c2}
  Fetches = {f1, f2, f3}
  MAX_INFLIGHT = 2
  Failover = TRUE
  MaxClock = 4
  MaxTruth = 2
  c1 = c1  c2 = c2  f1 = f1  f2 = f2  f3 = f3
SYMMETRY Sym
CONSTRAINT OneEnding
INVARIANTS LedgerFresh FreshIsFresh InflightBound GoneForgotten
CHECK_DEADLOCK FALSE
