CONSTANTS
  Keys = {j1, j2}
  Cycles = {c1, c2, c3}
  Kills = {k1}
  None = None
  Posting = {c1, c2, c3}
  AutoPoll = TRUE
  FinishOnGateReject = TRUE
  Policies = {"optimistic", "actual"}
  LaunchFails = {c1, c2, c3}
  MaxQueue = 1
  MaxRequests = 1
SPECIFICATION Spec
SYMMETRY Symmetry
CONSTRAINT OneScenario
INVARIANTS ToldOnceUnlessAhead ToldOrExcused JudgedTruly NoLeftovers
PROPERTIES PostOnOwnRun
CHECK_DEADLOCK FALSE
