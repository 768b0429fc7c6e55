CONSTANTS
  Keys = {j1, j2}
  Cycles = {c1}
  Kills = {}
  None = None
  Posting = {c1}
  AutoPoll = TRUE
  FinishOnGateReject = TRUE
  Policies = {"optimistic"}
  LaunchFails = {}
  MaxQueue = 1
  MaxRequests = 1
SPECIFICATION Spec
SYMMETRY Symmetry
INVARIANTS ToldOnce
CHECK_DEADLOCK FALSE
