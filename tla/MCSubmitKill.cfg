CONSTANTS
  Keys = {j1, j2}
  Cycles = {c1, c2}
  Kills = {kAll, kSel}
  WholeKills = {kAll}
  NoJob = NoJob
  Removable = {j1, j2}
  MaxRetry = 1
  FinishOnGateReject = TRUE
  Policies = {"optimistic"}
  PromptLeave = TRUE
SPECIFICATION Spec
SYMMETRY Symmetry
CONSTRAINT OneScenario
INVARIANTS CountExact FinishedIsSettled RefusedUntouched NoLeak NoOrphan KilledIsTrue
PROPERTIES GateSpec
CHECK_DEADLOCK FALSE
