CONSTANTS
  Keys = {j1}
  Cycles = {c1}
  Kills = {kSel}
  WholeKills = {}
  NoJob = NoJob
  Removable = {j1}
  MaxRetry = 2
  FinishOnGateReject = TRUE
  Policies = {"actual"}
  PromptLeave = TRUE
SPECIFICATION FairSpec
PROPERTIES CycleFinishes KillFinishes
CHECK_DEADLOCK FALSE
