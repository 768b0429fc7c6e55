CONSTANTS
  Keys = {j1, j2}
  Cycles = {c1, c2}
  Kills = {kAll, kSel}
  WholeKills = {kAll}
SYMMETRY Symmetry
SPECIFICATION Spec
INVARIANTS KillPriority NoCollateral
PROPERTIES NoStartUnderKill NoRevival
CHECK_DEADLOCK FALSE
