CONSTANTS
  Keys = {j1, j2}
  Editors = {e1, e2}
  None = None
  MaxIntended = 1
  MaxGeneration = 3
  MaxRevision = 4
SPECIFICATION Spec
SYMMETRY Symmetry
CONSTRAINT ShortOrAlone
INVARIANTS CountsOK SummaryAgrees BatchApplies
PROPERTIES IdKept AnswersMatch RevisionsGrow
CHECK_DEADLOCK FALSE
