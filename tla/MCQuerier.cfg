SPECIFICATION Spec
CONSTANTS
  Keys = {1, 2, 3}
  Elements <- MCElements
  Volatile = {1}
  Queriers = {"q1", "q2"}
  Readers = {"r1"}
  LostAfter = 2
  ChunkSize = 1
  Formats = 3
  MaxGen = 2
CONSTRAINT Bounded
INVARIANTS StreakExact EndIsReal FormatTight
PROPERTIES NoEarlyLost FieldsKept
CHECK_DEADLOCK FALSE
