SPECIFICATION Spec
CONSTANTS
  MaxEdits = 2
  MaxStarts = 3
INVARIANTS
  NothingStale
PROPERTIES
  EndTellsTheTruth
CHECK_DEADLOCK FALSE
