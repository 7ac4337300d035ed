SPECIFICATION Spec
CONSTANTS
  Modules <- OwnCounter
  Pipelines <- OnlyCount
  Asserts = TRUE
INVARIANTS
  CounterStartsAtZero
