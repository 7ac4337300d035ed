SPECIFICATION WholeSpec
CONSTANTS
  Modules <- MCJoined
  Pipelines <- OnlyCount
  Asserts = TRUE
  Threads = {t1, t2}
  MainThread = t1
  CounterBits = 4
  PrintBits = 5
  MaxChoices = 4
INVARIANTS
  ReportsExecutedBlocks
