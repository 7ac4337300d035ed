SPECIFICATION WholeSpec
CONSTANTS
  Modules <- MCLoop
  Pipelines <- OnlyCount
  Asserts = TRUE
  Threads = {t1}
  MainThread = t1
  CounterBits = 4
  PrintBits = 3
  MaxChoices = 4
INVARIANTS
  ReportsExecutedBlocks
