SPECIFICATION WholeSpec
CONSTANTS
  Modules <- MCExiting
  Pipelines <- OnlyCount
  Asserts = TRUE
  Threads = {t1}
  MainThread = t1
  CounterBits = 4
  PrintBits = 5
  MaxChoices = 4
INVARIANTS
  ReportsExecutedBlocks
