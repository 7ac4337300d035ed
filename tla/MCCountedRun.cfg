SPECIFICATION FairWholeSpec
CONSTANTS
  Modules <- MCPrograms
  Pipelines <- AllPipelines
  Asserts = TRUE
  Threads = {t1, t2}
  MainThread = t1
  CounterBits = 3
  PrintBits = 4
  MaxChoices = 8
INVARIANTS
  CounterIsExact
  NeverOvercounts
  ReportIsArmed
  WholeRunReported
PROPERTIES
  ImplementsProtocol
  EventuallyReports
