SPECIFICATION FairUtilsSpec
CONSTANTS
  Values <- MCValues
  Instructions <- MCInstructions
  CallSites <- MCCallSites
  Expressions <- MCExpressions
  Bodies <- MCBodies
  TypeTables <- MCTypeTables
  Asserts = TRUE
INVARIANTS
  AnswerIsRight
  PointerQueriesAgree
  PointerNeverDenied
  ElimKeepsObject
  AssertSitesExact
PROPERTIES
  EveryQuestionEnds
