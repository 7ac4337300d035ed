SPECIFICATION UtilsSpec
CONSTANTS
  Values <- MCValues
  Instructions <- MCInstructions
  CallSites <- MCCallSites
  Expressions <- MCExpressions
  Bodies <- MCBodies
  TypeTables <- MCTypeTables
  Asserts = TRUE
INVARIANTS
  FunctionPointersHaveCalleeType
