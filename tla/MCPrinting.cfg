SPECIFICATION FairSpec
CONSTANTS
  Parent <- MCParent
  Instructions <- MCInstructions
  PrintedValues <- MCPrintedValues
  MaxUnsigned = 3
  DumpedModules <- MCDumpedModules
  Asserts = FALSE
  Inputs <- MCInputs
INVARIANTS
  ChainDescends
  ListedNeverAborts
  ColorComesBack
  LinesAsAsked
  ConstsListed
  OutputIsPrefix
  ZeroMeansAll
  DiesOnlyOnUnsupported
PROPERTIES
  EveryCallEnds
