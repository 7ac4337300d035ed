SPECIFICATION FairSpec
CONSTANTS
  Modules <- MCModules
  Pipelines <- MCPipelines
  Asserts = FALSE
INVARIANTS
  EveryBlockCountedOncePerRun
  HandlerPrintsTheCounterIfNotReserved
  OutputVerifies
PROPERTIES
  Terminates
