SPECIFICATION FairOptSpec
CONSTANT Functions <- MCFunctions
INVARIANTS
  TypeOK
  StackIsSimplePath
  PassedOverIsDeadEnd
  ReturnedValueRight
  IInv
  LoopsAgreeWithPaths
PROPERTIES
  ImplementsReport
  Terminates
