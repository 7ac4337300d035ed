SPECIFICATION FairSpec
CONSTANTS
  f1 = f1
  f2 = f2
  r1 = r1
  r2 = r2
  Settings <- MCSettings
  MaxTime = 3
  MaxEdits = 2
  MaxStops = 1
INVARIANTS
  StaleIsNoticed
  CrashesOnlyWithoutSource
PROPERTIES
  FreshAfterRun
  EventuallyFresh
  RepeatedlyFresh
