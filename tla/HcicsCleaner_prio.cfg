SPECIFICATION FairSpec
CONSTANTS
  Wash = 2
  MaxCycles = 1
  MaxReadErrors = 1
  Preemptive = TRUE
PROPERTIES
  GuardedSleep
  StopEndsRun
  BlindEndsRun
