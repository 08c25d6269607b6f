SPECIFICATION FairBootSpec
CONSTANTS
  MaxReadErrors = 3
INVARIANTS
  NeverTwice
  BlindForcesStop
  FreshUntilTrouble
  NoLazyInit
  FailedIsQuiet
PROPERTIES
  SamplesFlow
CHECK_DEADLOCK FALSE
