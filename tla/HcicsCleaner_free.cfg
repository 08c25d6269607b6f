SPECIFICATION Spec
CONSTANTS
  Wash = 3
  MaxCycles = 2
  MaxReadErrors = 2
  Preemptive = FALSE
INVARIANTS
  BusyMatchesWorker
  RestIsSafe
  PumpOffWhileStopped
  DrivesHomeRetracted
