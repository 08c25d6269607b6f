SPECIFICATION FairSpec
CONSTANTS
  Wheels <- BothWheels
  Requests <- MCRequests
  SpeedMax = 3
  RampStep = 1
  MinCmd = 2
  StuckMin = 3
  BoostCmd = 3
  FailLimit = 2
INVARIANTS
  LatchedIsStill
  StillAtRest
PROPERTY
  FaultNoticed
