SPECIFICATION FairSpec
CONSTANTS
  f1 = f1
  f2 = f2
  p1 = p1
  p2 = p2
  Faults <- MCOneFault
  Peers <- MCOnePeer
  EventDepth = 12
  MaxMissions = 2
  Preemptive = TRUE
PROPERTIES
  SlotFreed
  EveryOrderAnswered
INVARIANT
  StopHonoured
