SPECIFICATION Spec
CONSTANTS
  f1 = f1
  f2 = f2
  p1 = p1
  p2 = p2
  Faults <- MCFaults
  Peers <- MCPeers
  EventDepth = 12
  MaxMissions = 3
  Preemptive = FALSE
SYMMETRY Symmetry
INVARIANTS
  TypeOK
  ExactlyOnce
  PublishedIsOpen
PROPERTY
  ImplementsService
