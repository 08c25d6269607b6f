SPECIFICATION Spec
CONSTANTS
  Reversed = FALSE
  MaxCount = 3
INVARIANTS
  NoEdgeForgotten
  ExactUnlessLate
CHECK_DEADLOCK FALSE
