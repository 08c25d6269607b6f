SPECIFICATION Spec
CONSTANTS
  MaxReadErrors = 3
INVARIANTS
  PublishedIsFresh
