SPECIFICATION Spec
CONSTANTS
  FrameLen = 4
  RingSize = 3
INVARIANTS
  TypeOK
  NoSplice
PROPERTIES
  Resynchronises
