SPECIFICATION StallSpec
CONSTANTS
  MaxBoosts = 2
  Trigger = 4
  Hold = 9
  Fail = 36
  ClockMod = 96
  MaxGap = 3
INVARIANTS
  StallStopped
  BoostEnds
PROPERTY
  StallNotHasty
