SPECIFICATION FairSpec
CONSTANTS
  Rows = 2
  Cols = 3
  Targets = {1, 6}
  MaxPathSteps = 16
  ClockMod = 12
  Stale = 2
  Lost = 3
  Cooldown = 1
  TurnTime = 2
  FinishTime = 1
  NavTimeout = 8
INVARIANTS
  PathEndsCleanly
  FollowHasPath
  WayHomeRetraces
  FrameHitsBounded
PROPERTIES
  TurnsNotCut
  NeverBlind
  FollowEnds
