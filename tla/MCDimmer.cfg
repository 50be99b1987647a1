CONSTANTS
  SHORT_PRESS_THRESHOLD_MS = 2
  LONG_PRESS_TIMEOUT = 4
  SCENE_COUNT = 3
SPECIFICATION FairSpec
INVARIANTS
  TypeOK
  EveryMoveHasItsEnd
  ShortPressNeverDims
PROPERTIES
  MovingEnds
