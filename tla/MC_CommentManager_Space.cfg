\* Enough comments for two to be put between the same two others.
SPECIFICATION Spec
CONSTANTS
  StageWidth = 3
  StageHeight = 3
  Pace = 2
  TopDuration = 2
  Lists <- GapList
  Offset = {}
  MaxTime = 3
INVARIANT SpaceIsFree
CHECK_DEADLOCK FALSE
