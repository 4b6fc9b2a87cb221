\* Five lists; seeks to the beginning, into the middle and behind the last.
SPECIFICATION FairSpec
CONSTANTS
  StageWidth = 3
  StageHeight = 3
  Pace = 2
  TopDuration = 2
  Lists <- AllLists
  Offset = {0, 2, 6}
  MaxTime = 5
INVARIANTS ClockFollowsPlay  FedOnce NoCollision LanesAreFlown
PROPERTY CloseReturns
CHECK_DEADLOCK FALSE
