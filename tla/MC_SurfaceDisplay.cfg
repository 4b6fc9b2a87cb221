\* Two surfaces; the place changes when the last change has been dealt with.
SPECIFICATION FairSpec
CONSTANTS
  Surface = {s1, s2}
  None = None
  Settled = TRUE
INVARIANTS DrawsOnLiveSurface CleanPicture
PROPERTY DetachReturns
CHECK_DEADLOCK FALSE
