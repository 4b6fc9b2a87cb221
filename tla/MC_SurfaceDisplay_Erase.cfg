\* The place may change at any time.
SPECIFICATION Spec
CONSTANTS
  Surface = {s1, s2}
  None = None
  Settled = FALSE
INVARIANT CleanPicture
CHECK_DEADLOCK FALSE
