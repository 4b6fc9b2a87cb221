\* Two activities, one after the other, and two players of each kind.
SPECIFICATION FairSpec
CONSTANTS
  Activity = {a1, a2}
  Def = {d1, d2}
  Vlc = {v1, v2}
  None = None
  MaxQueue = 2
  Overlap = FALSE
INVARIANTS TypeOK   PlayerMatchesSurface NoCrashWithSurface
PROPERTY ErrorFallsBack
CHECK_DEADLOCK FALSE
