\* vlc_cond_wait and a worker cancelled in it.
SPECIFICATION Spec
CONSTANTS
  Worker = {w1}
  Main = Main
  None = None
  Calls = {"cond_wait"}
  EarlyCancel = FALSE
INVARIANT CleanupOwnsMutex
CHECK_DEADLOCK FALSE
