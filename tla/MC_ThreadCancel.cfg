\* Every call, two workers, under fairness.
SPECIFICATION FairSpec
CONSTANTS
  Worker = {w1, w2}
  Main = Main
  None = None
  Calls = {"cond_wait", "timedwait", "savecancel", "testcancel"}
  EarlyCancel = FALSE
INVARIANTS TimedCleanupOwnsMutex 
PROPERTY CancelledExits
CHECK_DEADLOCK FALSE
