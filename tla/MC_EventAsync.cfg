\* Three callers, three listeners; the thread may fail to start.
SPECIFICATION FairSpec
CONSTANTS
  Thread = {t1, t2, t3}
  Listener = {l1, l2, l3}
  None = None
  MaxQueue = 4
  CloneFails = TRUE
INVARIANTS  NoEventForgotten
PROPERTIES EveryEventDelivered RemovalReturns 
CHECK_DEADLOCK FALSE
