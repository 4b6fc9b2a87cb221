\* A synchronous and an asynchronous listener, sends nested in callbacks.
SPECIFICATION FairSpec
CONSTANTS
  Thread = {t1, t2}
  Loop = Loop
  Listener = {s1, a1}
  Async = {a1}
  None = None
  MaxDepth = 2
  MaxPosted = 1
INVARIANTS TypeOK  
  
CHECK_DEADLOCK FALSE
