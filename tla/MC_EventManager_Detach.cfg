\* One thread whose callbacks detach.
SPECIFICATION Spec
CONSTANTS
  Thread = {t1}
  Loop = Loop
  Listener = {s1, s2}
  Async = {}
  None = None
  MaxDepth = 1
  MaxPosted = 1
PROPERTY DetachIsImmediate
CHECK_DEADLOCK FALSE
