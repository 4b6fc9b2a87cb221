\* Four threads, recursive reads, three-bit counters: the overflow checks bite.
SPECIFICATION FairSpec
CONSTANTS
  Thread = {t1, t2, t3, t4}
  MaxDepth = 2
  ULongMax = 7
INVARIANTS Exclusive NoReaderForgotten NoWriterForgotten RecursionNeverBlocks
PROPERTIES Drains 
CHECK_DEADLOCK FALSE
