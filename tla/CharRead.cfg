\* Bounds for TLC: a buffer of 3, so that a recv() may fill it, part fill it and leave
\* stale bytes of a longer one behind.
CONSTANTS
  RC_BUFSIZE = 3
  StreamLen = 7
  MaxFailures = 3
  INT_MAX = 8
SPECIFICATION FairSpec
INVARIANTS
  BufferHoldsTheUndelivered
  BlocksOnlyUntold
  CurrInRange
PROPERTIES
  InOrder
  AllDelivered
CHECK_DEADLOCK FALSE
