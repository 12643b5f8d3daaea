SPECIFICATION MCSpec
CONSTANTS
  Procs = {p1}
  HeapBase = 1000
  HeapSize = 784
  WordSize = 4096
  HEAP_SIGNAL_RESERVE = 48
  HEAP_HARD_FLOOR = 16
  MaxSignalDepth = 2
  SmallSizes <- MCSmallSizes
  LargeRequests <- MCLargeRequests
  Sharing = {q1, q2}
  SharedSize = 272
  SharedReserve = 16
PROPERTY
  LargeRequestsSpareReserve
CHECK_DEADLOCK FALSE
