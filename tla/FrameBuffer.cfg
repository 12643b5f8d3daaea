SPECIFICATION Spec
CONSTANTS
  Buffers = {0, 1}
  Chars = {"a"}
  rows = 2
  cols = 2
  requested_hist_rows = 3
  MaxWrites = 9
PROPERTY
  ImplementsTerminal
CHECK_DEADLOCK FALSE
