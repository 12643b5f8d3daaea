SPECIFICATION Spec
CONSTANTS
  Writers = {w1, w2}
  rows = 3
  cols = 2
  hist_rows = 7
INVARIANTS
  CursorOnScreen
