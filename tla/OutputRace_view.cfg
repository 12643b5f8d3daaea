SPECIFICATION Spec
CONSTANTS
  Writers = {w1}
  rows = 3
  cols = 2
  hist_rows = 7
INVARIANTS
  ViewWithinRing
