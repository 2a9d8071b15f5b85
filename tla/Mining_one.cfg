SPECIFICATION Spec
CONSTANTS
  r1 = r1
  r2 = r2
  w1 = w1
  w2 = w2
  Rows = {r1, r2}
  Workers = {w1, w2}
  Old = {}
  Watch = Watch
  MaxFiles = 1
  MaxCrashes = 1
  QuickEnds = FALSE
SYMMETRY Symmetry
INVARIANTS OneWorker
CHECK_DEADLOCK FALSE
