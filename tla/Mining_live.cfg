SPECIFICATION FairSpec
CONSTANTS
  r1 = r1
  r2 = r2
  w1 = w1
  w2 = w2
  Rows = {r1}
  Workers = {w1, w2}
  Old = {w1}
  Watch = Watch
  MaxFiles = 1
  MaxCrashes = 1
  QuickEnds = FALSE

PROPERTIES QueuedServed RunningEnds
CHECK_DEADLOCK FALSE
