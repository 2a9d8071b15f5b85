SPECIFICATION FairSpec
CONSTANTS
  g1 = g1
  g2 = g2
  r1 = r1
  r2 = r2
  Jobs = {g1}
  GpuJobs = {g1}
  Readers = {r1, r2}
  Overlap = FALSE
PROPERTIES Lifecycle StopEnds DrainEnds
CHECK_DEADLOCK FALSE
