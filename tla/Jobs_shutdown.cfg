SPECIFICATION Spec
CONSTANTS
  g1 = g1
  g2 = g2
  r1 = r1
  r2 = r2
  Jobs = {g1, g2}
  GpuJobs = {g1}
  Readers = {}
  Overlap = FALSE
PROPERTIES ShutdownLeavesNoJob
CHECK_DEADLOCK FALSE
