SPECIFICATION Spec
CONSTANTS
  g1 = g1
  g2 = g2
  r1 = r1
  r2 = r2
  Jobs = {g1, g2}
  GpuJobs = {g1, g2}
  Readers = {}
  Overlap = FALSE
SYMMETRY Symmetry
INVARIANTS TypeOK GpuExclusive
PROPERTIES DrainWaits
CHECK_DEADLOCK FALSE
