SPECIFICATION Spec
CONSTANTS
  MaxFast = 2
  ProbeFailures = 2
  MaxSaves = 1
INVARIANTS RestartApplies
CHECK_DEADLOCK FALSE
