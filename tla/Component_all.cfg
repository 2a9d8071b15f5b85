SPECIFICATION FairSpec
CONSTANTS
  MaxFast = 3
  ProbeFailures = 2
  MaxSaves = 1
INVARIANTS TypeOK IdleIsDown CrashLoopBounded
PROPERTIES StopStops RestartServed StartingEnds ShutdownEnds
CHECK_DEADLOCK FALSE
