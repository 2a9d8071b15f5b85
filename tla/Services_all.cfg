SPECIFICATION ServiceSpec
CONSTANTS
  Edits = {"edit"}
  MaxWrites = 3
  MaxRestarts = 1
  Requests = {"x", "y"}
  Models = {"m", "n"}
  None = "none"
  Callers = {"v", "w"}
  Keys = {"embedder"}
  NoKey = "none"
  MaxLoads = 2
  MaxReleases = 1
  MaxDeaths = 2
INVARIANTS ServiceTypeOK  BusyKeepsModel
PROPERTIES ParsesEnd UnusedUnloads CacheHolds IdleExpires RowsFinal SeenSettles
CHECK_DEADLOCK FALSE
