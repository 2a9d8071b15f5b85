SPECIFICATION RecordSpec
CONSTANTS
  Names = {"a", "A", "b"}
  Stored <- MCStored
  Contents = {"c", "d"}
  Spare = {"s"}
  MaxVersions = 3
  MaxOps = 8
  Items = {"i", "j"}
  Questions = {"q", "r"}
  MaxRounds = 3
  MaxReviews = 2
  Cases = 3
  MaxSwaps = 2
  Prose <- MCProse
  RowTokens = {1, 2}
  MaxLines = 4
  Sizes = {4}
  Overlaps = {0, 2}
  Block = 2
  MinAutoCtx = 4
  MaxLoadAttempts = 8
  Margin = 3
  LayerWeight = 2
  Natives = {0, 3, 4, 7, 20, 33}
  Totals = {0, 1, 4, 40}
  AskedCtx = {0, 5, 40}
  AskedLayers = {0, 1, 30, 50}
  Frees = {0, 9, 40, 140, 300, 900}
  Threads = {"s", "t"}
  NoEntry = NoEntry
  MaxEdits = 2
INVARIANTS
  RecordTypeOK DoneIsStated QuestionsOnce RowIsHonest
  SwapCostsOne CardExclusive ChunksHold
  KeepsToLimits LastResort
PROPERTIES UploadKeepsBytes OnShelf ListsWhatIs
CHECK_DEADLOCK FALSE
