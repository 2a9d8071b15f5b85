SPECIFICATION TestSpec
CONSTANTS
  Cases = 2
  MaxSwaps = 0
INVARIANT CardAlone
CHECK_DEADLOCK FALSE
