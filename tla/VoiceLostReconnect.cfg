SPECIFICATION Spec
CONSTANTS
  MaxGenerations = 3
  MaxUpdates = 2
  Bounds <- MCBounds
INVARIANT LostIsRecovered
CHECK_DEADLOCK FALSE
