SPECIFICATION Spec
CONSTANTS
  MaxGenerations = 3
  MaxUpdates = 2
  Bounds <- RemovedBounds
INVARIANT CloseClosesVoice
CHECK_DEADLOCK FALSE
