SPECIFICATION Spec
CONSTANTS
  MaxGenerations = 3
  MaxUpdates = 2
  Bounds <- MCBounds
INVARIANTS NoWebsocketLost AwaitedAckIsOurs ResumeOnce LostIsTakenOver
CHECK_DEADLOCK FALSE
