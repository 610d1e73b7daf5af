SPECIFICATION FairSpec
CONSTANTS
  p1 = p1
  p2 = p2
  p3 = p3
  Packets = {p1, p2, p3}
  Limit = 1
  Window = 2
  MaxPriority = 1
  MaxTime = 3
INVARIANTS WindowRespected NilMeansSent
PROPERTIES CancelReleases
CHECK_DEADLOCK FALSE
