SPECIFICATION Spec
CONSTANTS
  Guilds = {g1}
  i1 = i1
  i2 = i2
  Ids = {i1, i2}
  MaxMessageCount = 1
  StreamBound = 2
  Bounds <- ArchiveBounds
INVARIANT ThreadsListed
CHECK_DEADLOCK FALSE
