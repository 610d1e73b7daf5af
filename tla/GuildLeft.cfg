SPECIFICATION Spec
CONSTANTS
  Guilds = {g1}
  i1 = i1
  i2 = i2
  Ids = {i1, i2}
  MaxMessageCount = 1
  StreamBound = 2
  Bounds <- AwayBounds
INVARIANT GuildMeansMember
CHECK_DEADLOCK FALSE
