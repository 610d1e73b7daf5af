SPECIFICATION Spec
CONSTANTS
  Guilds = {"10", "11"}
  Channels = {"20", "21"}
  Webhooks = {"30", "31"}
  Tokens = {"t", "u"}
  Ids = {"40", "41"}
  Names = {"m", "n"}
  Arguments <- MCArguments
  MaxCalls = 2
INVARIANTS RightBucket IdsShareBuckets
CHECK_DEADLOCK FALSE
