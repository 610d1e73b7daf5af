SPECIFICATION Spec
CONSTANTS
  p1 = p1
  p2 = p2
  p3 = p3
  get = get
  post = post
  put = put
  m1 = m1
  m2 = m2
  Requests = {p1, p2}
  RouteKeys = {get, post}
  MajorKeys = {m1, m2}
  Hashes = {1}
  Moving = {}
  Unsafe = {}
  MaxBuckets = 3
  MaxBucketMappings = 3
  BucketTTL = 2
  CleanupInterval = 1
  GlobalRateLimit = 5
  GlobalRateWindow = 1
  InvalidRequestLimit = 5
  InvalidRequestWarningThreshold = 4
  InvalidRequestWindow = 3
  MaxRestRetries = 1
  MaxRateLimitWait = 3
  MaxRetryWait = 3
  RetryDelay = 1
  ResetAfters = {1, 2}
  MaxPauses = 2
  MaxTime = 1
PROPERTIES PauseNotCutShort
CHECK_DEADLOCK FALSE
