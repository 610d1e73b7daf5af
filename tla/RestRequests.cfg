SPECIFICATION MCSpec
CONSTANTS
  p1 = p1
  p2 = p2
  p3 = p3
  get = get
  post = post
  put = put
  m1 = m1
  m2 = m2
  Requests = {p1, p2}
  RouteKeys = {get, post}
  MajorKeys = {m1, m2}
  Hashes = {1, 2}
  Moving = {post}
  Unsafe = {p2}
  MaxBuckets = 2
  MaxBucketMappings = 1
  BucketTTL = 2
  CleanupInterval = 1
  GlobalRateLimit = 1
  GlobalRateWindow = 1
  InvalidRequestLimit = 2
  InvalidRequestWarningThreshold = 1
  InvalidRequestWindow = 3
  MaxRestRetries = 2
  MaxRateLimitWait = 2
  MaxRetryWait = 3
  RetryDelay = 1
  ResetAfters = {1}
  MaxPauses = 1
  MaxTime = 3
INVARIANTS CacheConsistent InvalidBudget UnsafeOnce LocksAreHeld
PROPERTIES PausesKept GlobalBudgetKept
CHECK_DEADLOCK FALSE
