SPECIFICATION MovingSpec
CONSTANTS
  p1 = p1
  p2 = p2
  p3 = p3
  get = get
  post = post
  put = put
  m1 = m1
  m2 = m2
  Requests = {p1, p2, p3}
  RouteKeys = {get, post, put}
  MajorKeys = {m1}
  Hashes = {1, 2}
  Moving = {post}
  Unsafe = {}
  MaxBuckets = 5
  MaxBucketMappings = 5
  BucketTTL = 5
  CleanupInterval = 5
  GlobalRateLimit = 9
  GlobalRateWindow = 1
  InvalidRequestLimit = 9
  InvalidRequestWarningThreshold = 9
  InvalidRequestWindow = 3
  MaxRestRetries = 1
  MaxRateLimitWait = 3
  MaxRetryWait = 3
  RetryDelay = 1
  ResetAfters = {1}
  MaxPauses = 0
  MaxTime = 1
CONSTRAINT MovingScenario
INVARIANTS NoLockCycle
CHECK_DEADLOCK FALSE
