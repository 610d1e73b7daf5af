SPECIFICATION Spec
CONSTANTS
  Shards = {1, 2}
  Concurrencies = {1, 2}
  Total = 2
  Period = 4
  StartAt = 1
  Window = 2
  MaxAnswers = 1
  MaxTime = 6
INVARIANTS BucketsSpaced QuotaAccounted
CHECK_DEADLOCK FALSE
