SPECIFICATION Spec
CONSTANTS
  Shards = {0}
  Concurrencies = {1}
  Total = 2
  Period = 4
  StartAt = 3
  Window = 1
  MaxAnswers = 0
  MaxTime = 9
INVARIANTS QuotaRespected
CHECK_DEADLOCK FALSE
