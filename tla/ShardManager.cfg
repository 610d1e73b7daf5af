SPECIFICATION FairSpec
CONSTANTS
  c1 = c1
  c2 = c2
  c3 = c3
  s1 = s1
  s2 = s2
  Callers = {c1, c2, c3}
  Shards = {s1, s2}
  MaxOpens = 3
INVARIANTS
  ShardsMatchState
  CallsInTurn
PROPERTIES CallsReturn
CHECK_DEADLOCK FALSE
