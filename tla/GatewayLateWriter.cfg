SPECIFICATION Spec
CONSTANTS
  MaxGen = 3
  MaxSession = 2
  MaxSeq = 2
INVARIANTS SequenceOfSession
CHECK_DEADLOCK FALSE
