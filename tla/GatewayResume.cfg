SPECIFICATION Spec
CONSTANTS
  MaxGen = 3
  MaxSession = 2
  MaxSeq = 2
INVARIANTS ResumeExact EndedNotResumed IdentifyOnlyWhenEnded
CHECK_DEADLOCK FALSE
