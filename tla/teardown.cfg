SPECIFICATION TdSpec
CONSTANTS
  p1 = p1
  l1 = l1
  l2 = l2
  Producers <- OneProducer
  Loopers <- TwoLoopers
  InitLoopers <- TwoLoopers
  RunImmediately <- Never
  MaxJobs = 2
  JobsMayThrow = TRUE
  NoJob = NoJob
  NoLooper = NoLooper
INVARIANT FreedOutsideLoop
PROPERTY DestructorReturns
CHECK_DEADLOCK FALSE
