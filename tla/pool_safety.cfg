SPECIFICATION Spec
CONSTANTS
  p1 = p1
  p2 = p2
  l1 = l1
  l2 = l2
  Producers <- TwoProducers
  Loopers <- TwoLoopers
  InitLoopers <- OneLooper
  RunImmediately <- Either
  MaxJobs = 3
  JobsMayThrow = TRUE
  NoJob = NoJob
  NoLooper = NoLooper
INVARIANTS TypeOK EveryJobOnce
PROPERTY ImplementsJobQueue
CHECK_DEADLOCK FALSE
