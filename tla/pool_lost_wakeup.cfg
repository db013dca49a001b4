SPECIFICATION FairSpec
CONSTANTS
  p1 = p1
  p2 = p2
  l1 = l1
  l2 = l2
  Producers <- OneProducer
  Loopers <- OneLooper
  InitLoopers <- OneLooper
  RunImmediately <- Never
  MaxJobs = 2
  JobsMayThrow = FALSE
  NoJob = NoJob
  NoLooper = NoLooper
PROPERTY PushedJobRuns
CHECK_DEADLOCK FALSE
