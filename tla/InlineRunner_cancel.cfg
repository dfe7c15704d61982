SPECIFICATION RunnerFairSpec
CONSTANTS
  Loop = loop
  Pool = {t1, t2}
  NumJobs = 3
  Partitioned = {}
  MaxInflight = 3
  PartLimit = 0
  Cancellable = {1, 2, 3}
PROPERTIES CancelTakesEffect
CHECK_DEADLOCK FALSE
