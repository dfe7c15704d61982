SPECIFICATION ParentsSpec
CONSTANTS
  Api = api
  Workers = {w1, w2, w3}
  Two = {w1, w2}
  One = {w1}
  NumParts = 3
  Cached = TRUE
  MaxRuns = 1
  Failures = FALSE
  Cancels = FALSE
  Views = FALSE
  MaxCrashes = 0
  Loop = loop
  Pool = {t1, t2}
  NumJobs = 4
  Partitioned = {{2, 3}, {4}}
  MaxInflight = 2
  PartLimit = 1
  Cancellable = {3}
INVARIANTS InstancesHold RefreshesAgree OnlyDoneCounts AnswersAreConsistent
  LimitsHold HandedOverOnce WorkConserving
PROPERTIES RerunsMergeNewest CancelledStaysCancelled
SYMMETRY WorkerSymmetry
CHECK_DEADLOCK FALSE
