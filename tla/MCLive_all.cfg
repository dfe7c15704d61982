SPECIFICATION LiveSpec
CONSTANTS
  Workers = {w1, w2}
  NumJobs = 1
  Docs = {1}
  DocOf <- OwnDoc
  Mode <- AllParse
  Parts <- NoParts
  PartLimit = 0
  MaxAttempts = 2
  Timeouts = TRUE
  MaxClaims = 3
  MaxCrashes = 1
  CrashLoad = 3
  Cancellers = {}
  Host = host
  T1 = t1
  T2 = t2
PROPERTIES PendingJobsSettle AcceptedJobsEnd ParsesEnd
CHECK_DEADLOCK FALSE
