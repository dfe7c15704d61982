SPECIFICATION QueuesSpec
CONSTANTS
  Workers = {w1, w2, w3}
  Solo = {w1}
  Hosts = {c1}
  Two = {w1, w2}
  NumJobs = 3
  Docs = {1, 2, 3}
  DocOf <- OwnDoc
  Mode <- AllParse
  Parts <- AllParts
  PartLimit = 2
  MaxAttempts = 1
  Timeouts = FALSE
  MaxClaims = 3
  MaxCrashes = 0
  CrashLoad = 3
  Cancellers = {}
INVARIANTS PartLimitHolds
PROPERTIES PublishedAsOne CancelledStaysCancelled
