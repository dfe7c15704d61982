SPECIFICATION Spec
CONSTANTS
  Workers = {w1, w2}
  NumJobs = 1
  Docs = {1}
  DocOf <- OwnDoc
  Mode <- AllParse
  Parts <- NoParts
  PartLimit = 0
  MaxAttempts = 2
  Timeouts = TRUE
  MaxClaims = 2
  MaxCrashes = 0
  CrashLoad = 3
  Cancellers = {}
INVARIANT DoneIsCoherent
