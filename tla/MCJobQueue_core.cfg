SPECIFICATION Spec
CONSTANTS
  Workers = {w1, w2}
  NumJobs = 2
  Docs = {1, 2}
  DocOf <- OwnDoc
  Mode <- AllParse
  Parts <- AllParts
  PartLimit = 1
  MaxAttempts = 2
  Timeouts = TRUE
  MaxClaims = 3
  MaxCrashes = 1
  CrashLoad = 1
  Cancellers = {}
INVARIANTS TypeOK ClaimsAreSound StaleDamageBounded
PROPERTIES SettledIsFinal ImplementsLeasedJobs
