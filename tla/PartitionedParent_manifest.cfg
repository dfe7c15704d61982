SPECIFICATION Spec
CONSTANTS
  Api = api
  Workers = {w1, w2}
  NumParts = 2
  Cached = TRUE
  MaxRuns = 1
  Failures = FALSE
  Cancels = FALSE
  Views = FALSE
  MaxCrashes = 0
INVARIANTS ManifestIsComplete
CHECK_DEADLOCK FALSE
