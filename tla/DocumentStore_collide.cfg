SPECIFICATION Spec
CONSTANTS
  Threads = {1}
  Parts = {1, 2}
  PartPages = 1
  MaxItems = 3
  MaxRuns = 3
  Autocommit = FALSE
INVARIANT ReplacementSucceeds
CHECK_DEADLOCK FALSE
