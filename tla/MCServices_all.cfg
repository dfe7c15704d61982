SPECIFICATION ServicesSpec
CONSTANTS
  Threads = {c1, c2, c3}
  Files = {f1}
  Versions = {b1, b2}
  Options = {o1}
  MaxEntries = 1
  MaxCalls = 3
  Fallible = TRUE
  MaxPages = 7
  MaxTarget = 4
  MaxContext = 2
  NumJobs = 3
  MaxAttempts = 2
  Together = 1
INVARIANTS TypesOK FlightsAreShared EntriesAreTrue PlanTiles RunsAreSound
  OcrIsWhereItBelongs PartsTogether ViewsCurrent SubmissionsHold
PROPERTY PartsNeverVanish
CHECK_DEADLOCK FALSE
