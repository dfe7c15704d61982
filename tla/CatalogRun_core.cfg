SPECIFICATION Spec
CONSTANTS
  NumParts = 2
  Pids = {c1, c2}
  MaxActive = 2
  MaxCalls = 2
  MaxFaults = 1
INVARIANTS LedgerMatchesDisk ManifestIsAudited CallIsNeverStuck
PROPERTY DoneStaysDone
SYMMETRY PidSymmetry
CHECK_DEADLOCK FALSE
