SPECIFICATION Spec
CONSTANTS
  r1 = r1
  r2 = r2
  Runs <- MCRuns
  MaxRepairs = 1
  MaxAttempts = 2
  PageSize = 4
SYMMETRY MCSymmetry
INVARIANTS TypeOK RecordIsTrue HistoryIsAPath
