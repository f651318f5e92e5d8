SPECIFICATION Spec
CONSTANTS
  w1 = w1
  w2 = w2
  c1 = c1
  c2 = c2
  None = None
  Jobs <- MCJobs
  Workers <- MCWorkers
  Callers <- MCCallers
  MaxAttempts <- MCMaxAttempts
  Priority <- MCPriority
  RetryDelays <- MCRetryDelays
  LeaseTime = 2
  MaxClock = 3
PROPERTY OnlyLiveLeasesCommit
SYMMETRY Symmetry
