SPECIFICATION Spec
CONSTANTS
  w1 = w1
  w2 = w2
  None = None
  Broker = Broker
  Jobs <- MCJobs
  Workers <- MCWorkers
  MaxAttempts <- MCMaxAttempts
  Priority <- MCPriority
  Private <- MCNoJobs
  LeaseTime = 2
  RetryDelay = 1
  MaxClock = 3
INVARIANTS TypeOK AttemptDirIsFresh AnswerFitsOutcome NothingIsBuried
PROPERTIES LeaseNeverShrinks QuarantineHolds
SYMMETRY Symmetry
