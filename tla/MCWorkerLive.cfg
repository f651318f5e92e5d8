SPECIFICATION LiveSpec
CONSTANTS
  w1 = w1
  w2 = w2
  None = None
  Broker = Broker
  Jobs <- MCJobs
  Workers <- MCWorker
  MaxAttempts <- MCMaxAttempts
  Priority <- MCPriority
  Private <- MCJobs
  LeaseTime = 2
  RetryDelay = 1
  MaxClock = 4
PROPERTIES RunEnds LapsedLeaseIsReleased ImplementsQueue
