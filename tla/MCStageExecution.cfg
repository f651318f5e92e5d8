SPECIFICATION Spec
CONSTANTS
  e1 = e1
  e2 = e2
  None = None
  Calls <- MCCalls
  Kinds <- MCKinds
INVARIANTS TypeOK StageRunsUnderLock TerminationLeavesNobody VerdictIsEarned
PROPERTIES CallEnds
CHECK_DEADLOCK FALSE
