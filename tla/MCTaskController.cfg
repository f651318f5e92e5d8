SPECIFICATION Spec
CONSTANTS
  Rounds = 3
  Outcomes <- AllOutcomes
  FinalOutcomes <- AllFinals
  FullProfile = TRUE
  ProfileRequired = TRUE
  MaxFailures = 1
INVARIANTS TypeOK StatesAreBacked OneAnswerPerRound BestFollowsFeedback FeedbackChain BestIsUnbeaten VerdictStands
PROPERTIES CheckpointsAreLegal BestIsFrozen ImplementsTrajectory
