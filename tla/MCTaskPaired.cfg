SPECIFICATION Spec
CONSTANTS
  Rounds = 3
  Outcomes <- PairedOutcomes
  FinalOutcomes <- AllFinals
  FullProfile = TRUE
  ProfileRequired = TRUE
  MaxFailures = 1
INVARIANT FeedbackChain
