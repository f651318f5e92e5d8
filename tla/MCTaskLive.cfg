SPECIFICATION LiveSpec
CONSTANTS
  Rounds = 2
  Outcomes <- SmoothOutcomes
  FinalOutcomes <- AllFinals
  FullProfile = FALSE
  ProfileRequired = TRUE
  MaxFailures = 2
PROPERTY TaskEnds
