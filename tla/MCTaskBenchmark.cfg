SPECIFICATION LiveSpec
CONSTANTS
  Rounds = 1
  Outcomes <- BenchmarkOutcomes
  FinalOutcomes <- AllFinals
  FullProfile = TRUE
  ProfileRequired = TRUE
  MaxFailures = 1
PROPERTY TaskEnds
