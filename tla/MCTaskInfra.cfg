SPECIFICATION LiveSpec
CONSTANTS
  Rounds = 1
  Outcomes <- InfraOutcomes
  FinalOutcomes <- AllFinals
  FullProfile = TRUE
  ProfileRequired = TRUE
  MaxFailures = 1
PROPERTY RetryHappens
