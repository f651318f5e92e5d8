SPECIFICATION Spec
CONSTANTS
  MaxTries <- MCMaxTries
  MaxCalls = 2
INVARIANTS TypeOK BlameIsEarned AnswersAgree
PROPERTIES CompletionWins
CHECK_DEADLOCK FALSE
