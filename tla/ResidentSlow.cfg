SPECIFICATION Spec
CONSTANTS
  Handlers <- MCTwo
  Sweepers <- MCNone
  Inputs <- MCInputs
  Limit = 1  MaxAttempts = 2  MaxTidies = 1
  MaxTokens = 3  MaxDrafts = 1  MaxTroubles = 0  MaxLapses = 1
INVARIANTS ConfirmedAsShown DraftEndsOnce CurrentScreenUsable
CHECK_DEADLOCK FALSE
