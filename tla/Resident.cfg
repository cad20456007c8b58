SPECIFICATION Spec
CONSTANTS
  Handlers <- MCOne
  Sweepers <- MCSweep
  Inputs <- MCInputs
  Limit = 1  MaxAttempts = 2  MaxTidies = 1
  MaxTokens = 4  MaxDrafts = 1  MaxTroubles = 1  MaxLapses = 0
PROPERTIES ScreenSettles
CHECK_DEADLOCK FALSE
