SPECIFICATION UpkeepSpec
CONSTANTS
  i1 = i1  answer = answer  staged = staged  tx = tx  process = process  admin = admin
  Incidents <- MCIncidents
  AnswerKeys <- MCAnswerKeys
  StagedKeys <- MCStagedKeys
  Of <- MCOf
  Writers <- MCWriters
  Sweepers <- MCSweepers
  Admins <- MCAdmins
  Null = Null
  MaxAttempts = 2  MaxTroubles = 1  MaxPreviews = 2
CHECK_DEADLOCK FALSE
INVARIANTS FilesKept NoFileLost
PROPERTIES ErasedAsShown
