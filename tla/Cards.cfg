SPECIFICATION Spec
CONSTANTS
  Groups <- MCOneGroup
  LongAnswers <- MCLong
  MaxVersions = 2
  MaxReturns = 1
  MaxJobs = 1
  MaxExtras = 1
INVARIANTS CardsSettle CardOfAssignment
CHECK_DEADLOCK FALSE
