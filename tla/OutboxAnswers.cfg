SPECIFICATION Spec
CONSTANTS
  first = first  second = second  third = third  w1 = w1  w2 = w2  user = user
  Jobs <- PairJobs
  Targets <- MCTargets
  Target <- PairTarget
  Kind <- AnswerThenRefresh
  Parts <- TwoAndNone
  Workers <- MCWorkers
  Orders <- AnyOrder
  Locks <- MCLocks
  None = None
  MaxAttempts = 2
  MaxTroubles = 1  MaxLapses = 1  MaxResends = 1
SYMMETRY Symmetry
CHECK_DEADLOCK FALSE
INVARIANTS SavedReceived DeliveredHonest ObsoleteStops DuplicatesAccounted NoOvertake
PROPERTIES SettledFinal ImplementsDelivery
