SPECIFICATION FairSpec
CONSTANTS
  first = first  second = second  third = third  w1 = w1  w2 = w2  user = user
  Jobs <- TrioJobs
  Targets <- MCTargets
  Target <- TrioTarget
  Kind <- TrioKind
  Parts <- OneEach
  Workers <- SoloWorker
  Orders <- TrioOrders
  Locks <- MCLocks
  None = None
  MaxAttempts = 2
  MaxTroubles = 1  MaxLapses = 0  MaxResends = 0
CHECK_DEADLOCK FALSE
PROPERTIES EventuallySettled
