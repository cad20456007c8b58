SPECIFICATION FairSpec
CONSTANTS
  a1 = a1  a2 = a2  b1 = b1  LaneA = LaneA  LaneB = LaneB
  Updates <- LaneUpdates
  Lanes <- MCLanes
  Lane <- LaneOfLane
  Contact <- MCContact
  Legacy <- MCNoLegacy
  Locks <- MCLocks
  Drain = Drain  None = None
  Concurrency = 2
  MaxCalls = 3  MaxFaults = 3  MaxCrashes = 1  MaxStops = 1
INVARIANTS AtMostOnce ContactScrubbed ClaimBudget ArrivalOrder
PROPERTIES ImplementsMailbox InLaneOrder EventuallySettled
