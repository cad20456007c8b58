SPECIFICATION Spec
CONSTANTS
  i1 = i1  first = first  timer = timer  review = review
  Incidents <- MCIncidents
  Sweeps <- MCSweeps
  Chats <- MCChats
  Day = 2  Week = 3  Weekend <- MCWeekend
  Open = 0  Close = 1  WorkStart = 0  WorkEnd = 1
  Budget = 1  Workdays = 2
  Horizon = 6  LastArrival = 2
  MaxLag = 1  MaxAttempts = 2  MaxTroubles = 1
INVARIANTS OverdueExact NoNoticeLost
PROPERTIES Noticed
