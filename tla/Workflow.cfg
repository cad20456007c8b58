SPECIFICATION Spec
CONSTANTS
  i1 = i1  u1 = u1  u2 = u2  g1 = g1  g2 = g2
  Incidents = {i1}
  Staff = {u1, u2}
  Groups = {g1, g2}
  Bypass = {g2}
  NoOne = NoOne
  NoGroup = NoGroup
  MaxAnswers = 2  MaxRounds = 1
  MaxClaims = 1  MaxLeases = 2  MaxReviews = 1
SYMMETRY Symmetry
CHECK_DEADLOCK FALSE
INVARIANTS InProgressHeld NoUnreviewed CycleFits AnswerFits DeliveredStays
PROPERTIES AnswerRightful RunningKept ApprovedAsSeen
