SPECIFICATION WorkSpec
CONSTANTS
  u1 = u1  u2 = u2  a = a  b = b
  Incidents = {1}
  People = {u1, u2}
  Private = {u1}
  Kinds <- Shared
  Args = {a, b}
  Desks = {"distribution", "sector", "review"}
  NoOne = NoOne
  NoArg = NoArg
  MaxCards = 2  MaxTerms = 2  MaxRounds = 1  MaxAnswers = 2
SYMMETRY Symmetry
CHECK_DEADLOCK FALSE
PROPERTIES WordsAsShown WorkInTime
