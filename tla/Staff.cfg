SPECIFICATION Spec
CONSTANTS
  u1 = u1  u2 = u2  a = a  b = b
  Incidents = {1}
  People = {u1, u2}
  Kinds <- Everything
  Args = {a, b}
  Desks = {"distribution", "sector", "review"}
  NoOne = NoOne
  NoArg = NoArg
  MaxCards = 3  MaxTerms = 2  MaxRounds = 1  MaxAnswers = 2
SYMMETRY Symmetry
CHECK_DEADLOCK FALSE
PROPERTIES DecidedAsShown DecidedInTime ConfirmationKept
