SPECIFICATION Spec
CONSTANTS
  w1 = w1
  w2 = w2
  a1 = a1
  a2 = a2
  Workers = {w1, w2}
  Admins = {a1, a2}
  GateAnswers = {TRUE, FALSE}
  AdapterAnswers = {TRUE, FALSE}
  Stops = TRUE
  MaxEvents = 3
  MaxManual = 3
  MaxCrashes = 2
SYMMETRY Symmetry
INVARIANT RunningHasReviewer
CHECK_DEADLOCK FALSE
