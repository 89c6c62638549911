SPECIFICATION FairSpec
CONSTANTS
  w1 = w1
  a1 = a1
  a2 = a2
  Workers = {w1}
  Admins = {a1, a2}
  GateAnswers = {TRUE, FALSE}
  AdapterAnswers = {TRUE, FALSE}
  Stops = FALSE
  MaxEvents = 3
  MaxManual = 3
  MaxCrashes = 0
INVARIANTS OneSummary
PROPERTIES ManualRunHonoured
CHECK_DEADLOCK FALSE
