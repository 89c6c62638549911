SPECIFICATION Spec
CONSTANTS
  a = a
  b = b
  w1 = w1
  w2 = w2
  p1 = p1
  p2 = p2
  None = None
  Heads = {a, b}
  Workers = {w1, w2}
  Producers = {p1, p2}
  Roles = {"webhook", "poll"}
  GateAnswers = {TRUE, FALSE}
  AdapterAnswers = {TRUE, FALSE}
  LazyBoot = FALSE
  MaxOps = 3
  MaxRequeues = 1
  MaxCrashes = 1
SYMMETRY Symmetry
INVARIANTS TypeOK OneReviewerPerHead
PROPERTIES LatestReviewFinal NotStartedStays
CHECK_DEADLOCK FALSE
