SPECIFICATION FairSpec
CONSTANTS
  a = a
  w1 = w1
  w2 = w2
  p1 = p1
  p2 = p2
  None = None
  Heads = {a}
  Workers = {w1, w2}
  Producers = {p1, p2}
  Roles = {"poll", "stop", "retry"}
  GateAnswers = {TRUE, FALSE}
  AdapterAnswers = {TRUE, FALSE}
  LazyBoot = TRUE
  MaxOps = 3
  MaxRequeues = 1
  MaxCrashes = 1
INVARIANTS QueuedHasCarrier RunningHasReviewer
PROPERTIES QueuedEnds WorkersReturn
CHECK_DEADLOCK FALSE
