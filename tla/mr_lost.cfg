SPECIFICATION Spec
CONSTANTS
  a = a
  w1 = w1
  w2 = w2
  p1 = p1
  None = None
  Heads = {a}
  Workers = {w1, w2}
  Producers = {p1}
  Roles = {"webhook"}
  GateAnswers = {TRUE}
  AdapterAnswers = {TRUE}
  LazyBoot = FALSE
  MaxOps = 1
  MaxRequeues = 0
  MaxCrashes = 0
SYMMETRY Symmetry
INVARIANTS QueuedHasCarrier
CHECK_DEADLOCK FALSE
