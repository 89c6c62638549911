SPECIFICATION FairSpec
CONSTANTS
  w1 = w1
  w2 = w2
  w3 = w3
  Workers = {w1, w2, w3}
  MaxTasks = 3
  LongTasks = {2, 3}
  InitialLimit = 2
  Requests = {0, 1, 3}
INVARIANTS TypeOK SlotsAccounted QueuedOnce ShortTasksRunAlone
PROPERTIES ImplementsGate ImplementsLifecycle EveryTaskEnds
CHECK_DEADLOCK FALSE
