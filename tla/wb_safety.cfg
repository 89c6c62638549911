SPECIFICATION Spec
CONSTANTS
  f1 = f1
  f2 = f2
  f3 = f3
  r = r
  d1 = d1
  d2 = d2
  Findings = {f1, f2, f3}
  AnchorSets <- AllAnchored
  BatchSize = 2
  HasAnchors = TRUE
  Retries = 1
  Review = r
  Redeliverers = {d1, d2}
  MaxFaults = 2
  MaxRejects = 1
  MaxRequests = 2
  MaxCrashes = 1
SYMMETRY Symmetry
INVARIANTS TypeOK Delivered RepetitionsHaveCauses
CHECK_DEADLOCK FALSE
