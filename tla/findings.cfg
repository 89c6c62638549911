SPECIFICATION Spec
CONSTANTS
  h1 = h1
  h2 = h2
  h3 = h3
  fa = fa
  fb = fb
  i1 = i1
  i2 = i2
  v1 = v1
  v2 = v2
  Gone = Gone
  None = None
  Heads = {h1, h2, h3}
  Files = {fa, fb}
  Issues = {i1, i2}
  Versions = {v1, v2, Gone}
  FileOf <- MCFileOf
  Contents <- MCContents
  Reviewers = {r1, r2}
  ChainAnswers = {TRUE, FALSE}
  Skips = {TRUE, FALSE}
  MaxReviews = 3
  MaxFaults = 1
  MaxDeletes = 1
INVARIANTS FindingsKept GoneIsClosed
PROPERTY OnlyCoveredClosed
SYMMETRY Perms
CHECK_DEADLOCK FALSE
