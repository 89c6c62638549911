SPECIFICATION Spec
CONSTANTS
  Ids = {1}
  Hourly = Hourly
  Nine = Nine
  Intervals = {Hourly, e5}
  Crons = {Nine}
  Bad = Bad
  Seeds <- MCSeeds
  Validators = {"poll", "daily"}
  MaxEdits = 2
  MaxExternal = 1
  Admins = {a1, a2}
  Timers = {t1}
  Done = Done
  Conflict = Conflict
  Failed = Failed
  Projects = 2
  Found = {0, 2}
  MaxAsks = 3
  MaxRounds = 2
  Reviews = {r1, r2}
  Removers = {d1}
  Inodes = {i1, i2, i3}
  Writes = {TRUE, FALSE}
  MaxRuns = 3
  MaxIterations = 5
  MaxPrompt = 20
  MaxEmpty = 1
  ActiveZone = 6
  MaxTools = 2
  Openings = {1, 12}
  Plans <- MCPlans
  MaxGroups = 3
  Concurrency = 2
  Scores = {0}
  Budget = TRUE
  None = None
  MaxFaults = 1
INVARIANTS TypeOK AskedIsAnswered CloneIsRegistered LimitsGrace FilesAccounted
PROPERTIES SessionKeeps SpoiledByBreach EverythingEnds
CHECK_DEADLOCK FALSE
