SPECIFICATION Spec
CONSTANTS
  Users = {"root", "u1", "u2"}
  Root = "root"
  Custom = {"dev"}
  Pids = {1, 2}
  Repos = {"r1", "r2"}
  Tasks <- MCTasks
  Clients = {k1, k2}
  Databases <- MCDatabases
  Grants <- MCGrants
  Operations = {"create_user", "update_user", "delete_user", "create_role", "update_role", "set_permissions", "delete_role", "create_project", "update_project", "delete_project", "set_members"}
  MaxAsks = 0
  Providers <- MCProviders
  Models = {1}
  Secrets = {s1, s2}
  Forms <- MCForms
  Priorities = {0}
  Limits = {1, 2}
  Default = 4
  Admins = {a1, a2}
  Masked = Masked
  MaxSaves = 0
  MaxFaults = 0
  MaxStarts = 1
  Callers = {c1, c2}
  Titles = {x, y}
  Pages = {p1}
  ListLimit = 1
  MaxNotices = 0
  MaxClock = 1
  MaxLosses = 1
  RouteIds = {1, 2}
  PersonIds = {1}
  Channels = {feishu}
  Unknown = Unknown
  Projects = {pr}
  Kinds <- MCKinds
  Editors = {e1, e2}
  Attempts = 2
  MaxEdits = 2
  SmallFiles = 3
  SmallChurn = 3
  MaxFiles = 2
  GroupBudget = 4
  LinesMax = 0
  FoundMax = 0
  NoPath = NoPath
  PageMax = 2
  RowsMax = 0
  ValuesMax = 0
  None = None
INVARIANT ProjectRouteTold
CHECK_DEADLOCK FALSE
