CONSTANTS
  t1 = t1
  t2 = t2
  k1 = k1
  k2 = k2
  k3 = k3
  x = x
  y = y
  u1 = u1
  u2 = u2
  q1 = q1
  q2 = q2
  e = e
  Deleted = Deleted
  Applicants = {k1, k2}
  Entries = {k1, k2}
  Years = {x, y}
  Templates = {k1, k2}
  Titles = {x, y}
  Instances = {k1, k2, k3}
  Users = {u1, u2}
  Questions = {q1, q2}
  Responses = {k1, k2}
  Staff = {u2}
  Records = {k1, k2}
  LastDay = 2
  Assignments = {k1, k2, k3}
  LastPlanned = 2
  Levels = {k1, k2}
  CareerNames = {x, y}
  RoleNames = {x, y}
  MaxChanges = 2
  LastEffective = 1
  MaxVersion = 4
  PermissionNames = {k1, k2, k3}
  Holders = {u1}
  DefaultPermissions = {k1}
  SuperAdmin = y
  RoleFiles <- Sheets
  Nil = Nil
  Threads = {t1, t2}
  Clients <- MCClients
SPECIFICATION Spec
INVARIANTS BudgetPromises ChecklistPromises
PROPERTIES  ApplicationPromises CareerPromises SurveyPromises ReviewPromises
CHECK_DEADLOCK FALSE
