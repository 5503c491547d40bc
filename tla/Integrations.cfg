SPECIFICATION MCSpec
CONSTANTS
  t1 = t1 t2 = t2 k1 = k1 k2 = k2 k3 = k3 x = x y = y Bad = Bad u1 = u1 u2 = u2
  Accounts = {k1, k2}
  Emails = {x, y}
  Proposals = {k1, k2}
  MaxRuns = 2
  Assets = {x, y}
  Employees = {u1, u2}
  Viewer = u1
  MaxAssignments = 2
  Texts = {x, y, k1}
  Length <- LengthOf
  Tool <- ToolOf
  AnswerLength = 3
  Limit = 3
  Budget = 6
  Cap = 3
  Retries = 1
  MaxRounds = 2
  MaxMessages = 3
  Owners = {u1, u2}
  ProviderAccounts = {k1, k2}
  Connections = {k1, k2}
  MaxToken = 2
  DocumentKeys = {k1, k2, k3}
  FileKeys = {x, y}
  TemplateKeys = {k1, k2}
  TemplateNames = {x, y}
  CopyName = k3
  FieldKeys = {x, y}
  Author = u1
  Admin = t1
  Colleague = u2
  Threads = {t1, t2}
  Clients <- MCClients
  Nil = Nil
  Deleted = Deleted
INVARIANT AccountPromises
PROPERTIES ConnectionPromises ImportPromises AnalyticsPromises FilePromises AssistantPromises
CHECK_DEADLOCK FALSE
