SPECIFICATION Spec
CONSTANTS
  Entries = {e1, e2}
  Worklogs = {w1}
  Threads = {t1, t2}
  Values = {v1, v2, s1}
  Weekend = {s1}
  Clients <- MCClients
  Manual = Manual
  NoRow = NoRow
  Deleted = Deleted
  Gone = Gone
SYMMETRY TimeSymmetry
INVARIANTS TypeOK StampsTellStatus
PROPERTY EntriesFollowWorkflow
