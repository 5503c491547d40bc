SPECIFICATION Spec
CONSTANTS
  a1 = a1 a2 = a2 i1 = i1 i2 = i2 t1 = t1 t2 = t2
  Assets = {a1, a2}
  Assignments = {i1, i2}
  Threads = {t1, t2}
  StatusValues = {"active", "maintenance"}
  PutBodies <- AnyBody
  MaxLogs = 2
  Clients <- MCClients
  NoRow = NoRow
  Deleted = Deleted
  Keep = Keep
  NoThread = NoThread
CHECK_DEADLOCK FALSE
SYMMETRY CustodySymmetry
INVARIANTS TypeOK OneHolder RecordsTellEvents OneLogPerMaintenance
PROPERTY ReturnStays
