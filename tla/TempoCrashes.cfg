SPECIFICATION Spec
CONSTANTS
  Days = {1, 2}
  Spans = {{1, 2}}
  Threads = {t1}
  Ids = {w1, w2, w3, w4}
  MaxAttempts = 2
  Faults = {"http_error", "no_connection", "lost_reply", "crash", "no_issue_key"}
  Patches = {}
  NoId = NoId
  NoRow = NoRow
  NoEntry = NoEntry
SYMMETRY IdSymmetry
INVARIANTS TypeOK SyncedMeansInTempo
