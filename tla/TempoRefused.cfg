SPECIFICATION FairSpec
CONSTANTS
  Days = {1, 2}
  Spans = {{1}, {1, 2}}
  Threads = {t1}
  Ids = {w1, w2}
  MaxAttempts = 2
  Faults = {"http_error", "no_issue_key"}
  Patches = {"dates", "status"}
  NoId = NoId
  NoRow = NoRow
  NoEntry = NoEntry
INVARIANT NoDuplicateWorklogs
PROPERTY CancelledIsTakenBack
