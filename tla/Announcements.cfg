SPECIFICATION FairSpec
CONSTANTS
  t1 = t1 t2 = t2 a1 = a1 a2 = a2
  Threads = {t1, t2}
  Announcements = {a1, a2}
  MaxTime = 1
  MaxAttempts = 3
  MaxTold = 2
  Clients <- MCClients
  Nil = Nil
  Deleted = Deleted
INVARIANT AnnouncedOnce
PROPERTY AnnouncedInTheEnd
CHECK_DEADLOCK FALSE
