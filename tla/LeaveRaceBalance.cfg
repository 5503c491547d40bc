SPECIFICATION Spec
CONSTANTS
  r1 = r1 r2 = r2 r3 = r3 t1 = t1 t2 = t2
  Requests = {r1, r2}
  Threads = {t1, t2}
  Weekend <- MCWeekend
  Spans <- MCSpans2
  MaxYear = 1
  Entitlement = 3
  CarryoverDays = 1
  Allocations = {3}
  Adjustments <- NoAdjustments
  MaxDays = 3
  Endpoints <- Workflow
  PatchStatuses <- NoStatuses
  PatchColumns <- NoColumns
  NoRow = NoRow
  Deleted = Deleted
  NoBalance = NoBalance
  NoRequest = NoRequest
CHECK_DEADLOCK FALSE
INVARIANT UsedMatchesApproved
