SPECIFICATION Spec
CONSTANTS
  r1 = r1 r2 = r2 r3 = r3 t1 = t1 t2 = t2
  Requests = {r1, r2}
  Threads = {t1, t2}
  Weekend <- MCWeekend
  Spans <- MCSpansAnyOrder
  MaxYear = 1
  Entitlement = 3
  CarryoverDays = 1
  Allocations = {1}
  Adjustments <- NoAdjustments
  MaxDays = 3
  Endpoints <- RowCallsAndCreate
  PatchStatuses <- Approved
  PatchColumns <- MCColumns
  NoRow = NoRow
  Deleted = Deleted
  NoBalance = NoBalance
  NoRequest = NoRequest
CHECK_DEADLOCK FALSE
SYMMETRY ThreadSymmetry
INVARIANTS TypeOK ApprovalTrail NoOverdraft
