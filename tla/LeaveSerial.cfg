SPECIFICATION Spec
CONSTANTS
  r1 = r1 r2 = r2 r3 = r3 t1 = t1 t2 = t2
  Requests = {r1, r2, r3}
  Threads = {t1}
  Weekend <- MCWeekend
  Spans <- MCSpans
  MaxYear = 1
  Entitlement = 4
  CarryoverDays = 1
  Allocations = {2, 4}
  Adjustments <- NoAdjustments
  MaxDays = 3
  Endpoints <- WorkflowAndAdjust
  PatchStatuses <- NoStatuses
  PatchColumns <- NoColumns
  NoRow = NoRow
  Deleted = Deleted
  NoBalance = NoBalance
  NoRequest = NoRequest
CHECK_DEADLOCK FALSE
SYMMETRY RequestSymmetry
INVARIANTS UsedMatchesApproved NoLiveOverlap
PROPERTY ImplementsLifecycle
