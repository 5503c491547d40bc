SPECIFICATION Spec
CONSTANTS
  r1 = r1 r2 = r2 r3 = r3 t1 = t1 t2 = t2
  Requests = {r1}
  Threads = {t1, t2}
  Weekend <- MCWeekend
  Spans <- MCSpans1
  MaxYear = 2
  Entitlement = 2
  CarryoverDays = 1
  Allocations = {3}
  Adjustments <- MCAdjustments
  MaxDays = 2
  Endpoints <- BalanceCalls
  PatchStatuses <- NoStatuses
  PatchColumns <- NoColumns
  NoRow = NoRow
  Deleted = Deleted
  NoBalance = NoBalance
  NoRequest = NoRequest
CHECK_DEADLOCK FALSE
SYMMETRY ThreadSymmetry
INVARIANT CarryoverWithinPolicy
