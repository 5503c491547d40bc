--------------------------- MODULE LeaveWorkflow ---------------------------
(***************************************************************************)
(* The leave requests and the leave balances of one employee and one leave *)
(* type, and the web threads that serve the leave endpoints.               *)
(*                                                                         *)
(* A thread loads a row, checks the copy it holds, and writes later: the   *)
(* views take no row lock, and the services open their transaction after   *)
(* the row was loaded.  Every write of a transaction comes after its last  *)
(* read, so a transaction is modelled by its reads, one step each, and one *)
(* step that commits all its writes; a transaction that dies (a deadlock,  *)
(* a database error, a killed worker) is the step Abort.  Model.save()     *)
(* writes every column of the held copy unless it names update_fields, and *)
(* inserts the row again when it has been deleted meanwhile.               *)
(***************************************************************************)
EXTENDS Integers, FiniteSets

CONSTANTS
  Requests,       \* primary keys of LeaveRequest rows
  Threads,        \* web threads, each serving one call at a time
  Weekend,        \* the days that are a Saturday or a Sunday
  Spans,          \* date ranges: [first, last]
  MaxYear,        \* bound: the last calendar year of the model
  Entitlement,    \* LeavePolicy.allocated_days_per_year
  CarryoverDays,  \* LeavePolicy.carryover_days
  Allocations,    \* values HR may set as LeaveBalance.allocated
  Adjustments,    \* deltas of the assistant: [allocated, used]
  MaxDays,        \* bound: the largest value the assistant adds up to
  Endpoints,      \* the calls that clients make in this instance
  PatchStatuses,  \* the statuses that a PATCH writes in this instance
  PatchColumns,   \* the sets of columns that PATCHes of one history write
  NoRow,          \* primary key not used yet
  Deleted,        \* primary key whose row was deleted
  NoBalance,      \* no LeaveBalance row for that year
  NoRequest       \* a thread's call that concerns no LeaveRequest row

Statuses == {"pending", "lead_approved", "approved", "rejected", "cancelled"}

RowCalls == {"approve", "hr_approve", "reject", "cancel", "patch", "delete",
             "ai_cancel"}

AllEndpoints ==
  RowCalls \cup {"create", "adjust", "ai_adjust", "carryover"}

Years == 1 .. MaxYear
NoYear == 0

ASSUME LeaveConstants ==
  /\ Weekend \subseteq Nat
  /\ Spans \subseteq [first : Nat, last : Nat]
  /\ MaxYear \in Nat \ {0}
  /\ Entitlement \in Nat /\ CarryoverDays \in Nat /\ MaxDays \in Nat
  /\ Allocations \subseteq Nat
  /\ Adjustments \subseteq [allocated : Int, used : Int]
  /\ Endpoints \subseteq AllEndpoints
  /\ PatchStatuses \subseteq Statuses
  /\ PatchColumns \subseteq SUBSET {"leave_type", "dates", "status"}

Rows == [status : Statuses,           \* LeaveRequest.status
         span : Spans,                \* start_date, end_date
         own : BOOLEAN,               \* leave_type is the balances' type
         lead : BOOLEAN,              \* lead_approver is set
         patched : BOOLEAN,           \* history: a PATCH wrote the status
         decided : Years \cup {NoYear}]  \* year of approved_date, if set

Balances == [allocated : Nat, used : Nat, carryover : Nat]

ASSUME LeaveNulls ==
  /\ NoRow \notin Rows /\ Deleted \notin Rows /\ NoRow # Deleted
  /\ NoRow \notin [status : Statuses, span : Spans,
                   charged : Years \cup {NoYear}]
  /\ NoBalance \notin Balances
  /\ NoRequest \notin Requests

VARIABLES
  request,   \* the LeaveRequest table: primary key -> row
  balance,   \* the LeaveBalance table: year -> row
  year,      \* datetime.now().year
  job,       \* thread -> the call it serves and the copies it holds
  columns    \* the columns that clients PATCH, chosen at the start

vars == <<request, balance, year, job, columns>>

Jobs == [call : AllEndpoints \cup {"none"},
         at   : {"idle", "loaded", "ready"},
         req  : Requests \cup {NoRequest},
         row  : Rows \cup {NoRow},
         bal  : Balances \cup {NoBalance},
         year : Years \cup {NoYear}]

Idle == [call |-> "none", at |-> "idle", req |-> NoRequest, row |-> NoRow,
         bal |-> NoBalance, year |-> NoYear]

-----------------------------------------------------------------------------
(* Days and balances.                                                      *)

DaysOf(s) == s.first .. s.last
CalendarDays(s) == IF s.first <= s.last THEN s.last - s.first + 1 ELSE 0
WorkingDays(s) == Cardinality(DaysOf(s) \ Weekend)
Overlap(s, u) == s.first <= u.last /\ s.last >= u.first

Entitled(b) == b.allocated + b.carryover
Remaining(b) == IF b.used <= Entitled(b) THEN Entitled(b) - b.used ELSE 0

\* Mutation of Carried: the policy's limit is forgotten.
CarriedUnlimited(b) == Remaining(b)

Carried(b) == IF Remaining(b) <= CarryoverDays THEN Remaining(b)
              ELSE CarryoverDays

Exists(r) == request[r] \in Rows
Live(r) == Exists(r) /\ request[r].status \notin {"rejected", "cancelled"}

NewRow(s) == [status |-> "pending", span |-> s, own |-> TRUE, lead |-> FALSE,
              patched |-> FALSE, decided |-> NoYear]
NewBalance(days, carried) ==
  [allocated |-> days, used |-> 0, carryover |-> carried]

-----------------------------------------------------------------------------
(* Helpers of the actions.                                                 *)

Serving(t, c, stage) == job[t].call = c /\ job[t].at = stage

Finish(t) == job' = [job EXCEPT ![t] = Idle]

\* Model.save(): every column of the copy, an INSERT if the row has gone.
SaveRow(t, new) ==
  /\ request' = [request EXCEPT ![job[t].req] = new]
  /\ Finish(t)

SaveBalance(y, new) == balance' = [balance EXCEPT ![y] = new]

\* Mutation of Accepts: only a cancelled request is refused.
AcceptsLoosely(c, status) == status # "cancelled"

\* The checks made on the row as it was loaded; a failed one answers 400.
Accepts(c, status) ==
  CASE c = "approve"    -> status = "pending"
    [] c = "hr_approve" -> status = "lead_approved"
    [] c = "reject"     -> status \in {"pending", "lead_approved"}
    [] c = "cancel"     -> status \notin {"rejected", "cancelled"}
    [] OTHER            -> TRUE

-----------------------------------------------------------------------------
(* POST /leave-requests/: two reads by the serializer, then the INSERT.    *)

\* Mutation of CreateCheckOverlap: ranges that only share their last day pass.
CreateCheckStrictOverlap(t) ==
  /\ job[t] = Idle /\ "create" \in Endpoints
  /\ \E s \in Spans :
       /\ s.first <= s.last
       /\ \A r \in Requests : Live(r) => request[r].span.last <= s.first
                                        \/ s.last < request[r].span.first
       /\ job' = [job EXCEPT ![t] = [Idle EXCEPT !.call = "create",
                                                 !.at = "loaded",
                                                 !.row = NewRow(s)]]
  /\ UNCHANGED <<request, balance, year>>

CreateCheckOverlap(t) ==
  /\ job[t] = Idle /\ "create" \in Endpoints
  /\ \E s \in Spans :
       /\ s.first <= s.last
       /\ \A r \in Requests : Live(r) => ~Overlap(request[r].span, s)
       /\ job' = [job EXCEPT ![t] = [Idle EXCEPT !.call = "create",
                                                 !.at = "loaded",
                                                 !.row = NewRow(s)]]
  /\ UNCHANGED <<request, balance, year>>

CreateCheckBalance(t) ==
  /\ Serving(t, "create", "loaded")
  /\ balance[year] # NoBalance
  /\ Remaining(balance[year]) >= WorkingDays(job[t].row.span)
  /\ job' = [job EXCEPT ![t].at = "ready"]
  /\ UNCHANGED <<request, balance, year>>

CreateInsert(t) ==
  /\ Serving(t, "create", "ready")
  /\ \E r \in Requests : /\ request[r] = NoRow
                         /\ request' = [request EXCEPT ![r] = job[t].row]
  /\ Finish(t)
  /\ UNCHANGED <<balance, year>>

-----------------------------------------------------------------------------
(* Calls on one row: get_object() and the checks on the copy it returns.   *)

LoadRow(t, c, r) ==
  /\ job[t] = Idle /\ c \in Endpoints \cap RowCalls
  /\ Exists(r) /\ Accepts(c, request[r].status)
  /\ job' = [job EXCEPT ![t] = [Idle EXCEPT !.call = c, !.at = "loaded",
                                            !.req = r, !.row = request[r]]]
  /\ UNCHANGED <<request, balance, year>>

LeadApprove(t) ==
  /\ Serving(t, "approve", "loaded")
  /\ SaveRow(t, [job[t].row EXCEPT !.status = "lead_approved", !.lead = TRUE])
  /\ UNCHANGED <<balance, year>>

\* Mutation of HrReadBalance: working days are checked, calendar days charged.
HrReadBalanceWorkingDays(t) ==
  /\ Serving(t, "hr_approve", "loaded") /\ job[t].row.own
  /\ balance[year] # NoBalance
  /\ Remaining(balance[year]) >= WorkingDays(job[t].row.span)
  /\ job' = [job EXCEPT ![t].at = "ready", ![t].bal = balance[year],
                        ![t].year = year]
  /\ UNCHANGED <<request, balance, year>>

HrReadBalance(t) ==
  /\ Serving(t, "hr_approve", "loaded") /\ job[t].row.own
  /\ balance[year] # NoBalance
  /\ Remaining(balance[year]) >= CalendarDays(job[t].row.span)
  /\ job' = [job EXCEPT ![t].at = "ready", ![t].bal = balance[year],
                        ![t].year = year]
  /\ UNCHANGED <<request, balance, year>>

HrApprove(t) ==
  /\ Serving(t, "hr_approve", "ready")
  /\ SaveRow(t, [job[t].row EXCEPT !.status = "approved",
                                   !.decided = year])
  /\ SaveBalance(job[t].year,
                 [job[t].bal EXCEPT !.used = @ + CalendarDays(job[t].row.span)])
  /\ UNCHANGED year

\* A request of another leave type is charged to a balance of that type.
HrApproveOther(t) ==
  /\ Serving(t, "hr_approve", "loaded") /\ ~job[t].row.own
  /\ SaveRow(t, [job[t].row EXCEPT !.status = "approved",
                                   !.decided = year])
  /\ UNCHANGED <<balance, year>>

Reject(t) ==
  /\ Serving(t, "reject", "loaded")
  /\ SaveRow(t, [job[t].row EXCEPT !.status = "rejected", !.decided = year])
  /\ UNCHANGED <<balance, year>>

\* Only a copy that says "approved" gives days back, to the current year and
\* to the leave type the copy names.
GivesBack(row) == row.status = "approved" /\ row.own

CancelReadBalance(t) ==
  /\ Serving(t, "cancel", "loaded") /\ GivesBack(job[t].row)
  /\ job' = [job EXCEPT ![t].at = "ready", ![t].bal = balance[year],
                        ![t].year = year]
  /\ UNCHANGED <<request, balance, year>>

\* Mutations of GiveBack: no floor at zero; the days go to the allocation.
GiveBackUnclamped(b, days) == [b EXCEPT !.used = @ - days]
GiveBackAllocation(b, days) == [b EXCEPT !.allocated = @ + days]

GiveBack(b, days) == [b EXCEPT !.used = IF @ >= days THEN @ - days ELSE 0]

Cancel(t) ==
  /\ \/ /\ Serving(t, "cancel", "loaded") /\ ~GivesBack(job[t].row)
        /\ UNCHANGED balance
     \/ /\ Serving(t, "cancel", "ready") /\ job[t].bal = NoBalance
        /\ UNCHANGED balance
     \/ /\ Serving(t, "cancel", "ready") /\ job[t].bal # NoBalance
        /\ SaveBalance(job[t].year,
                       GiveBack(job[t].bal, CalendarDays(job[t].row.span)))
  /\ SaveRow(t, [job[t].row EXCEPT !.status = "cancelled"])
  /\ UNCHANGED year

\* PATCH: the list serializer leaves the leave type, the dates and the status
\* writable and validates none of them: the last day may come before the first.
Patch(t) ==
  /\ Serving(t, "patch", "loaded")
  /\ \E s \in Spans, own \in BOOLEAN,
        status \in PatchStatuses \cup {job[t].row.status} :
       /\ s # job[t].row.span => "dates" \in columns
       /\ own # job[t].row.own => "leave_type" \in columns
       /\ status # job[t].row.status => "status" \in columns
       /\ SaveRow(t, [job[t].row EXCEPT
                        !.span = s, !.own = own, !.status = status,
                        !.patched = @ \/ status # job[t].row.status])
  /\ UNCHANGED <<balance, year>>

Delete(t) ==
  /\ Serving(t, "delete", "loaded")
  /\ request' = [request EXCEPT ![job[t].req] = Deleted]
  /\ Finish(t)
  /\ UNCHANGED <<balance, year>>

\* The assistant's tool saves with update_fields=["status"].
AssistantCancel(t) ==
  /\ Serving(t, "ai_cancel", "loaded")
  /\ Exists(job[t].req)
  /\ request' = [request EXCEPT ![job[t].req].status = "cancelled"]
  /\ Finish(t)
  /\ UNCHANGED <<balance, year>>

-----------------------------------------------------------------------------
(* Calls on one balance.                                                   *)

ReadBalance(t, c, y) ==
  /\ job[t] = Idle /\ c \in Endpoints \cap {"adjust", "ai_adjust"}
  /\ c = "adjust" => balance[y] # NoBalance
  /\ job' = [job EXCEPT ![t] = [Idle EXCEPT !.call = c, !.at = "ready",
                                            !.bal = balance[y], !.year = y]]
  /\ UNCHANGED <<request, balance, year>>

Adjust(t) ==
  /\ Serving(t, "adjust", "ready")
  /\ \E a \in Allocations :
       SaveBalance(job[t].year, [job[t].bal EXCEPT !.allocated = a])
  /\ Finish(t)
  /\ UNCHANGED <<request, year>>

\* get_or_create: a row created meanwhile by another thread is read again.
AssistantBase(t) ==
  IF job[t].bal # NoBalance THEN job[t].bal
  ELSE IF balance[job[t].year] # NoBalance THEN balance[job[t].year]
  ELSE NewBalance(0, 0)

AssistantAdjust(t) ==
  /\ Serving(t, "ai_adjust", "ready")
  /\ \E d \in Adjustments :
       LET base == AssistantBase(t)
           kept == IF balance[job[t].year] = NoBalance THEN 0
                   ELSE balance[job[t].year].carryover
       IN /\ base.allocated + d.allocated \in 0 .. MaxDays
          /\ base.used + d.used \in 0 .. MaxDays
          /\ SaveBalance(job[t].year,
               [allocated |-> base.allocated + d.allocated,
                used |-> base.used + d.used, carryover |-> kept])
  /\ Finish(t)
  /\ UNCHANGED <<request, year>>

\* apply_carryover: the copy held first is the row get_or_create would add.
CarryoverReadSource(t, y) ==
  /\ job[t] = Idle /\ "carryover" \in Endpoints /\ y + 1 \in Years
  /\ balance[y] # NoBalance
  /\ Carried(balance[y]) > 0
  /\ job' = [job EXCEPT ![t] =
               [Idle EXCEPT !.call = "carryover", !.at = "loaded",
                            !.bal = NewBalance(Entitlement, Carried(balance[y])),
                            !.year = y + 1]]
  /\ UNCHANGED <<request, balance, year>>

CarryoverTarget(t) ==
  /\ Serving(t, "carryover", "loaded")
  /\ IF balance[job[t].year] = NoBalance
     THEN /\ SaveBalance(job[t].year, job[t].bal)
          /\ Finish(t)
     ELSE /\ job' = [job EXCEPT ![t].at = "ready",
                       ![t].bal = [balance[job[t].year] EXCEPT
                                     !.carryover = job[t].bal.carryover]]
          /\ UNCHANGED balance
  /\ UNCHANGED <<request, year>>

CarryoverSave(t) ==
  /\ Serving(t, "carryover", "ready")
  /\ SaveBalance(job[t].year, job[t].bal)
  /\ Finish(t)
  /\ UNCHANGED <<request, year>>

-----------------------------------------------------------------------------
(* The environment.                                                        *)

\* A check that fails later on, an exception, a deadlock or a dead worker.
Abort(t) ==
  /\ job[t] # Idle
  /\ Finish(t)
  /\ UNCHANGED <<request, balance, year>>

InitializeBalance ==
  /\ balance[year] = NoBalance
  /\ SaveBalance(year, NewBalance(Entitlement, 0))
  /\ UNCHANGED <<request, year, job>>

NextYear ==
  /\ year < MaxYear
  /\ year' = year + 1
  /\ UNCHANGED <<request, balance, job>>

\* A new account: no request yet, balances for the current year.
Init ==
  /\ request = [r \in Requests |-> NoRow]
  /\ balance = [y \in Years |-> IF y = 1 THEN NewBalance(Entitlement, 0)
                                ELSE NoBalance]
  /\ year = 1
  /\ job = [t \in Threads |-> Idle]
  /\ columns \in PatchColumns

ThreadStep(t) ==
  \/ CreateCheckOverlap(t) \/ CreateCheckBalance(t) \/ CreateInsert(t)
  \/ \E c \in RowCalls, r \in Requests : LoadRow(t, c, r)
  \/ LeadApprove(t)
  \/ HrReadBalance(t) \/ HrApprove(t) \/ HrApproveOther(t)
  \/ Reject(t)
  \/ CancelReadBalance(t) \/ Cancel(t)
  \/ Patch(t) \/ Delete(t) \/ AssistantCancel(t)
  \/ \E c \in {"adjust", "ai_adjust"}, y \in Years : ReadBalance(t, c, y)
  \/ Adjust(t) \/ AssistantAdjust(t)
  \/ \E y \in Years : CarryoverReadSource(t, y)
  \/ CarryoverTarget(t) \/ CarryoverSave(t)
  \/ Abort(t)

Next ==
  /\ \/ \E t \in Threads : ThreadStep(t)
     \/ InitializeBalance
     \/ NextYear
  /\ UNCHANGED columns

Spec == Init /\ [][Next]_vars

-----------------------------------------------------------------------------
(* Invariants.                                                             *)

\* The tables and the held copies keep their shape; in particular no column
\* that is a PositiveIntegerField ever becomes negative, whatever copies are
\* written over each other.
TypeOK ==
  /\ request \in [Requests -> Rows \cup {NoRow, Deleted}]
  /\ balance \in [Years -> Balances \cup {NoBalance}]
  /\ year \in Years
  /\ job \in [Threads -> Jobs]
  /\ columns \in PatchColumns

\* Columns of one row that belong together.
Trail(row) ==
  /\ row.status = "pending" => ~row.lead /\ row.decided = NoYear
  /\ row.status = "lead_approved" => row.lead /\ row.decided = NoYear
  /\ row.status = "approved" => row.lead /\ row.decided # NoYear
  /\ row.status = "rejected" => row.decided # NoYear

\* The services never grant a final approval without the approval of the Tech
\* Lead and its own date, nor leave an undecided request with a decision,
\* although threads write whole stale copies over each other, PATCHes of dates
\* and types included (approve_leave_request_lead, _hr, reject_leave_request,
\* cancel_leave_request).  Only a request whose status a PATCH has written can
\* show a status without its columns: the list serializer accepts any status.
ApprovalTrail ==
  \A r \in Requests :
    Exists(r) => Trail(request[r]) \/ request[r].patched

\* Approvals and cancellations, in any interleaving, never leave a balance
\* whose used days exceed what it grants (the check on `remaining` in
\* approve_leave_request_hr); HR's own adjustments and the carryover can.
NoOverdraft ==
  \A y \in Years :
    balance[y] # NoBalance => balance[y].used <= Entitled(balance[y])

\* Whatever is saved over it, a year never carries more days over than the
\* policy lets it (apply_carryover takes the smaller of the two).
CarryoverWithinPolicy ==
  \A y \in Years :
    balance[y] # NoBalance => balance[y].carryover <= CarryoverDays

ApprovedIn(y) == {r \in Requests : /\ Exists(r)
                                   /\ request[r].status = "approved"
                                   /\ request[r].own
                                   /\ request[r].decided = y}

\* Each day of each of these requests; one day may be granted by several.
DaysApproved(y) ==
  UNION {{r} \X DaysOf(request[r].span) : r \in ApprovedIn(y)}

\* "Days already used/approved" (LeaveBalance.used): the used days of a year
\* are the days of the requests approved in it.
UsedMatchesApproved ==
  \A y \in Years :
    balance[y] # NoBalance => balance[y].used = Cardinality(DaysApproved(y))

\* A new request is refused when another live request shares a day with it
\* (LeaveRequest.is_overlapping).
NoLiveOverlap ==
  \A r, q \in Requests :
    r # q /\ Live(r) /\ Live(q) => ~Overlap(request[r].span, request[q].span)

-----------------------------------------------------------------------------
(* The promise of the workflow, with a request seen as charged to the year *)
(* of its approval and a year without a balance row seen as unused.        *)

LeaveOf(row) ==
  IF row \notin Rows THEN NoRow
  ELSE [status |-> row.status, span |-> row.span,
        charged |-> IF row.status = "approved" THEN row.decided ELSE NoYear]
UsedOf(b) == IF b = NoBalance THEN 0 ELSE b.used

Lifecycle == INSTANCE LeaveLifecycle WITH
  Cost <- CalendarDays,
  NoLeave <- NoRow,
  leave <- [r \in Requests |-> LeaveOf(request[r])],
  used <- [y \in Years |-> UsedOf(balance[y])]

\* One call at a time, the service functions implement the lifecycle.
ImplementsLifecycle == Lifecycle!LifecycleSpec
=============================================================================
