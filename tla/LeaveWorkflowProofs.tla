------------------------ MODULE LeaveWorkflowProofs ------------------------
(***************************************************************************)
(* Theorems about LeaveWorkflow for every set of requests, threads, date   *)
(* ranges and years.                                                       *)
(***************************************************************************)
EXTENDS LeaveWorkflow, FiniteSetTheorems, TLAPS

\* What a thread holds while it serves a call: the row and balance copies it
\* will write have the shape of the tables, and the row passed the check.
JobOK(j) ==
  /\ j.call # "none" => j.call \in Endpoints
  /\ j.call \in RowCalls => /\ j.req \in Requests
                            /\ j.row \in Rows
                            /\ Accepts(j.call, j.row.status)
  /\ j.call = "create" => j.row \in Rows
  /\ j.call = "hr_approve" /\ j.at = "ready" =>
       /\ j.year \in Years /\ j.bal \in Balances
       /\ Remaining(j.bal) >= CalendarDays(j.row.span)
  /\ j.call = "cancel" /\ j.at = "ready" => j.year \in Years
  /\ j.call \in {"adjust", "ai_adjust", "carryover"} => j.year \in Years
  /\ j.call \in {"adjust", "carryover"} => j.bal \in Balances

TypeInv == TypeOK /\ \A t \in Threads : JobOK(job[t])

-----------------------------------------------------------------------------
(* Days and balances.                                                      *)

\* A date range, even one that ends before it begins, costs a number of days.
LEMMA CalendarDaysNatural ==
  ASSUME NEW s \in Spans
  PROVE  CalendarDays(s) \in Nat
BY LeaveConstants DEF CalendarDays

\* Giving days back keeps a balance a balance and never raises its used days.
LEMMA GiveBackShrinks ==
  ASSUME NEW b \in Balances, NEW n \in Nat
  PROVE  /\ GiveBack(b, n) \in Balances
         /\ GiveBack(b, n).used <= b.used
         /\ Entitled(GiveBack(b, n)) = Entitled(b)
BY DEF GiveBack, Balances, Entitled

\* Days that fit in what remains of a balance that is not overdrawn can be
\* charged without an overdraft.
LEMMA RemainingFits ==
  ASSUME NEW b \in Balances, NEW n \in Nat, Remaining(b) >= n,
         b.used <= Entitled(b)
  PROVE  b.used + n <= Entitled(b)
BY DEF Remaining, Entitled, Balances

\* A thread that finishes holds nothing.
LEMMA IdleOK == Idle \in Jobs /\ JobOK(Idle)
BY DEF Idle, Jobs, JobOK, RowCalls, AllEndpoints

\* Replacing one thread's job by a good one keeps all jobs good.
LEMMA JobUpdate ==
  ASSUME job \in [Threads -> Jobs], \A t \in Threads : JobOK(job[t]),
         NEW t \in Threads, NEW j \in Jobs, JobOK(j),
         job' = [job EXCEPT ![t] = j]
  PROVE  /\ job' \in [Threads -> Jobs]
         /\ \A u \in Threads : JobOK(job'[u])
OBVIOUS
-----------------------------------------------------------------------------
(* Type correctness.                                                       *)

LEMMA TypeInit == Init => TypeInv
<1> SUFFICES ASSUME Init PROVE TypeInv
  OBVIOUS
<1>1. NewBalance(Entitlement, 0) \in Balances
  BY LeaveConstants DEF NewBalance, Balances
<1>2. request \in [Requests -> Rows \cup {NoRow, Deleted}]
  BY DEF Init
<1>3. balance \in [Years -> Balances \cup {NoBalance}]
  BY <1>1 DEF Init
<1>4. year \in Years
  BY LeaveConstants DEF Init, Years
<1>5. job \in [Threads -> Jobs] /\ \A t \in Threads : JobOK(job[t])
  BY IdleOK DEF Init
<1>6. columns \in PatchColumns
  BY DEF Init
<1> QED
  BY <1>2, <1>3, <1>4, <1>5, <1>6 DEF TypeInv, TypeOK

LEMMA TypeStep == TypeInv /\ [Next]_vars => TypeInv'
<1> SUFFICES ASSUME TypeInv, [Next]_vars PROVE TypeInv'
  OBVIOUS
<1>0. columns' = columns
  BY DEF Next, vars
<1> USE <1>0 DEF TypeInv, TypeOK
<1>1. CASE UNCHANGED vars
  BY <1>1 DEF vars
<1>2. CASE InitializeBalance
  <2>1. NewBalance(Entitlement, 0) \in Balances
    BY LeaveConstants DEF NewBalance, Balances
  <2> QED
    BY <1>2, <2>1 DEF InitializeBalance, SaveBalance
<1>3. CASE NextYear
  BY <1>3, LeaveConstants DEF NextYear, Years
<1>4. ASSUME NEW t \in Threads, ThreadStep(t) PROVE TypeInv'
  <2> DEFINE j == job[t]
  <2>0. j \in Jobs /\ JobOK(j)
    OBVIOUS
  <2>1. CASE CreateCheckOverlap(t)
    <3>1. PICK s \in Spans : job' = [job EXCEPT ![t] =
            [Idle EXCEPT !.call = "create", !.at = "loaded", !.row = NewRow(s)]]
      BY <2>1 DEF CreateCheckOverlap
    <3> DEFINE k == [Idle EXCEPT !.call = "create", !.at = "loaded",
                                 !.row = NewRow(s)]
    <3>2. k \in Jobs /\ JobOK(k)
      BY <2>1 DEF CreateCheckOverlap, Idle, Jobs, JobOK, NewRow, Rows, Statuses,
                  RowCalls, AllEndpoints
    <3> QED
      BY <2>1, <3>1, <3>2, JobUpdate DEF CreateCheckOverlap
  <2>2. CASE CreateCheckBalance(t)
    <3> DEFINE k == [j EXCEPT !.at = "ready"]
    <3>1. k \in Jobs /\ JobOK(k)
      BY <2>0, <2>2 DEF CreateCheckBalance, Serving, Jobs, JobOK, RowCalls
    <3> QED
      BY <2>2, <3>1, JobUpdate DEF CreateCheckBalance
  <2>3. CASE CreateInsert(t)
    BY <2>0, <2>3, IdleOK, JobUpdate DEF CreateInsert, Finish, Serving, JobOK
  <2>4. ASSUME NEW c \in RowCalls, NEW r \in Requests, LoadRow(t, c, r)
        PROVE  TypeInv'
    <3> DEFINE k == [Idle EXCEPT !.call = c, !.at = "loaded", !.req = r,
                                 !.row = request[r]]
    <3>1. k \in Jobs /\ JobOK(k)
      BY <2>4 DEF LoadRow, Exists, Idle, Jobs, JobOK, RowCalls, AllEndpoints
    <3> QED
      BY <2>4, <3>1, JobUpdate DEF LoadRow
  <2>5. CASE LeadApprove(t)
    BY <2>0, <2>5, IdleOK, JobUpdate
       DEF LeadApprove, SaveRow, Finish, Serving, JobOK, RowCalls, Rows, Statuses
  <2>6. CASE HrReadBalance(t)
    <3> DEFINE k == [j EXCEPT !.at = "ready", !.bal = balance[year],
                              !.year = year]
    <3>1. balance[year] \in Balances /\ j.row \in Rows /\ j.row.span \in Spans
      BY <2>0, <2>6 DEF HrReadBalance, Serving, JobOK, RowCalls, Rows
    <3>2. Remaining(balance[year]) >= CalendarDays(j.row.span)
      BY <2>6 DEF HrReadBalance
    <3>3. k \in Jobs /\ JobOK(k)
      BY <2>0, <2>6, <3>1, <3>2 DEF HrReadBalance, Serving, Jobs, JobOK, RowCalls
    <3>4. job' = [job EXCEPT ![t] = k]
      BY <2>6 DEF HrReadBalance
    <3> QED
      BY <2>6, <3>3, <3>4, JobUpdate DEF HrReadBalance
  <2>7. CASE HrApprove(t)
    <3>1. /\ j.req \in Requests /\ j.row \in Rows /\ j.row.span \in Spans
          /\ j.year \in Years /\ j.bal \in Balances
      BY <2>0, <2>7 DEF HrApprove, Serving, JobOK, RowCalls, Rows
    <3>2. CalendarDays(j.row.span) \in Nat
      BY <3>1, CalendarDaysNatural
    <3>3. [j.bal EXCEPT !.used = @ + CalendarDays(j.row.span)] \in Balances
      BY <3>1, <3>2 DEF Balances
    <3>4. [j.row EXCEPT !.status = "approved", !.decided = year] \in Rows
      BY <3>1 DEF Rows, Statuses
    <3> QED
      BY <2>7, <3>1, <3>3, <3>4, IdleOK, JobUpdate
         DEF HrApprove, SaveRow, SaveBalance, Finish
  <2>21. CASE HrApproveOther(t)
    <3>1. /\ j.req \in Requests /\ j.row \in Rows
          /\ [j.row EXCEPT !.status = "approved", !.decided = year] \in Rows
      BY <2>0, <2>21
         DEF HrApproveOther, Serving, JobOK, RowCalls, Rows, Statuses
    <3> QED
      BY <2>21, <3>1, IdleOK, JobUpdate DEF HrApproveOther, SaveRow, Finish
  <2>8. CASE Reject(t)
    BY <2>0, <2>8, IdleOK, JobUpdate
       DEF Reject, SaveRow, Finish, Serving, JobOK, RowCalls, Rows, Statuses
  <2>9. CASE CancelReadBalance(t)
    <3> DEFINE k == [j EXCEPT !.at = "ready", !.bal = balance[year],
                              !.year = year]
    <3>1. k \in Jobs /\ JobOK(k)
      BY <2>0, <2>9 DEF CancelReadBalance, Serving, Jobs, JobOK, RowCalls
    <3>2. job' = [job EXCEPT ![t] = k]
      BY <2>9 DEF CancelReadBalance
    <3> QED
      BY <2>9, <3>1, <3>2, JobUpdate DEF CancelReadBalance
  <2>10. CASE Cancel(t)
    <3>1. /\ j.req \in Requests /\ j.row \in Rows /\ j.row.span \in Spans
          /\ [j.row EXCEPT !.status = "cancelled"] \in Rows
      BY <2>0, <2>10 DEF Cancel, Serving, JobOK, RowCalls, Rows, Statuses
    <3>2. CalendarDays(j.row.span) \in Nat
      BY <3>1, CalendarDaysNatural
    <3>3. balance' \in [Years -> Balances \cup {NoBalance}]
      <4>1. CASE UNCHANGED balance
        BY <4>1
      <4>2. CASE /\ Serving(t, "cancel", "ready") /\ j.bal # NoBalance
                 /\ SaveBalance(j.year,
                                GiveBack(j.bal, CalendarDays(j.row.span)))
        <5>1. j.bal \in Balances /\ j.year \in Years
          BY <2>0, <4>2 DEF Serving, JobOK, Jobs
        <5>2. GiveBack(j.bal, CalendarDays(j.row.span)) \in Balances
          BY <3>2, <5>1, GiveBackShrinks
        <5> QED
          BY <4>2, <5>1, <5>2 DEF SaveBalance
      <4> QED
        BY <2>10, <4>1, <4>2 DEF Cancel
    <3> QED
      BY <2>10, <3>1, <3>3, IdleOK, JobUpdate DEF Cancel, SaveRow, Finish
  <2>11. CASE Patch(t)
    <3>1. PICK s \in Spans, own \in BOOLEAN,
               status \in PatchStatuses \cup {j.row.status} :
            SaveRow(t, [j.row EXCEPT
                          !.span = s, !.own = own, !.status = status,
                          !.patched = @ \/ status # j.row.status])
      BY <2>11 DEF Patch
    <3> DEFINE new == [j.row EXCEPT
                         !.span = s, !.own = own, !.status = status,
                         !.patched = @ \/ status # j.row.status]
    <3>2. j.req \in Requests /\ j.row \in Rows
      BY <2>0, <2>11 DEF Patch, Serving, JobOK, RowCalls
    <3>3. status \in Statuses
      BY <3>1, <3>2, LeaveConstants DEF Rows
    <3>4. (j.row.patched \/ status # j.row.status) \in BOOLEAN
      OBVIOUS
    <3>5. new \in Rows
      BY <3>2, <3>3, <3>4 DEF Rows
    <3> HIDE DEF new
    <3> QED
      BY <2>11, <3>1, <3>2, <3>5, IdleOK, JobUpdate DEF Patch, SaveRow, Finish, new
  <2>12. CASE Delete(t)
    BY <2>0, <2>12, IdleOK, JobUpdate DEF Delete, Finish
  <2>13. CASE AssistantCancel(t)
    BY <2>0, <2>13, IdleOK, JobUpdate
       DEF AssistantCancel, Exists, Finish, Rows, Statuses
  <2>14. ASSUME NEW c \in {"adjust", "ai_adjust"}, NEW y \in Years,
                ReadBalance(t, c, y)
         PROVE  TypeInv'
    <3> DEFINE k == [Idle EXCEPT !.call = c, !.at = "ready",
                                 !.bal = balance[y], !.year = y]
    <3>1. k \in Jobs /\ JobOK(k)
      BY <2>14 DEF ReadBalance, Idle, Jobs, JobOK, RowCalls, AllEndpoints
    <3> QED
      BY <2>14, <3>1, JobUpdate DEF ReadBalance
  <2>15. CASE Adjust(t)
    <3>1. PICK a \in Allocations :
            SaveBalance(j.year, [j.bal EXCEPT !.allocated = a])
      BY <2>15 DEF Adjust
    <3>2. j.year \in Years /\ j.bal \in Balances
      BY <2>0, <2>15 DEF Adjust, Serving, JobOK
    <3>3. [j.bal EXCEPT !.allocated = a] \in Balances
      BY <3>2, LeaveConstants DEF Balances
    <3> QED
      BY <2>15, <3>1, <3>2, <3>3, IdleOK, JobUpdate DEF Adjust, SaveBalance, Finish
  <2>16. CASE AssistantAdjust(t)
    <3>1. j.year \in Years
      BY <2>0, <2>16 DEF AssistantAdjust, Serving, JobOK
    <3>2. balance' \in [Years -> Balances \cup {NoBalance}]
      BY <2>16, <3>1 DEF AssistantAdjust, SaveBalance, Balances
    <3> QED
      BY <2>16, <3>2, IdleOK, JobUpdate DEF AssistantAdjust, Finish
  <2>17. ASSUME NEW y \in Years, CarryoverReadSource(t, y) PROVE TypeInv'
    <3> DEFINE n == Carried(balance[y])
               k == [Idle EXCEPT !.call = "carryover", !.at = "loaded",
                                 !.bal = NewBalance(Entitlement, n),
                                 !.year = y + 1]
    <3>1. n \in Nat
      BY <2>17, LeaveConstants
         DEF CarryoverReadSource, Carried, Remaining, Entitled, Balances
    <3>2. k \in Jobs /\ JobOK(k)
      <4> HIDE DEF n
      <4>1. NewBalance(Entitlement, n) \in Balances
        BY <3>1, LeaveConstants DEF NewBalance, Balances
      <4> QED
        BY <2>17, <4>1
           DEF CarryoverReadSource, Idle, Jobs, JobOK, RowCalls, AllEndpoints
    <3> QED
      BY <2>17, <3>2, JobUpdate DEF CarryoverReadSource
  <2>18. CASE CarryoverTarget(t)
    <3>1. j.year \in Years /\ j.bal \in Balances
      BY <2>0, <2>18 DEF CarryoverTarget, Serving, JobOK
    <3>2. CASE balance[j.year] = NoBalance
      BY <2>18, <3>1, <3>2, IdleOK, JobUpdate
         DEF CarryoverTarget, SaveBalance, Finish
    <3>3. CASE balance[j.year] # NoBalance
      <4> DEFINE b == [balance[j.year] EXCEPT !.carryover = j.bal.carryover]
                 k == [j EXCEPT !.at = "ready", !.bal = b]
      <4>1. b \in Balances
        BY <3>1, <3>3 DEF Balances
      <4>2. k \in Jobs /\ JobOK(k)
        BY <2>0, <2>18, <3>1, <4>1 DEF CarryoverTarget, Serving, Jobs, JobOK, RowCalls
      <4>3. job' = [job EXCEPT ![t] = k]
        BY <2>18, <3>3 DEF CarryoverTarget
      <4> QED
        BY <2>18, <3>3, <4>2, <4>3, JobUpdate DEF CarryoverTarget
    <3> QED
      BY <3>2, <3>3
  <2>19. CASE CarryoverSave(t)
    <3>1. j.year \in Years /\ j.bal \in Balances
      BY <2>0, <2>19 DEF CarryoverSave, Serving, JobOK
    <3> QED
      BY <2>19, <3>1, IdleOK, JobUpdate DEF CarryoverSave, SaveBalance, Finish
  <2>20. CASE Abort(t)
    BY <2>20, IdleOK, JobUpdate DEF Abort, Finish
  <2> QED
    BY <1>4, <2>1, <2>2, <2>3, <2>4, <2>5, <2>6, <2>7, <2>8, <2>9, <2>10, <2>11,
       <2>12, <2>13, <2>14, <2>15, <2>16, <2>17, <2>18, <2>19, <2>20, <2>21
       DEF ThreadStep
<1> QED
  BY <1>1, <1>2, <1>3, <1>4 DEF Next

\* The tables and the held copies keep their shape, and no unsigned column
\* ever becomes negative, in every interleaving of the leave endpoints.
THEOREM LeaveTypeCorrect == Spec => []TypeOK
<1>1. TypeInv => TypeOK
  BY DEF TypeInv
<1> QED
  BY TypeInit, TypeStep, <1>1, PTL DEF Spec

LEMMA TypeInvariant == Spec => []TypeInv
BY TypeInit, TypeStep, PTL DEF Spec

-----------------------------------------------------------------------------
(* The approval trail.                                                     *)

\* A row whose status no PATCH has written shows its decisions; without
\* PATCHes every row is such a row, and of the leave type of the balances.
Coherent(row) ==
  /\ Trail(row) \/ row.patched
  /\ "patch" \notin Endpoints => row.own /\ ~row.patched

\* The copies that threads hold, and will write whole, are coherent too.
TrailInv ==
  /\ \A r \in Requests : Exists(r) => Coherent(request[r])
  /\ \A t \in Threads : job[t].row \in Rows => Coherent(job[t].row)
  /\ \A t \in Threads : job[t].call = "create" => job[t].row.status = "pending"

LEMMA TrailInit == Init => TrailInv
BY LeaveNulls DEF Init, TrailInv, Exists, Idle

LEMMA TrailStep == TypeInv /\ TrailInv /\ [Next]_vars => TrailInv'
<1> SUFFICES ASSUME TypeInv, TrailInv, [Next]_vars PROVE TrailInv'
  OBVIOUS
<1> USE DEF TrailInv, Exists
<1>1. CASE UNCHANGED vars
  BY <1>1 DEF vars
<1>2. CASE InitializeBalance
  BY <1>2 DEF InitializeBalance
<1>3. CASE NextYear
  BY <1>3 DEF NextYear
<1>4. ASSUME NEW t \in Threads, ThreadStep(t) PROVE TrailInv'
  <2> DEFINE j == job[t]
  <2>0. /\ request \in [Requests -> Rows \cup {NoRow, Deleted}]
        /\ job \in [Threads -> Jobs] /\ year \in Years
        /\ j \in Jobs /\ JobOK(j)
    BY DEF TypeInv, TypeOK
  <2>1. Idle.row \notin Rows /\ Idle.call # "create"
    BY LeaveNulls DEF Idle
  \* Steps that read: the new copy is a row of the table, or a new row.
  <2>2. ASSUME UNCHANGED request, NEW k,
               job' = [job EXCEPT ![t] = k],
               k.row \in Rows => Coherent(k.row),
               k.call = "create" => k.row.status = "pending"
        PROVE  TrailInv'
    BY <2>0, <2>2
  \* Steps that save the whole copy.
  <2>3. ASSUME NEW new, SaveRow(t, new), Coherent(new), j.req \in Requests
        PROVE  TrailInv'
    BY <2>0, <2>1, <2>3 DEF SaveRow, Finish
  <2>4. CASE CreateCheckOverlap(t)
    <3>1. PICK s \in Spans : job' = [job EXCEPT ![t] =
            [Idle EXCEPT !.call = "create", !.at = "loaded", !.row = NewRow(s)]]
      BY <2>4 DEF CreateCheckOverlap
    <3> QED
      BY <2>2, <2>4, <3>1 DEF CreateCheckOverlap, Idle, NewRow, Trail, Coherent
  <2>5. CASE CreateCheckBalance(t)
    BY <2>0, <2>2, <2>5 DEF CreateCheckBalance, Jobs
  <2>6. CASE CreateInsert(t)
    <3>1. j.row \in Rows /\ Coherent(j.row)
      BY <2>0, <2>6 DEF CreateInsert, Serving, JobOK
    <3> QED
      BY <2>0, <2>1, <2>6, <3>1 DEF CreateInsert, Finish
  <2>7. ASSUME NEW c \in RowCalls, NEW r \in Requests, LoadRow(t, c, r)
        PROVE  TrailInv'
    BY <2>0, <2>2, <2>7 DEF LoadRow, Idle, RowCalls
  <2>8. CASE LeadApprove(t)
    <3>1. j.row \in Rows /\ Coherent(j.row) /\ j.row.status = "pending"
      BY <2>0, <2>8 DEF LeadApprove, Serving, JobOK, RowCalls, Accepts
    <3> QED
      BY <2>0, <2>3, <2>8, <3>1
         DEF LeadApprove, Serving, JobOK, RowCalls, Trail, Coherent, Rows
  <2>9. CASE HrReadBalance(t)
    BY <2>0, <2>2, <2>9 DEF HrReadBalance, Serving, Jobs
  <2>10. CASE HrApprove(t)
    <3>1. /\ j.row \in Rows /\ Coherent(j.row) /\ j.req \in Requests
          /\ j.row.status = "lead_approved"
      BY <2>0, <2>10 DEF HrApprove, Serving, JobOK, RowCalls, Accepts
    <3>2. year # NoYear
      BY <2>0, LeaveConstants DEF Years, NoYear
    <3> QED
      BY <2>3, <2>10, <3>1, <3>2 DEF HrApprove, Trail, Coherent, Rows
  <2>24. CASE HrApproveOther(t)
    <3>1. /\ j.row \in Rows /\ Coherent(j.row) /\ j.req \in Requests
          /\ j.row.status = "lead_approved"
      BY <2>0, <2>24 DEF HrApproveOther, Serving, JobOK, RowCalls, Accepts
    <3>2. year # NoYear
      BY <2>0, LeaveConstants DEF Years, NoYear
    <3> QED
      BY <2>3, <2>24, <3>1, <3>2 DEF HrApproveOther, Trail, Coherent, Rows
  <2>11. CASE Reject(t)
    <3>1. j.row \in Rows /\ Coherent(j.row) /\ j.req \in Requests
      BY <2>0, <2>11 DEF Reject, Serving, JobOK, RowCalls
    <3>2. year # NoYear
      BY <2>0, LeaveConstants DEF Years, NoYear
    <3> QED
      BY <2>3, <2>11, <3>1, <3>2 DEF Reject, Trail, Coherent, Rows
  <2>12. CASE CancelReadBalance(t)
    BY <2>0, <2>2, <2>12 DEF CancelReadBalance, Serving, Jobs
  <2>13. CASE Cancel(t)
    <3>1. j.row \in Rows /\ Coherent(j.row) /\ j.req \in Requests
      BY <2>0, <2>13 DEF Cancel, Serving, JobOK, RowCalls
    <3> QED
      BY <2>3, <2>13, <3>1 DEF Cancel, Trail, Coherent, Rows
  <2>14. CASE Patch(t)
    <3>1. j.row \in Rows /\ Coherent(j.row) /\ j.req \in Requests
      BY <2>0, <2>14 DEF Patch, Serving, JobOK, RowCalls
    <3>2. PICK s \in Spans, own \in BOOLEAN,
               status \in PatchStatuses \cup {j.row.status} :
            SaveRow(t, [j.row EXCEPT
                          !.span = s, !.own = own, !.status = status,
                          !.patched = @ \/ status # j.row.status])
      BY <2>14 DEF Patch
    <3> DEFINE new == [j.row EXCEPT
                         !.span = s, !.own = own, !.status = status,
                         !.patched = @ \/ status # j.row.status]
    <3>3. "patch" \in Endpoints
      BY <2>0, <2>14 DEF Patch, Serving, JobOK
    <3>4. /\ new.status = status /\ new.lead = j.row.lead
          /\ new.decided = j.row.decided
          /\ new.patched = (j.row.patched \/ status # j.row.status)
      BY <3>1 DEF Rows
    <3> HIDE DEF new
    <3>5. Coherent(new)
      BY <3>1, <3>3, <3>4 DEF Coherent, Trail
    <3> QED
      BY <2>3, <3>1, <3>2, <3>5 DEF new
  <2>15. CASE Delete(t)
    <3>1. j.req \in Requests /\ Deleted \notin Rows
      BY <2>0, <2>15, LeaveNulls DEF Delete, Serving, JobOK, RowCalls
    <3> QED
      BY <2>0, <2>1, <2>15, <3>1 DEF Delete, Finish
  <2>16. CASE AssistantCancel(t)
    <3>1. j.req \in Requests /\ request[j.req] \in Rows
      BY <2>0, <2>16 DEF AssistantCancel, Serving, JobOK, RowCalls
    <3>2. Coherent([request[j.req] EXCEPT !.status = "cancelled"])
      BY <3>1 DEF Trail, Coherent, Rows
    <3> QED
      BY <2>0, <2>1, <2>16, <3>1, <3>2 DEF AssistantCancel, Finish
  <2>17. ASSUME NEW c \in {"adjust", "ai_adjust"}, NEW y \in Years,
                ReadBalance(t, c, y)
         PROVE  TrailInv'
    BY <2>0, <2>2, <2>17, LeaveNulls DEF ReadBalance, Idle
  <2>18. CASE Adjust(t)
    BY <2>0, <2>1, <2>2, <2>18 DEF Adjust, Finish
  <2>19. CASE AssistantAdjust(t)
    BY <2>0, <2>1, <2>2, <2>19 DEF AssistantAdjust, Finish
  <2>20. ASSUME NEW y \in Years, CarryoverReadSource(t, y) PROVE TrailInv'
    BY <2>0, <2>2, <2>20, LeaveNulls DEF CarryoverReadSource, Idle
  <2>21. CASE CarryoverTarget(t)
    <3>1. CASE job' = [job EXCEPT ![t] = Idle]
      BY <2>0, <2>1, <2>2, <2>21, <3>1 DEF CarryoverTarget
    <3>2. CASE job' # [job EXCEPT ![t] = Idle]
      <4> DEFINE k == [j EXCEPT !.at = "ready",
                         !.bal = [balance[j.year] EXCEPT
                                    !.carryover = j.bal.carryover]]
      <4>1. job' = [job EXCEPT ![t] = k]
        BY <2>21, <3>2 DEF CarryoverTarget, Finish
      <4>2. k.row = j.row /\ k.call = j.call
        BY <2>0 DEF Jobs
      <4> QED
        BY <2>2, <2>21, <4>1, <4>2 DEF CarryoverTarget
    <3> QED
      BY <3>1, <3>2
  <2>22. CASE CarryoverSave(t)
    BY <2>0, <2>1, <2>2, <2>22 DEF CarryoverSave, Finish
  <2>23. CASE Abort(t)
    BY <2>0, <2>1, <2>2, <2>23 DEF Abort, Finish
  <2> QED
    BY <1>4, <2>4, <2>5, <2>6, <2>7, <2>8, <2>9, <2>10, <2>11, <2>12, <2>13,
       <2>14, <2>15, <2>16, <2>17, <2>18, <2>19, <2>20, <2>21, <2>22, <2>23, <2>24
       DEF ThreadStep
<1> QED
  BY <1>1, <1>2, <1>3, <1>4 DEF Next

\* Whatever the endpoints write over each other, PATCHes of dates, types and
\* statuses included, a request whose status and decision columns disagree is
\* one whose status a PATCH has written.
THEOREM ApprovalTrailHolds == Spec => []ApprovalTrail
<1>1. TrailInv => ApprovalTrail
  BY DEF TrailInv, ApprovalTrail, Coherent
<1> QED
  BY TypeInvariant, TrailInit, TrailStep, <1>1, PTL DEF Spec

-----------------------------------------------------------------------------
(* No overdraft.                                                           *)

NoAdjusting == Endpoints \cap {"adjust", "ai_adjust", "carryover"} = {}

Covered(b) == b.used <= Entitled(b)

\* The copies that approving and cancelling threads hold are covered as well;
\* that the days an approving thread adds fit is recorded in JobOK.
OverdraftInv ==
  /\ NoOverdraft
  /\ \A t \in Threads :
       /\ job[t].call \in {"hr_approve", "cancel"} /\ job[t].bal # NoBalance
       => Covered(job[t].bal)

LEMMA OverdraftInit == Init => OverdraftInv
BY LeaveConstants
   DEF Init, OverdraftInv, NoOverdraft, NewBalance, Entitled, Idle

LEMMA OverdraftStep ==
  ASSUME NoAdjusting
  PROVE  TypeInv /\ OverdraftInv /\ [Next]_vars => OverdraftInv'
<1> SUFFICES ASSUME TypeInv, OverdraftInv, [Next]_vars PROVE OverdraftInv'
  OBVIOUS
<1> USE DEF OverdraftInv, NoOverdraft, Covered
<1>1. CASE UNCHANGED vars
  BY <1>1 DEF vars
<1>2. CASE InitializeBalance
  BY <1>2, LeaveConstants
     DEF InitializeBalance, SaveBalance, NewBalance, Entitled, TypeInv, TypeOK
<1>3. CASE NextYear
  BY <1>3 DEF NextYear
<1>4. ASSUME NEW t \in Threads, ThreadStep(t) PROVE OverdraftInv'
  <2> DEFINE j == job[t]
  <2>0. /\ balance \in [Years -> Balances \cup {NoBalance}]
        /\ job \in [Threads -> Jobs] /\ year \in Years
        /\ j \in Jobs /\ JobOK(j)
    BY DEF TypeInv, TypeOK
  <2>1. Idle.call \notin {"hr_approve", "cancel"}
    BY DEF Idle
  \* Steps that leave the balances alone.
  <2>2. ASSUME UNCHANGED balance, NEW k, job' = [job EXCEPT ![t] = k],
               k.call \in {"hr_approve", "cancel"} /\ k.bal # NoBalance
               => Covered(k.bal)
        PROVE  OverdraftInv'
    BY <2>0, <2>2
  \* Steps that save a covered balance and finish.
  <2>3. ASSUME NEW y \in Years, NEW b, SaveBalance(y, b), Covered(b), Finish(t)
        PROVE  OverdraftInv'
    BY <2>0, <2>1, <2>3 DEF SaveBalance, Finish
  <2>4. ASSUME Serving(t, "adjust", "ready") \/ Serving(t, "ai_adjust", "ready")
               \/ Serving(t, "carryover", "loaded")
               \/ Serving(t, "carryover", "ready")
        PROVE  FALSE
    BY <2>0, <2>4 DEF NoAdjusting, Serving, JobOK
  <2>5. CASE CreateCheckOverlap(t)
    <3>1. PICK s \in Spans : job' = [job EXCEPT ![t] =
            [Idle EXCEPT !.call = "create", !.at = "loaded", !.row = NewRow(s)]]
      BY <2>5 DEF CreateCheckOverlap
    <3> QED
      BY <2>2, <2>5, <3>1 DEF CreateCheckOverlap, Idle
  <2>6. CASE CreateCheckBalance(t)
    BY <2>0, <2>2, <2>6 DEF CreateCheckBalance, Serving, Jobs
  <2>7. CASE CreateInsert(t) \/ LeadApprove(t) \/ HrApproveOther(t)
             \/ Reject(t) \/ Delete(t) \/ AssistantCancel(t) \/ Abort(t)
    BY <2>1, <2>2, <2>7
       DEF CreateInsert, LeadApprove, HrApproveOther, Reject, Delete,
           AssistantCancel, Abort, SaveRow, Finish
  <2>8. CASE Patch(t)
    BY <2>1, <2>2, <2>8 DEF Patch, SaveRow, Finish
  <2>9. ASSUME NEW c \in RowCalls, NEW r \in Requests, LoadRow(t, c, r)
        PROVE  OverdraftInv'
    BY <2>2, <2>9 DEF LoadRow, Idle
  <2>10. CASE HrReadBalance(t)
    <3> DEFINE k == [j EXCEPT !.at = "ready", !.bal = balance[year],
                              !.year = year]
    <3>1. job' = [job EXCEPT ![t] = k] /\ k.bal = balance[year]
      BY <2>0, <2>10 DEF HrReadBalance, Jobs
    <3> QED
      BY <2>0, <2>2, <2>10, <3>1 DEF HrReadBalance
  <2>11. CASE HrApprove(t)
    <3> DEFINE b == [j.bal EXCEPT !.used = @ + CalendarDays(j.row.span)]
    <3>1. /\ j.year \in Years /\ j.bal \in Balances /\ Covered(j.bal)
          /\ Remaining(j.bal) >= CalendarDays(j.row.span)
          /\ CalendarDays(j.row.span) \in Nat
      BY <2>0, <2>11, LeaveNulls, CalendarDaysNatural
         DEF HrApprove, Serving, JobOK, RowCalls, Rows
    <3>2. Covered(b)
      BY <3>1, RemainingFits DEF Entitled, Balances
    <3> QED
      BY <2>3, <2>11, <3>1, <3>2 DEF HrApprove, SaveRow
  <2>12. CASE CancelReadBalance(t)
    <3> DEFINE k == [j EXCEPT !.at = "ready", !.bal = balance[year],
                              !.year = year]
    <3>1. job' = [job EXCEPT ![t] = k] /\ k.bal = balance[year]
      BY <2>0, <2>12 DEF CancelReadBalance, Jobs
    <3> QED
      BY <2>0, <2>2, <2>12, <3>1 DEF CancelReadBalance
  <2>13. CASE Cancel(t)
    <3>1. CASE UNCHANGED balance
      BY <2>1, <2>2, <2>13, <3>1 DEF Cancel, SaveRow, Finish
    <3>2. CASE /\ Serving(t, "cancel", "ready") /\ j.bal # NoBalance
               /\ SaveBalance(j.year, GiveBack(j.bal, CalendarDays(j.row.span)))
      <4> DEFINE b == GiveBack(j.bal, CalendarDays(j.row.span))
      <4>1. j.year \in Years /\ j.bal \in Balances /\ Covered(j.bal)
        BY <2>0, <3>2 DEF Serving, JobOK, Jobs
      <4>2. CalendarDays(j.row.span) \in Nat
        BY <2>0, <3>2, CalendarDaysNatural DEF Serving, JobOK, RowCalls, Rows
      <4>3. Covered(b)
        BY <4>1, <4>2, GiveBackShrinks DEF Balances, Entitled
      <4> QED
        BY <2>3, <2>13, <3>2, <4>1, <4>3 DEF Cancel, SaveRow
    <3> QED
      BY <2>13, <3>1, <3>2 DEF Cancel
  <2>14. ASSUME NEW c \in {"adjust", "ai_adjust"}, NEW y \in Years,
                ReadBalance(t, c, y)
         PROVE  OverdraftInv'
    BY <2>14 DEF ReadBalance, NoAdjusting
  <2>15. CASE Adjust(t) \/ AssistantAdjust(t) \/ CarryoverTarget(t)
              \/ CarryoverSave(t)
    BY <2>4, <2>15 DEF Adjust, AssistantAdjust, CarryoverTarget, CarryoverSave
  <2>16. ASSUME NEW y \in Years, CarryoverReadSource(t, y) PROVE OverdraftInv'
    BY <2>16 DEF CarryoverReadSource, NoAdjusting
  <2> QED
    BY <1>4, <2>5, <2>6, <2>7, <2>8, <2>9, <2>10, <2>11, <2>12, <2>13, <2>14,
       <2>15, <2>16 DEF ThreadStep
<1> QED
  BY <1>1, <1>2, <1>3, <1>4 DEF Next

\* However approvals and cancellations interleave, and whatever stale copies
\* they write, no recorded balance ever exceeds its entitlement.
THEOREM NoOverdraftHolds ==
  ASSUME NoAdjusting
  PROVE  Spec => []NoOverdraft
<1>1. OverdraftInv => NoOverdraft
  BY DEF OverdraftInv
<1>2. TypeInv /\ OverdraftInv /\ [Next]_vars => OverdraftInv'
  BY OverdraftStep
<1> QED
  BY TypeInvariant, OverdraftInit, <1>1, <1>2, PTL DEF Spec

-----------------------------------------------------------------------------
(* The limit of the carryover.                                             *)

WithinPolicy(b) == b # NoBalance => b.carryover <= CarryoverDays

\* Threads write whole balances, so every copy they hold keeps to the limit.
CarryoverInv ==
  /\ CarryoverWithinPolicy
  /\ \A t \in Threads : WithinPolicy(job[t].bal)

LEMMA CarryoverInit == Init => CarryoverInv
BY LeaveConstants
   DEF Init, CarryoverInv, CarryoverWithinPolicy, WithinPolicy, NewBalance, Idle

LEMMA CarryoverStep == TypeInv /\ CarryoverInv /\ [Next]_vars => CarryoverInv'
<1> SUFFICES ASSUME TypeInv, CarryoverInv, [Next]_vars PROVE CarryoverInv'
  OBVIOUS
<1> USE DEF CarryoverInv, CarryoverWithinPolicy, WithinPolicy
<1>1. CASE UNCHANGED vars
  BY <1>1 DEF vars
<1>2. CASE InitializeBalance
  BY <1>2, LeaveConstants
     DEF InitializeBalance, SaveBalance, NewBalance, TypeInv, TypeOK
<1>3. CASE NextYear
  BY <1>3 DEF NextYear
<1>4. ASSUME NEW t \in Threads, ThreadStep(t) PROVE CarryoverInv'
  <2> DEFINE j == job[t]
  <2>0. /\ balance \in [Years -> Balances \cup {NoBalance}]
        /\ job \in [Threads -> Jobs] /\ year \in Years
        /\ j \in Jobs /\ JobOK(j) /\ WithinPolicy(j.bal)
    BY DEF TypeInv, TypeOK
  <2>1. Idle.bal = NoBalance
    BY DEF Idle
  \* Steps that leave the balances alone.
  <2>2. ASSUME UNCHANGED balance, NEW k, job' = [job EXCEPT ![t] = k],
               WithinPolicy(k.bal)
        PROVE  CarryoverInv'
    BY <2>0, <2>2
  \* Steps that save a balance within the policy and finish.
  <2>3. ASSUME NEW y \in Years, NEW b, SaveBalance(y, b), WithinPolicy(b),
               Finish(t)
        PROVE  CarryoverInv'
    BY <2>0, <2>1, <2>3 DEF SaveBalance, Finish
  <2>4. CASE CreateCheckOverlap(t)
    <3>1. PICK s \in Spans : job' = [job EXCEPT ![t] =
            [Idle EXCEPT !.call = "create", !.at = "loaded", !.row = NewRow(s)]]
      BY <2>4 DEF CreateCheckOverlap
    <3> QED
      BY <2>2, <2>4, <3>1 DEF CreateCheckOverlap, Idle
  <2>5. CASE CreateCheckBalance(t)
    BY <2>0, <2>2, <2>5 DEF CreateCheckBalance, Jobs
  <2>6. CASE CreateInsert(t) \/ LeadApprove(t) \/ HrApproveOther(t)
             \/ Reject(t) \/ Delete(t) \/ AssistantCancel(t) \/ Abort(t)
    BY <2>1, <2>2, <2>6
       DEF CreateInsert, LeadApprove, HrApproveOther, Reject, Delete,
           AssistantCancel, Abort, SaveRow, Finish
  <2>7. CASE Patch(t)
    BY <2>1, <2>2, <2>7 DEF Patch, SaveRow, Finish
  <2>8. ASSUME NEW c \in RowCalls, NEW r \in Requests, LoadRow(t, c, r)
        PROVE  CarryoverInv'
    BY <2>2, <2>8 DEF LoadRow, Idle
  <2>9. CASE HrReadBalance(t) \/ CancelReadBalance(t)
    <3> DEFINE k == [j EXCEPT !.at = "ready", !.bal = balance[year],
                              !.year = year]
    <3>1. job' = [job EXCEPT ![t] = k] /\ k.bal = balance[year]
      BY <2>0, <2>9 DEF HrReadBalance, CancelReadBalance, Jobs
    <3> QED
      BY <2>0, <2>2, <2>9, <3>1 DEF HrReadBalance, CancelReadBalance
  <2>10. CASE HrApprove(t)
    <3> DEFINE b == [j.bal EXCEPT !.used = @ + CalendarDays(j.row.span)]
    <3>1. j.year \in Years /\ j.bal \in Balances
      BY <2>0, <2>10 DEF HrApprove, Serving, JobOK
    <3>2. WithinPolicy(b)
      BY <2>0, <3>1, LeaveNulls DEF Balances
    <3> QED
      BY <2>3, <2>10, <3>1, <3>2 DEF HrApprove, SaveRow
  <2>11. CASE Cancel(t)
    <3>1. CASE UNCHANGED balance
      BY <2>1, <2>2, <2>11, <3>1 DEF Cancel, SaveRow, Finish
    <3>2. CASE /\ Serving(t, "cancel", "ready") /\ j.bal # NoBalance
               /\ SaveBalance(j.year, GiveBack(j.bal, CalendarDays(j.row.span)))
      <4> DEFINE b == GiveBack(j.bal, CalendarDays(j.row.span))
      <4>1. j.year \in Years /\ j.bal \in Balances
        BY <2>0, <3>2 DEF Serving, JobOK, Jobs
      <4>2. WithinPolicy(b)
        BY <2>0, <3>2, <4>1 DEF GiveBack, Balances
      <4> QED
        BY <2>3, <2>11, <3>2, <4>1, <4>2 DEF Cancel, SaveRow
    <3> QED
      BY <2>11, <3>1, <3>2 DEF Cancel
  <2>12. ASSUME NEW c \in {"adjust", "ai_adjust"}, NEW y \in Years,
                ReadBalance(t, c, y)
         PROVE  CarryoverInv'
    <3> DEFINE k == [Idle EXCEPT !.call = c, !.at = "ready",
                                 !.bal = balance[y], !.year = y]
    <3>1. job' = [job EXCEPT ![t] = k] /\ k.bal = balance[y]
      BY <2>12 DEF ReadBalance, Idle
    <3> QED
      BY <2>0, <2>2, <2>12, <3>1 DEF ReadBalance
  <2>13. CASE Adjust(t)
    <3>1. PICK a \in Allocations :
            SaveBalance(j.year, [j.bal EXCEPT !.allocated = a])
      BY <2>13 DEF Adjust
    <3>2. j.year \in Years /\ j.bal \in Balances
      BY <2>0, <2>13 DEF Adjust, Serving, JobOK
    <3>3. WithinPolicy([j.bal EXCEPT !.allocated = a])
      BY <2>0, <3>2, LeaveNulls DEF Balances
    <3> QED
      BY <2>3, <2>13, <3>1, <3>2, <3>3 DEF Adjust
  <2>14. CASE AssistantAdjust(t)
    <3> DEFINE kept == IF balance[j.year] = NoBalance THEN 0
                       ELSE balance[j.year].carryover
    <3>1. j.year \in Years
      BY <2>0, <2>14 DEF AssistantAdjust, Serving, JobOK
    <3>2. PICK b : SaveBalance(j.year, b) /\ b.carryover = kept
      BY <2>14 DEF AssistantAdjust
    <3>3. WithinPolicy(b)
      BY <2>0, <3>1, <3>2, LeaveConstants
    <3> QED
      BY <2>3, <2>14, <3>1, <3>2, <3>3 DEF AssistantAdjust
  \* apply_carryover takes the smaller of what remains and the limit.
  <2>15. ASSUME NEW y \in Years, CarryoverReadSource(t, y) PROVE CarryoverInv'
    <3> DEFINE n == Carried(balance[y])
               k == [Idle EXCEPT !.call = "carryover", !.at = "loaded",
                                 !.bal = NewBalance(Entitlement, n),
                                 !.year = y + 1]
    <3>1. n <= CarryoverDays
      BY <2>0, <2>15, LeaveConstants
         DEF CarryoverReadSource, Carried, Remaining, Entitled, Balances
    <3>2. job' = [job EXCEPT ![t] = k] /\ UNCHANGED balance
      BY <2>15 DEF CarryoverReadSource
    <3>3. k.bal.carryover = n
      BY DEF Idle, NewBalance
    <3> HIDE DEF n
    <3> QED
      BY <2>2, <3>1, <3>2, <3>3
  <2>16. CASE CarryoverTarget(t)
    <3>1. j.year \in Years /\ j.bal \in Balances
      BY <2>0, <2>16 DEF CarryoverTarget, Serving, JobOK
    <3>2. CASE balance[j.year] = NoBalance
      BY <2>0, <2>3, <2>16, <3>1, <3>2 DEF CarryoverTarget
    <3>3. CASE balance[j.year] # NoBalance
      <4> DEFINE b == [balance[j.year] EXCEPT !.carryover = j.bal.carryover]
                 k == [j EXCEPT !.at = "ready", !.bal = b]
      <4>1. job' = [job EXCEPT ![t] = k] /\ UNCHANGED balance
        BY <2>16, <3>3 DEF CarryoverTarget
      <4>2. k.bal = b
        BY <2>0 DEF Jobs
      <4>3. b.carryover <= CarryoverDays
        BY <2>0, <3>1, <3>3, LeaveNulls DEF Balances
      <4> QED
        BY <2>2, <4>1, <4>2, <4>3
    <3> QED
      BY <3>2, <3>3
  <2>17. CASE CarryoverSave(t)
    <3>1. j.year \in Years
      BY <2>0, <2>17 DEF CarryoverSave, Serving, JobOK
    <3> QED
      BY <2>0, <2>3, <2>17, <3>1 DEF CarryoverSave
  <2> QED
    BY <1>4, <2>4, <2>5, <2>6, <2>7, <2>8, <2>9, <2>10, <2>11, <2>12, <2>13,
       <2>14, <2>15, <2>16, <2>17 DEF ThreadStep
<1> QED
  BY <1>1, <1>2, <1>3, <1>4 DEF Next

\* In every interleaving of all the leave endpoints, with stale copies saved
\* over each other, no year carries more days over than the policy lets it.
THEOREM CarryoverWithinPolicyHolds == Spec => []CarryoverWithinPolicy
<1>1. CarryoverInv => CarryoverWithinPolicy
  BY DEF CarryoverInv
<1> QED
  BY TypeInvariant, CarryoverInit, CarryoverStep, <1>1, PTL DEF Spec

-----------------------------------------------------------------------------
(* One thread serves the leave calls: what the service functions promise   *)
(* when no call is interleaved with another, for every set of requests and *)
(* date ranges.  A call may still stop at any step.                        *)

OneThread == \A t, u \in Threads : t = u

-----------------------------------------------------------------------------
(* Live requests do not overlap.                                           *)

\* The row that a call holds is the row of the table, and the request that
\* is about to be inserted shares no day with a live one.
CopyIsCurrent(j) == j.call \in RowCalls => request[j.req] = j.row

Apart(j) ==
  j.call = "create" =>
    \A r \in Requests : Live(r) => ~Overlap(request[r].span, j.row.span)

SerialInv ==
  /\ NoLiveOverlap
  /\ \A t \in Threads : CopyIsCurrent(job[t]) /\ Apart(job[t])

LEMMA SerialInit == Init => SerialInv
BY LeaveNulls
   DEF Init, SerialInv, NoLiveOverlap, Live, Exists, CopyIsCurrent, Apart,
       Idle, RowCalls

LEMMA SerialStep ==
  ASSUME OneThread, "patch" \notin Endpoints
  PROVE  TypeInv /\ SerialInv /\ [Next]_vars => SerialInv'
<1> SUFFICES ASSUME TypeInv, SerialInv, [Next]_vars PROVE SerialInv'
  OBVIOUS
<1> USE DEF SerialInv, CopyIsCurrent, Apart
<1>1. CASE UNCHANGED vars
  BY <1>1 DEF vars, NoLiveOverlap, Live, Exists
<1>2. CASE InitializeBalance \/ NextYear
  BY <1>2 DEF InitializeBalance, NextYear, NoLiveOverlap, Live, Exists
<1>3. ASSUME NEW t \in Threads, ThreadStep(t) PROVE SerialInv'
  <2> DEFINE j == job[t]
  <2>0. /\ request \in [Requests -> Rows \cup {NoRow, Deleted}]
        /\ job \in [Threads -> Jobs] /\ j \in Jobs /\ JobOK(j)
        /\ CopyIsCurrent(j) /\ Apart(j) /\ NoLiveOverlap
    BY DEF TypeInv, TypeOK
  <2>1. \A u \in Threads : u = t
    BY DEF OneThread
  <2>2. Idle.call = "none" /\ "none" \notin RowCalls \cup {"create"}
    BY DEF Idle, RowCalls
  \* Steps that leave the requests alone.
  <2>3. ASSUME UNCHANGED request, NEW k, job' = [job EXCEPT ![t] = k],
               CopyIsCurrent(k), Apart(k)
        PROVE  SerialInv'
    BY <2>0, <2>1, <2>3 DEF NoLiveOverlap, Live, Exists
  <2>4. ASSUME UNCHANGED request, Finish(t) PROVE SerialInv'
    BY <2>2, <2>3, <2>4 DEF Finish
  <2>5. ASSUME UNCHANGED request, NEW k \in Jobs,
               k.call = j.call, k.req = j.req, k.row = j.row,
               job' = [job EXCEPT ![t] = k]
        PROVE  SerialInv'
    BY <2>0, <2>3, <2>5
  \* Steps that rewrite one row and make no dead request live.
  <2>6. ASSUME NEW r \in Requests, NEW new, request' = [request EXCEPT ![r] = new],
               new \in Rows /\ new.status \notin {"rejected", "cancelled"} =>
                 Live(r) /\ new.span = request[r].span,
               Finish(t)
        PROVE  SerialInv'
    <3>1. \A q \in Requests : Live(q)' => Live(q) /\ request'[q].span = request[q].span
      BY <2>0, <2>6 DEF Live, Exists
    <3>2. NoLiveOverlap'
      BY <2>0, <3>1 DEF NoLiveOverlap
    <3> QED
      BY <2>0, <2>1, <2>2, <2>6, <3>2 DEF Finish
  <2>7. ASSUME NEW new, SaveRow(t, new), j.call \in RowCalls,
               new.status \notin {"rejected", "cancelled"} =>
                 j.row.status \notin {"rejected", "cancelled"},
               new.span = j.row.span
        PROVE  SerialInv'
    BY <2>0, <2>6, <2>7 DEF SaveRow, JobOK, Live, Exists
  <2>8. CASE CreateCheckOverlap(t)
    <3>1. PICK s \in Spans :
            /\ \A r \in Requests : Live(r) => ~Overlap(request[r].span, s)
            /\ job' = [job EXCEPT ![t] =
                 [Idle EXCEPT !.call = "create", !.at = "loaded",
                              !.row = NewRow(s)]]
      BY <2>8 DEF CreateCheckOverlap
    <3> DEFINE k == [Idle EXCEPT !.call = "create", !.at = "loaded",
                                 !.row = NewRow(s)]
    <3>2. k.call = "create" /\ k.row.span = s
      BY DEF Idle, NewRow
    <3>3. CopyIsCurrent(k) /\ Apart(k)
      BY <2>2, <3>1, <3>2 DEF RowCalls
    <3> QED
      BY <2>3, <2>8, <3>1, <3>3 DEF CreateCheckOverlap
  <2>9. CASE CreateCheckBalance(t)
    <3> DEFINE k == [j EXCEPT !.at = "ready"]
    <3>1. k \in Jobs /\ k.call = j.call /\ k.req = j.req /\ k.row = j.row
      BY <2>0 DEF Jobs
    <3> QED
      BY <2>5, <2>9, <3>1 DEF CreateCheckBalance
  <2>10. CASE CreateInsert(t)
    <3>1. PICK r \in Requests : request[r] = NoRow
                                /\ request' = [request EXCEPT ![r] = j.row]
      BY <2>10 DEF CreateInsert
    <3>2. j.call = "create" /\ j.row \in Rows
      BY <2>0, <2>10 DEF CreateInsert, Serving, JobOK
    <3>3. \A q \in Requests : q # r /\ Live(q)' =>
            /\ Live(q) /\ request'[q] = request[q]
            /\ ~Overlap(request[q].span, j.row.span)
      BY <2>0, <3>1, <3>2 DEF Live, Exists
    <3>4. request'[r] = j.row
      BY <2>0, <3>1
    <3>5. \A s, u \in Spans : Overlap(s, u) <=> Overlap(u, s)
      BY LeaveConstants DEF Overlap
    <3>6. \A q \in Requests : Live(q)' => request'[q].span \in Spans
      BY DEF Live, Exists, Rows
    <3>7. NoLiveOverlap'
      <4> SUFFICES ASSUME NEW p \in Requests, NEW q \in Requests,
                          p # q, Live(p)', Live(q)'
                   PROVE  ~Overlap(request'[p].span, request'[q].span)
        BY DEF NoLiveOverlap
      <4>1. CASE p # r /\ q # r
        BY <2>0, <3>3, <4>1 DEF NoLiveOverlap
      <4>2. CASE q = r
        BY <3>3, <3>4, <4>2
      <4>3. CASE p = r
        BY <3>3, <3>4, <3>5, <3>6, <4>3
      <4> QED
        BY <4>1, <4>2, <4>3
    <3> QED
      BY <2>0, <2>1, <2>2, <2>10, <3>7 DEF CreateInsert, Finish
  <2>11. ASSUME NEW c \in RowCalls, NEW r \in Requests, LoadRow(t, c, r)
         PROVE  SerialInv'
    <3> DEFINE k == [Idle EXCEPT !.call = c, !.at = "loaded", !.req = r,
                                 !.row = request[r]]
    <3>1. k.call = c /\ k.req = r /\ k.row = request[r] /\ c # "create"
      BY DEF Idle, RowCalls
    <3> QED
      BY <2>3, <2>11, <3>1 DEF LoadRow
  <2>12. CASE LeadApprove(t)
    BY <2>0, <2>7, <2>12
       DEF LeadApprove, Serving, JobOK, RowCalls, Accepts, Rows
  <2>13. CASE HrReadBalance(t) \/ CancelReadBalance(t)
    <3> DEFINE k == [j EXCEPT !.at = "ready", !.bal = balance[year],
                              !.year = year]
    <3>1. /\ job' = [job EXCEPT ![t] = k] /\ UNCHANGED request
          /\ k \in Jobs /\ k.call = j.call /\ k.req = j.req /\ k.row = j.row
      BY <2>0, <2>13
         DEF HrReadBalance, CancelReadBalance, Jobs, TypeInv, TypeOK
    <3> QED
      BY <2>5, <3>1
  <2>14. CASE HrApprove(t)
    BY <2>0, <2>7, <2>14
       DEF HrApprove, Serving, JobOK, RowCalls, Accepts, Rows
  <2>24. CASE HrApproveOther(t)
    BY <2>0, <2>7, <2>24
       DEF HrApproveOther, Serving, JobOK, RowCalls, Accepts, Rows
  <2>15. CASE Reject(t)
    BY <2>0, <2>7, <2>15 DEF Reject, Serving, JobOK, RowCalls, Rows
  <2>16. CASE Cancel(t)
    BY <2>0, <2>7, <2>16 DEF Cancel, Serving, JobOK, RowCalls, Rows
  <2>17. CASE Patch(t)
    BY <2>0, <2>17 DEF Patch, Serving, JobOK
  <2>18. CASE Delete(t)
    BY <2>0, <2>6, <2>18, LeaveNulls DEF Delete, Serving, JobOK, RowCalls
  <2>19. CASE AssistantCancel(t)
    <3> DEFINE new == [request[j.req] EXCEPT !.status = "cancelled"]
    <3>1. j.req \in Requests /\ request[j.req] \in Rows
      BY <2>0, <2>19 DEF AssistantCancel, Serving, JobOK, RowCalls, Exists
    <3>2. new.status = "cancelled"
      BY <3>1 DEF Rows
    <3>3. request' = [request EXCEPT ![j.req] = new] /\ Finish(t)
      BY <2>19 DEF AssistantCancel
    <3> HIDE DEF new
    <3> QED
      BY <2>6, <3>1, <3>2, <3>3
  <2>20. ASSUME NEW c \in {"adjust", "ai_adjust"}, NEW y \in Years,
                ReadBalance(t, c, y)
         PROVE  SerialInv'
    <3> DEFINE k == [Idle EXCEPT !.call = c, !.at = "ready",
                                 !.bal = balance[y], !.year = y]
    <3>1. k.call = c /\ c \notin RowCalls \cup {"create"}
      BY DEF Idle, RowCalls
    <3> QED
      BY <2>3, <2>20, <3>1 DEF ReadBalance
  <2>21. CASE Adjust(t) \/ AssistantAdjust(t) \/ CarryoverSave(t) \/ Abort(t)
    BY <2>4, <2>21 DEF Adjust, AssistantAdjust, CarryoverSave, Abort
  <2>22. ASSUME NEW y \in Years, CarryoverReadSource(t, y) PROVE SerialInv'
    <3> DEFINE k == [Idle EXCEPT !.call = "carryover", !.at = "loaded",
                       !.bal = NewBalance(Entitlement, Carried(balance[y])),
                       !.year = y + 1]
    <3>1. k.call = "carryover" /\ "carryover" \notin RowCalls \cup {"create"}
      BY DEF Idle, RowCalls
    <3> QED
      BY <2>3, <2>22, <3>1 DEF CarryoverReadSource
  <2>23. CASE CarryoverTarget(t)
    <3>1. CASE balance[j.year] = NoBalance
      BY <2>4, <2>23, <3>1 DEF CarryoverTarget
    <3>2. CASE balance[j.year] # NoBalance
      <4> DEFINE b == [balance[j.year] EXCEPT !.carryover = j.bal.carryover]
                 k == [j EXCEPT !.at = "ready", !.bal = b]
      <4>1. job' = [job EXCEPT ![t] = k] /\ UNCHANGED request
        BY <2>23, <3>2 DEF CarryoverTarget
      <4>2. k.call = "carryover" /\ "carryover" \notin RowCalls \cup {"create"}
        BY <2>0, <2>23 DEF CarryoverTarget, Serving, Jobs, RowCalls
      <4> QED
        BY <2>3, <4>1, <4>2
    <3> QED
      BY <3>1, <3>2
  <2> QED
    BY <1>3, <2>8, <2>9, <2>10, <2>11, <2>12, <2>13, <2>14, <2>15, <2>16, <2>17,
       <2>18, <2>19, <2>20, <2>21, <2>22, <2>23, <2>24 DEF ThreadStep
<1> QED
  BY <1>1, <1>2, <1>3 DEF Next

\* One call at a time, and as long as no PATCH moves the dates of a request or
\* revives it, two live requests never share a day: the check of POST
\* /leave-requests/ is enough.
THEOREM NoLiveOverlapHolds ==
  ASSUME OneThread, "patch" \notin Endpoints
  PROVE  Spec => []NoLiveOverlap
<1>1. SerialInv => NoLiveOverlap
  BY DEF SerialInv
<1>2. TypeInv /\ SerialInv /\ [Next]_vars => SerialInv'
  BY SerialStep
<1> QED
  BY TypeInvariant, SerialInit, <1>1, <1>2, PTL DEF Spec

-----------------------------------------------------------------------------
(* The used days are the approved days.                                    *)

\* In a single year, the calls that leave every charge to the services: no
\* PATCH, no DELETE, and not the two tools of the assistant.
ServicesOnly ==
  Endpoints \cap {"patch", "delete", "ai_cancel", "ai_adjust"} = {}

DaysGranted(r, s) == {r} \X DaysOf(s)

\* A request covers as many days as it costs.
LEMMA GrantedCost ==
  ASSUME NEW r, NEW s \in Spans
  PROVE  /\ IsFiniteSet(DaysGranted(r, s))
         /\ Cardinality(DaysGranted(r, s)) = CalendarDays(s)
         /\ CalendarDays(s) \in Nat
<1>1. s.first \in Int /\ s.last \in Int
  BY LeaveConstants
<1>2. /\ IsFiniteSet(DaysOf(s))
      /\ Cardinality(DaysOf(s)) = CalendarDays(s)
  BY <1>1, FS_Interval DEF DaysOf, CalendarDays
<1>3. IsFiniteSet({r}) /\ Cardinality({r}) = 1
  BY FS_Singleton
<1>4. CalendarDays(s) \in Nat
  BY CalendarDaysNatural
<1>5. /\ IsFiniteSet({r} \X DaysOf(s))
      /\ Cardinality({r} \X DaysOf(s)) = 1 * CalendarDays(s)
  BY <1>2, <1>3, FS_Product
<1> QED
  BY <1>4, <1>5 DEF DaysGranted

\* Granting days that were not granted adds their cost; taking back days that
\* were granted subtracts it.
LEMMA GrantAdds ==
  ASSUME NEW D, IsFiniteSet(D), NEW r, NEW s \in Spans,
         D \cap DaysGranted(r, s) = {}
  PROVE  /\ IsFiniteSet(D \cup DaysGranted(r, s))
         /\ Cardinality(D \cup DaysGranted(r, s)) = Cardinality(D) + CalendarDays(s)
<1>1. Cardinality({}) = 0 /\ Cardinality(D) \in Nat
  BY FS_EmptySet, FS_CardinalityType
<1>2. /\ IsFiniteSet(DaysGranted(r, s))
      /\ Cardinality(DaysGranted(r, s)) = CalendarDays(s)
      /\ CalendarDays(s) \in Nat
  BY GrantedCost
<1>3. /\ IsFiniteSet(D \cup DaysGranted(r, s))
      /\ Cardinality(D \cup DaysGranted(r, s)) =
           Cardinality(D) + Cardinality(DaysGranted(r, s)) - Cardinality({})
  BY <1>2, FS_Union
<1> QED
  BY <1>1, <1>2, <1>3

LEMMA RevokeSubtracts ==
  ASSUME NEW D, IsFiniteSet(D), NEW r, NEW s \in Spans,
         DaysGranted(r, s) \subseteq D
  PROVE  /\ IsFiniteSet(D \ DaysGranted(r, s))
         /\ Cardinality(D \ DaysGranted(r, s)) = Cardinality(D) - CalendarDays(s)
         /\ CalendarDays(s) <= Cardinality(D)
<1>1. D \cap DaysGranted(r, s) = DaysGranted(r, s)
  OBVIOUS
<1>2. /\ IsFiniteSet(D \ DaysGranted(r, s))
      /\ Cardinality(D \ DaysGranted(r, s)) =
           Cardinality(D) - Cardinality(DaysGranted(r, s))
  BY <1>1, FS_Difference
<1>3. Cardinality(DaysGranted(r, s)) <= Cardinality(D)
  BY FS_Subset
<1> QED
  BY <1>2, <1>3, GrantedCost

\* What writing one row does to the approved days of a year.
Approves(row, y) ==
  row \in Rows /\ row.status = "approved" /\ row.own /\ row.decided = y

LEMMA ApprovedDays ==
  ASSUME NEW y, NEW p
  PROVE  p \in DaysApproved(y) <=>
           \E q \in Requests : /\ Approves(request[q], y)
                               /\ p \in DaysGranted(q, request[q].span)
BY DEF DaysApproved, ApprovedIn, Exists, Approves, DaysGranted

LEMMA RowWritten ==
  ASSUME request \in [Requests -> Rows \cup {NoRow, Deleted}],
         NEW r \in Requests, NEW new, request' = [request EXCEPT ![r] = new]
  PROVE  \A y \in Years :
    /\ ~Approves(request[r], y) /\ ~Approves(new, y) =>
         DaysApproved(y)' = DaysApproved(y)
    /\ ~Approves(request[r], y) /\ Approves(new, y) =>
         /\ DaysApproved(y)' = DaysApproved(y) \cup DaysGranted(r, new.span)
         /\ DaysApproved(y) \cap DaysGranted(r, new.span) = {}
    /\ Approves(request[r], y) /\ ~Approves(new, y) =>
         /\ DaysApproved(y)' =
              DaysApproved(y) \ DaysGranted(r, request[r].span)
         /\ DaysGranted(r, request[r].span) \subseteq DaysApproved(y)
<1> SUFFICES ASSUME NEW y \in Years
             PROVE  /\ ~Approves(request[r], y) /\ ~Approves(new, y) =>
                         DaysApproved(y)' = DaysApproved(y)
                    /\ ~Approves(request[r], y) /\ Approves(new, y) =>
                         /\ DaysApproved(y)' =
                              DaysApproved(y) \cup DaysGranted(r, new.span)
                         /\ DaysApproved(y) \cap DaysGranted(r, new.span) = {}
                    /\ Approves(request[r], y) /\ ~Approves(new, y) =>
                         /\ DaysApproved(y)' =
                              DaysApproved(y) \ DaysGranted(r, request[r].span)
                         /\ DaysGranted(r, request[r].span) \subseteq DaysApproved(y)
  OBVIOUS
<1>1. \A p : p \in DaysApproved(y) <=>
               \E q \in Requests : /\ Approves(request[q], y)
                                   /\ p \in DaysGranted(q, request[q].span)
  BY ApprovedDays
<1>2. \A p : p \in DaysApproved(y)' <=>
               \E q \in Requests : /\ Approves(request'[q], y)
                                   /\ p \in DaysGranted(q, request'[q].span)
  BY DEF DaysApproved, ApprovedIn, Exists, Approves, DaysGranted
<1>3. request'[r] = new /\ \A q \in Requests : q # r => request'[q] = request[q]
  OBVIOUS
<1>4. \A q, s, p : p \in DaysGranted(q, s) => p[1] = q
  BY DEF DaysGranted
<1>5. ASSUME ~Approves(request[r], y), ~Approves(new, y)
      PROVE  DaysApproved(y)' = DaysApproved(y)
  BY <1>1, <1>2, <1>3, <1>5
<1>6. ASSUME ~Approves(request[r], y), Approves(new, y)
      PROVE  /\ DaysApproved(y)' = DaysApproved(y) \cup DaysGranted(r, new.span)
             /\ DaysApproved(y) \cap DaysGranted(r, new.span) = {}
  BY <1>1, <1>2, <1>3, <1>4, <1>6
<1>7. ASSUME Approves(request[r], y), ~Approves(new, y)
      PROVE  /\ DaysApproved(y)' =
                  DaysApproved(y) \ DaysGranted(r, request[r].span)
             /\ DaysGranted(r, request[r].span) \subseteq DaysApproved(y)
  BY <1>1, <1>2, <1>3, <1>4, <1>7
<1> QED
  BY <1>5, <1>6, <1>7

\* Hypotheses of a single year of serial service calls.
SerialYear == OneThread /\ MaxYear = 1 /\ ServicesOnly

\* The recorded balance is the ledger of the approved days, and the balance
\* that a call has read is still the one that is recorded.
LedgerInv ==
  /\ balance[1] # NoBalance
  /\ IsFiniteSet(DaysApproved(1))
  /\ balance[1].used = Cardinality(DaysApproved(1))
  /\ \A t \in Threads :
       /\ job[t].call # "carryover"
       /\ job[t].call \in {"hr_approve", "cancel", "adjust"}
            /\ job[t].at = "ready" => job[t].bal = balance[1]
       /\ job[t].call = "cancel" /\ job[t].at = "ready"
            => job[t].row.status = "approved"

LEMMA LedgerInit ==
  ASSUME SerialYear
  PROVE  Init => LedgerInv
<1> SUFFICES ASSUME Init PROVE LedgerInv
  OBVIOUS
<1>1. 1 \in Years
  BY DEF SerialYear, Years
<1>2. balance[1] = NewBalance(Entitlement, 0)
  BY <1>1 DEF Init
<1>3. NewBalance(Entitlement, 0) \in Balances
  BY LeaveConstants DEF NewBalance, Balances
<1>4. DaysApproved(1) = {}
  BY LeaveNulls DEF Init, DaysApproved, ApprovedIn, Exists
<1>5. IsFiniteSet({}) /\ Cardinality({}) = 0
  BY FS_EmptySet
<1>6. \A t \in Threads : job[t].call = "none"
  BY DEF Init, Idle
<1> QED
  BY <1>2, <1>3, <1>4, <1>5, <1>6, LeaveNulls DEF LedgerInv, NewBalance

\* What a call may read in a single serial year.
LEMMA HeldInYear ==
  ASSUME SerialYear, TypeInv, TrailInv, SerialInv, LedgerInv, NEW t \in Threads
  PROVE  /\ Years = {1} /\ year = 1
         /\ balance[1] \in Balances
         /\ job[t].call \notin {"patch", "delete", "ai_cancel", "ai_adjust",
                                "carryover"}
         /\ job[t].year \in Years => job[t].year = 1
         /\ job[t].call \in RowCalls =>
              /\ job[t].req \in Requests /\ request[job[t].req] = job[t].row
              /\ job[t].row \in Rows /\ job[t].row.span \in Spans
              /\ job[t].row.own
              /\ Approves(job[t].row, 1) <=> job[t].row.status = "approved"
<1>1. Years = {1}
  BY DEF SerialYear, Years
<1>2. job[t].call \notin {"patch", "delete", "ai_cancel", "ai_adjust",
                          "carryover"}
  BY DEF TypeInv, JobOK, SerialYear, ServicesOnly, LedgerInv
<1>3. ASSUME job[t].call \in RowCalls
      PROVE  /\ job[t].req \in Requests /\ request[job[t].req] = job[t].row
             /\ job[t].row \in Rows /\ job[t].row.span \in Spans
             /\ job[t].row.own
             /\ Approves(job[t].row, 1) <=> job[t].row.status = "approved"
  <2>1. /\ job[t].req \in Requests /\ request[job[t].req] = job[t].row
        /\ job[t].row \in Rows /\ job[t].row.span \in Spans
    BY <1>3 DEF TypeInv, JobOK, SerialInv, CopyIsCurrent, Rows
  <2>2. /\ Trail(job[t].row) /\ job[t].row.own
        /\ job[t].row.decided \in {0, 1}
    BY <1>1, <2>1
       DEF TrailInv, Coherent, SerialYear, ServicesOnly, Rows, NoYear
  <2> QED
    BY <2>1, <2>2 DEF Trail, Approves, NoYear
<1> QED
  BY <1>1, <1>2, <1>3 DEF LedgerInv, TypeInv, TypeOK

LEMMA LedgerStep ==
  ASSUME SerialYear
  PROVE  TypeInv /\ TrailInv /\ SerialInv /\ LedgerInv /\ [Next]_vars
         => LedgerInv'
<1> SUFFICES ASSUME TypeInv, TrailInv, SerialInv, LedgerInv, [Next]_vars
             PROVE  LedgerInv'
  OBVIOUS
<1>1. CASE UNCHANGED vars
  BY <1>1 DEF vars, LedgerInv, DaysApproved, ApprovedIn, Exists
<1>2. CASE InitializeBalance \/ NextYear
  <2>1. year = 1 /\ balance[1] # NoBalance /\ MaxYear = 1
    BY DEF SerialYear, LedgerInv, TypeInv, TypeOK, Years
  <2> QED
    BY <1>2, <2>1 DEF InitializeBalance, NextYear
<1>3. ASSUME NEW t \in Threads, ThreadStep(t) PROVE LedgerInv'
  <2> DEFINE j == job[t]
             Held(k) == /\ k.call # "carryover"
                        /\ k.call \in {"hr_approve", "cancel", "adjust"}
                             /\ k.at = "ready" => k.bal = balance[1]
                        /\ k.call = "cancel" /\ k.at = "ready"
                             => k.row.status = "approved"
  <2>0. /\ request \in [Requests -> Rows \cup {NoRow, Deleted}]
        /\ balance \in [Years -> Balances \cup {NoBalance}]
        /\ job \in [Threads -> Jobs] /\ j \in Jobs /\ JobOK(j)
    BY DEF TypeInv, TypeOK
  <2>1. \A u \in Threads : u = t
    BY DEF SerialYear, OneThread
  <2>2. /\ Years = {1} /\ year = 1 /\ balance[1] \in Balances
        /\ j.call \notin {"patch", "delete", "ai_cancel", "ai_adjust",
                          "carryover"}
        /\ j.year \in Years => j.year = 1
    BY HeldInYear
  <2>3. ASSUME j.call \in RowCalls
        PROVE  /\ j.req \in Requests /\ request[j.req] = j.row
               /\ j.row \in Rows /\ j.row.span \in Spans
               /\ j.row.own
               /\ Approves(j.row, 1) <=> j.row.status = "approved"
    BY <2>3, HeldInYear
  <2>4. Idle.call = "none"
    BY DEF Idle
  <2>5. /\ IsFiniteSet(DaysApproved(1))
        /\ balance[1].used = Cardinality(DaysApproved(1))
        /\ balance[1] # NoBalance
        /\ j.call \in {"hr_approve", "cancel", "adjust"} /\ j.at = "ready"
           => j.bal = balance[1]
        /\ j.call = "cancel" /\ j.at = "ready" => j.row.status = "approved"
    BY DEF LedgerInv
  \* Steps that leave both tables alone.
  <2>6. ASSUME UNCHANGED <<request, balance>>, NEW k,
               job' = [job EXCEPT ![t] = k], Held(k)
        PROVE  LedgerInv'
    <3>1. DaysApproved(1)' = DaysApproved(1)
      BY <2>6 DEF DaysApproved, ApprovedIn, Exists
    <3>2. \A u \in Threads : job'[u] = k
      BY <2>0, <2>1, <2>6
    <3> QED
      BY <2>5, <2>6, <3>1, <3>2 DEF LedgerInv
  \* Steps that finish the call with a new ledger.
  <2>7. ASSUME Finish(t), NEW b \in Balances, balance' = [balance EXCEPT ![1] = b],
               IsFiniteSet(DaysApproved(1)'),
               b.used = Cardinality(DaysApproved(1)')
        PROVE  LedgerInv'
    <3>1. balance'[1] = b /\ b # NoBalance
      BY <2>0, <2>2, <2>7, LeaveNulls
    <3>2. \A u \in Threads : job'[u] = Idle
      BY <2>0, <2>1, <2>7 DEF Finish
    <3> QED
      BY <2>4, <2>7, <3>1, <3>2 DEF LedgerInv
  <2>8. ASSUME Finish(t), UNCHANGED balance, DaysApproved(1)' = DaysApproved(1)
        PROVE  LedgerInv'
    BY <2>0, <2>2, <2>5, <2>7, <2>8
  \* Steps that rewrite a row that is not approved into another such row.
  <2>9. ASSUME NEW new, SaveRow(t, new), j.call \in RowCalls,
               j.row.status # "approved", new.status # "approved",
               UNCHANGED balance
        PROVE  LedgerInv'
    <3>1. j.req \in Requests /\ ~Approves(request[j.req], 1) /\ ~Approves(new, 1)
      BY <2>3, <2>9 DEF Approves
    <3>2. request' = [request EXCEPT ![j.req] = new] /\ Finish(t)
      BY <2>9 DEF SaveRow
    <3>3. DaysApproved(1)' = DaysApproved(1)
      BY <2>0, <2>2, <3>1, <3>2, RowWritten
    <3> QED
      BY <2>8, <2>9, <3>2, <3>3
  <2>10. CASE CreateCheckOverlap(t)
    <3>1. PICK s \in Spans : job' = [job EXCEPT ![t] =
            [Idle EXCEPT !.call = "create", !.at = "loaded", !.row = NewRow(s)]]
      BY <2>10 DEF CreateCheckOverlap
    <3> DEFINE k == [Idle EXCEPT !.call = "create", !.at = "loaded",
                                 !.row = NewRow(s)]
    <3>2. k.call = "create"
      BY DEF Idle
    <3> QED
      BY <2>6, <2>10, <3>1, <3>2 DEF CreateCheckOverlap
  <2>11. CASE CreateCheckBalance(t)
    <3> DEFINE k == [j EXCEPT !.at = "ready"]
    <3>1. k.call = "create"
      BY <2>0, <2>11 DEF CreateCheckBalance, Serving, Jobs
    <3> QED
      BY <2>6, <2>11, <3>1 DEF CreateCheckBalance
  <2>12. CASE CreateInsert(t)
    <3>1. PICK r \in Requests : request[r] = NoRow
                                /\ request' = [request EXCEPT ![r] = j.row]
      BY <2>12 DEF CreateInsert
    <3>2. j.row.status = "pending"
      BY <2>12 DEF CreateInsert, Serving, TrailInv
    <3>3. ~Approves(request[r], 1) /\ ~Approves(j.row, 1)
      BY <3>1, <3>2, LeaveNulls DEF Approves
    <3>4. DaysApproved(1)' = DaysApproved(1)
      BY <2>0, <2>2, <3>1, <3>3, RowWritten
    <3> QED
      BY <2>8, <2>12, <3>4 DEF CreateInsert
  <2>13. ASSUME NEW c \in RowCalls, NEW r \in Requests, LoadRow(t, c, r)
         PROVE  LedgerInv'
    <3> DEFINE k == [Idle EXCEPT !.call = c, !.at = "loaded", !.req = r,
                                 !.row = request[r]]
    <3>1. k.call = c /\ c # "carryover" /\ k.at = "loaded"
      BY DEF Idle, RowCalls
    <3> QED
      BY <2>6, <2>13, <3>1 DEF LoadRow
  <2>14. CASE LeadApprove(t)
    <3>1. j.call \in RowCalls /\ j.row \in Rows /\ j.row.status = "pending"
      BY <2>0, <2>14 DEF LeadApprove, Serving, JobOK, RowCalls, Accepts
    <3> QED
      BY <2>9, <2>14, <3>1 DEF LeadApprove, Rows
  <2>15. CASE HrReadBalance(t) \/ CancelReadBalance(t)
    <3> DEFINE k == [j EXCEPT !.at = "ready", !.bal = balance[year],
                              !.year = year]
    <3>1. /\ job' = [job EXCEPT ![t] = k] /\ UNCHANGED <<request, balance>>
          /\ j.call \in {"hr_approve", "cancel"}
      BY <2>15 DEF HrReadBalance, CancelReadBalance, Serving
    <3>2. k.call = j.call /\ k.bal = balance[1] /\ k.row = j.row
      BY <2>0, <2>2 DEF Jobs
    <3>3. j.call = "cancel" => j.row.status = "approved"
      BY <2>15 DEF HrReadBalance, CancelReadBalance, GivesBack, Serving
    <3> QED
      BY <2>6, <3>1, <3>2, <3>3
  <2>16. CASE HrApprove(t)
    <3> DEFINE new == [j.row EXCEPT !.status = "approved", !.decided = year]
               D == DaysApproved(1)
               b == [j.bal EXCEPT !.used = @ + CalendarDays(j.row.span)]
    <3>1. /\ j.call = "hr_approve" /\ j.at = "ready" /\ j.call \in RowCalls
          /\ j.row.status = "lead_approved" /\ j.year = 1
      BY <2>0, <2>2, <2>16 DEF HrApprove, Serving, JobOK, RowCalls, Accepts
    <3>2. /\ j.req \in Requests /\ request[j.req] = j.row
          /\ j.row \in Rows /\ j.row.span \in Spans /\ j.row.own
          /\ ~Approves(j.row, 1)
      BY <2>3, <3>1
    <3>3. Approves(new, 1) /\ new.span = j.row.span
      BY <2>2, <3>2 DEF Approves, Rows, Statuses
    <3>4. request' = [request EXCEPT ![j.req] = new] /\ Finish(t)
      BY <2>16 DEF HrApprove, SaveRow
    <3>5. /\ DaysApproved(1)' = D \cup DaysGranted(j.req, j.row.span)
          /\ D \cap DaysGranted(j.req, j.row.span) = {}
      <4>1. ~Approves(request[j.req], 1) /\ j.req \in Requests /\ 1 \in Years
        BY <2>2, <3>2
      <4>2. Approves(new, 1) /\ new.span = j.row.span
        BY <3>3
      <4> HIDE DEF new
      <4>3. /\ DaysApproved(1)' = DaysApproved(1) \cup DaysGranted(j.req, new.span)
            /\ DaysApproved(1) \cap DaysGranted(j.req, new.span) = {}
        BY <2>0, <3>4, <4>1, <4>2, RowWritten
      <4> QED
        BY <4>2, <4>3
    <3>6. /\ IsFiniteSet(D \cup DaysGranted(j.req, j.row.span))
          /\ Cardinality(D \cup DaysGranted(j.req, j.row.span)) =
               Cardinality(D) + CalendarDays(j.row.span)
      BY <2>5, <3>2, <3>5, GrantAdds
    <3>7. /\ b \in Balances /\ b.used = Cardinality(D) + CalendarDays(j.row.span)
          /\ balance' = [balance EXCEPT ![1] = b]
      <4>1. j.bal = balance[1] /\ CalendarDays(j.row.span) \in Nat
        BY <2>5, <3>1, <3>2, CalendarDaysNatural
      <4>2. balance' = [balance EXCEPT ![1] = b]
        BY <2>16, <3>1 DEF HrApprove, SaveBalance
      <4>3. b \in Balances /\ b.used = balance[1].used + CalendarDays(j.row.span)
        BY <2>2, <4>1 DEF Balances
      <4> HIDE DEF b
      <4> QED
        BY <2>5, <4>2, <4>3
    <3> HIDE DEF b
    <3> QED
      BY <2>7, <3>4, <3>5, <3>6, <3>7
  <2>17. CASE Reject(t)
    <3>1. /\ j.call \in RowCalls /\ j.row \in Rows
          /\ j.row.status \in {"pending", "lead_approved"}
      BY <2>0, <2>17 DEF Reject, Serving, JobOK, RowCalls, Accepts
    <3> QED
      BY <2>9, <2>17, <3>1 DEF Reject, Rows
  <2>18. CASE Cancel(t)
    <3> DEFINE new == [j.row EXCEPT !.status = "cancelled"]
               D == DaysApproved(1)
               days == CalendarDays(j.row.span)
               b == GiveBack(j.bal, days)
    <3>1. /\ j.call = "cancel" /\ j.call \in RowCalls
          /\ SaveRow(t, new) /\ JobOK(j)
      BY <2>0, <2>18 DEF Cancel, Serving, RowCalls
    <3>2. /\ j.req \in Requests /\ request[j.req] = j.row
          /\ j.row \in Rows /\ j.row.span \in Spans
          /\ j.row.own
          /\ Approves(j.row, 1) <=> j.row.status = "approved"
      BY <2>3, <3>1
    <3>3. ~Approves(new, 1) /\ new.status # "approved"
      BY <3>2 DEF Approves, Rows
    <3>4. CASE j.at = "loaded"
      BY <2>9, <2>18, <3>1, <3>2, <3>3, <3>4 DEF Cancel, GivesBack, Serving
    <3>5. CASE j.at = "ready"
      <4>1. /\ j.bal = balance[1] /\ j.bal \in Balances /\ j.bal # NoBalance
            /\ j.year = 1 /\ j.row.status = "approved"
        BY <2>2, <2>5, <3>1, <3>5 DEF JobOK
      <4>2. /\ balance' = [balance EXCEPT ![1] = b]
            /\ request' = [request EXCEPT ![j.req] = new] /\ Finish(t)
        BY <2>18, <3>1, <3>5, <4>1 DEF Cancel, Serving, SaveBalance, SaveRow
      <4>3. /\ DaysApproved(1)' = D \ DaysGranted(j.req, j.row.span)
            /\ DaysGranted(j.req, j.row.span) \subseteq D
        <5> HIDE DEF new
        <5> QED
          BY <2>0, <2>2, <3>2, <3>3, <4>1, <4>2, RowWritten
      <4>4. /\ IsFiniteSet(D \ DaysGranted(j.req, j.row.span))
            /\ Cardinality(D \ DaysGranted(j.req, j.row.span)) =
                 Cardinality(D) - days
            /\ days <= Cardinality(D) /\ days \in Nat
        BY <2>5, <3>2, <4>3, RevokeSubtracts, CalendarDaysNatural
      <4>5. b \in Balances /\ b.used = Cardinality(D) - days
        <5>1. j.bal.used = Cardinality(D)
          BY <2>5, <4>1
        <5> HIDE DEF D, days
        <5> QED
          BY <4>1, <4>4, <5>1 DEF GiveBack, Balances
      <4> HIDE DEF b
      <4> QED
        BY <2>7, <4>2, <4>3, <4>4, <4>5
    <3> QED
      BY <2>18, <3>4, <3>5 DEF Cancel, Serving
  <2>24. CASE HrApproveOther(t)
    <3>1. j.call \in RowCalls /\ ~j.row.own
      BY <2>24 DEF HrApproveOther, Serving, RowCalls
    <3> QED
      BY <2>3, <3>1
  <2>19. CASE Patch(t) \/ Delete(t) \/ AssistantCancel(t) \/ AssistantAdjust(t)
              \/ CarryoverTarget(t) \/ CarryoverSave(t)
    BY <2>2, <2>19
       DEF Patch, Delete, AssistantCancel, AssistantAdjust, CarryoverTarget,
           CarryoverSave, Serving
  <2>20. ASSUME NEW c \in {"adjust", "ai_adjust"}, NEW y \in Years,
                ReadBalance(t, c, y)
         PROVE  LedgerInv'
    <3> DEFINE k == [Idle EXCEPT !.call = c, !.at = "ready",
                                 !.bal = balance[y], !.year = y]
    <3>1. k.call = c /\ k.bal = balance[1] /\ c # "carryover" /\ c # "cancel"
      BY <2>2, <2>20 DEF Idle
    <3> QED
      BY <2>6, <2>20, <3>1 DEF ReadBalance
  <2>21. CASE Adjust(t)
    <3>1. PICK a \in Allocations :
            SaveBalance(j.year, [j.bal EXCEPT !.allocated = a])
      BY <2>21 DEF Adjust
    <3> DEFINE b == [j.bal EXCEPT !.allocated = a]
    <3>2. j.year = 1 /\ j.bal = balance[1]
      BY <2>0, <2>2, <2>5, <2>21 DEF Adjust, Serving, JobOK
    <3>3. b \in Balances /\ b.used = balance[1].used
      BY <2>2, <3>2, LeaveConstants DEF Balances
    <3>4. balance' = [balance EXCEPT ![1] = b] /\ Finish(t) /\ UNCHANGED request
      BY <2>21, <3>1, <3>2 DEF Adjust, SaveBalance
    <3>5. DaysApproved(1)' = DaysApproved(1)
      BY <3>4 DEF DaysApproved, ApprovedIn, Exists
    <3> HIDE DEF b
    <3> QED
      BY <2>5, <2>7, <3>3, <3>4, <3>5
  <2>22. ASSUME NEW y \in Years, CarryoverReadSource(t, y) PROVE LedgerInv'
    BY <2>2, <2>22 DEF CarryoverReadSource
  <2>23. CASE Abort(t)
    <3>1. DaysApproved(1)' = DaysApproved(1)
      BY <2>23 DEF Abort, DaysApproved, ApprovedIn, Exists
    <3> QED
      BY <2>8, <2>23, <3>1 DEF Abort
  <2> QED
    BY <1>3, <2>10, <2>11, <2>12, <2>13, <2>14, <2>15, <2>16, <2>17, <2>18, <2>19,
       <2>20, <2>21, <2>22, <2>23, <2>24 DEF ThreadStep
<1> QED
  BY <1>1, <1>2, <1>3 DEF Next

LEMMA SerialInvariant ==
  ASSUME SerialYear
  PROVE  Spec => [](TypeInv /\ TrailInv /\ SerialInv /\ LedgerInv)
<1>1. OneThread /\ "patch" \notin Endpoints
  BY DEF SerialYear, ServicesOnly
<1>2. TypeInv /\ TrailInv /\ [Next]_vars => TrailInv'
  BY <1>1, TrailStep
<1>3. TypeInv /\ SerialInv /\ [Next]_vars => SerialInv'
  BY <1>1, SerialStep
<1>4. Init => LedgerInv
  BY LedgerInit
<1>5. TypeInv /\ TrailInv /\ SerialInv /\ LedgerInv /\ [Next]_vars => LedgerInv'
  BY LedgerStep
<1> QED
  BY TypeInvariant, TrailInit, SerialInit, <1>2, <1>3, <1>4, <1>5, PTL DEF Spec

\* One call at a time, the used days of the balance are the days of the
\* approved requests: approve_leave_request_hr charges what
\* cancel_leave_request gives back, whatever HR allocates and whichever call
\* stops halfway.
THEOREM UsedMatchesApprovedHolds ==
  ASSUME SerialYear
  PROVE  Spec => []UsedMatchesApproved
<1>1. LedgerInv => UsedMatchesApproved
  BY DEF SerialYear, LedgerInv, UsedMatchesApproved, Years
<1>2. Spec => [](TypeInv /\ TrailInv /\ SerialInv /\ LedgerInv)
  BY SerialInvariant
<1> QED
  BY <1>1, <1>2, PTL

-----------------------------------------------------------------------------
(* The services implement the lifecycle.                                   *)

Leaves == [r \in Requests |-> LeaveOf(request[r])]
Used == [y \in Years |-> UsedOf(balance[y])]

LEMMA LifecycleInitial ==
  ASSUME SerialYear
  PROVE  Init => Lifecycle!LifecycleInit
<1> SUFFICES ASSUME Init PROVE Lifecycle!LifecycleInit
  OBVIOUS
<1>1. \A r \in Requests : LeaveOf(request[r]) = NoRow
  BY LeaveNulls DEF Init, LeaveOf
<1>2. \A y \in Years : UsedOf(balance[y]) = 0
  BY DEF Init, UsedOf, NewBalance
<1> QED
  BY <1>1, <1>2 DEF Lifecycle!LifecycleInit

\* Steps that leave both tables alone are stutters of the lifecycle.
LEMMA TablesKept ==
  ASSUME UNCHANGED <<request, balance>>
  PROVE  UNCHANGED Lifecycle!lifecycleVars
BY DEF Lifecycle!lifecycleVars

\* What writing one row of the table, or the balance, does to the lifecycle.
LEMMA LeavesWritten ==
  ASSUME request \in [Requests -> Rows \cup {NoRow, Deleted}],
         NEW r \in Requests, NEW new, request' = [request EXCEPT ![r] = new]
  PROVE  Leaves' = [Leaves EXCEPT ![r] = LeaveOf(new)]
BY DEF Leaves, LeaveOf

LEMMA UsedWritten ==
  ASSUME balance \in [Years -> Balances \cup {NoBalance}],
         NEW y \in Years, NEW b \in Balances, balance' = [balance EXCEPT ![y] = b]
  PROVE  Used' = [Used EXCEPT ![y] = b.used]
BY LeaveNulls DEF Used, UsedOf

\* Steps that save the row of a request that neither is nor becomes approved.
LEMMA MoveRefines ==
  ASSUME request \in [Requests -> Rows \cup {NoRow, Deleted}],
         UNCHANGED balance,
         NEW r \in Requests, request[r] \in Rows,
         NEW new \in Rows, request' = [request EXCEPT ![r] = new],
         new.span = request[r].span,
         NEW from, NEW to, request[r].status \in from, new.status = to,
         "approved" \notin from, to # "approved"
  PROVE  Lifecycle!Move(r, from, to)
<1>1. Leaves' = [Leaves EXCEPT ![r] = LeaveOf(new)]
  BY LeavesWritten
<1>2. Leaves[r] = LeaveOf(request[r]) /\ Used' = Used
  BY DEF Leaves, Used
<1>3. LeaveOf(request[r]) = [status |-> request[r].status,
                             span |-> request[r].span, charged |-> NoYear]
  BY DEF LeaveOf
<1>4. LeaveOf(new) = [status |-> to, span |-> request[r].span,
                      charged |-> NoYear]
  BY DEF LeaveOf
<1>5. LeaveOf(new) = [Leaves[r] EXCEPT !.status = to]
  BY <1>2, <1>3, <1>4
<1>6. Leaves[r] # NoRow /\ Leaves[r].status \in from
  BY <1>2, <1>3, LeaveNulls DEF Rows
<1>7. Leaves' = [Leaves EXCEPT ![r].status = to]
  BY <1>1, <1>5
<1> QED
  BY <1>2, <1>6, <1>7 DEF Lifecycle!Move, Leaves, Used

LEMMA LifecycleStep ==
  ASSUME SerialYear
  PROVE  TypeInv /\ TrailInv /\ SerialInv /\ LedgerInv /\ [Next]_vars
         => [Lifecycle!LifecycleNext]_(Lifecycle!lifecycleVars)
<1> SUFFICES ASSUME TypeInv, TrailInv, SerialInv, LedgerInv, [Next]_vars
             PROVE  [Lifecycle!LifecycleNext]_(Lifecycle!lifecycleVars)
  OBVIOUS
<1>1. CASE UNCHANGED vars
  BY <1>1, TablesKept DEF vars
<1>2. CASE InitializeBalance \/ NextYear
  <2>1. year = 1 /\ balance[1] # NoBalance /\ MaxYear = 1
    BY DEF SerialYear, LedgerInv, TypeInv, TypeOK, Years
  <2> QED
    BY <1>2, <2>1 DEF InitializeBalance, NextYear
<1>3. ASSUME NEW t \in Threads, ThreadStep(t)
      PROVE  [Lifecycle!LifecycleNext]_(Lifecycle!lifecycleVars)
  <2> DEFINE j == job[t]
  <2>0. /\ request \in [Requests -> Rows \cup {NoRow, Deleted}]
        /\ balance \in [Years -> Balances \cup {NoBalance}]
        /\ j \in Jobs /\ JobOK(j)
    BY DEF TypeInv, TypeOK
  <2>2. /\ Years = {1} /\ year = 1 /\ balance[1] \in Balances
        /\ j.call \notin {"patch", "delete", "ai_cancel", "ai_adjust",
                          "carryover"}
        /\ j.year \in Years => j.year = 1
    BY HeldInYear
  <2>3. ASSUME j.call \in RowCalls
        PROVE  /\ j.req \in Requests /\ request[j.req] = j.row
               /\ j.row \in Rows /\ j.row.span \in Spans
               /\ j.row.own
               /\ Approves(j.row, 1) <=> j.row.status = "approved"
    BY <2>3, HeldInYear
  <2>4. /\ j.call \in {"hr_approve", "cancel", "adjust"} /\ j.at = "ready"
             => j.bal = balance[1]
        /\ j.call = "cancel" /\ j.at = "ready" => j.row.status = "approved"
        /\ IsFiniteSet(DaysApproved(1))
        /\ balance[1].used = Cardinality(DaysApproved(1))
    BY DEF LedgerInv
  \* Steps that move a request without a charge.
  <2>5. ASSUME NEW new \in Rows, SaveRow(t, new), j.call \in RowCalls,
               UNCHANGED balance, new.span = j.row.span,
               NEW from, NEW to, j.row.status \in from, new.status = to,
               "approved" \notin from, to # "approved"
        PROVE  Lifecycle!Move(j.req, from, to)
    BY <2>0, <2>3, <2>5, MoveRefines DEF SaveRow
  <2>6. CASE UNCHANGED <<request, balance>>
    BY <2>6, TablesKept
  <2>7. CASE CreateInsert(t)
    <3>1. PICK r \in Requests : request[r] = NoRow
                                /\ request' = [request EXCEPT ![r] = j.row]
      BY <2>7 DEF CreateInsert
    <3>2. j.row.status = "pending" /\ j.row \in Rows
      BY <2>0, <2>7 DEF CreateInsert, Serving, TrailInv, JobOK
    <3>3. /\ Leaves' = [Leaves EXCEPT ![r] = LeaveOf(j.row)]
          /\ Leaves[r] = NoRow /\ Used' = Used
      BY <2>0, <2>7, <3>1, LeavesWritten, LeaveNulls
         DEF CreateInsert, Leaves, LeaveOf, Used
    <3>4. LeaveOf(j.row) = [status |-> "pending", span |-> j.row.span,
                            charged |-> 0] /\ j.row.span \in Spans
      BY <3>2 DEF LeaveOf, Rows, NoYear
    <3>5. Lifecycle!Submit(r)
      BY <3>3, <3>4 DEF Lifecycle!Submit, Leaves, Used
    <3> QED
      BY <3>5 DEF Lifecycle!LifecycleNext
  <2>8. CASE LeadApprove(t)
    <3> DEFINE new == [j.row EXCEPT !.status = "lead_approved", !.lead = TRUE]
    <3>1. j.call \in RowCalls /\ j.row \in Rows /\ j.row.status = "pending"
      BY <2>0, <2>8 DEF LeadApprove, Serving, JobOK, RowCalls, Accepts
    <3>2. new \in Rows /\ new.span = j.row.span /\ new.status = "lead_approved"
      BY <3>1 DEF Rows, Statuses
    <3>3. SaveRow(t, new) /\ UNCHANGED balance
      BY <2>8 DEF LeadApprove
    <3> HIDE DEF new
    <3>4. Lifecycle!Move(j.req, {"pending"}, "lead_approved")
      BY <2>5, <3>1, <3>2, <3>3
    <3> QED
      BY <2>3, <3>1, <3>4 DEF Lifecycle!LifecycleNext
  <2>9. CASE Reject(t)
    <3> DEFINE new == [j.row EXCEPT !.status = "rejected", !.decided = year]
    <3>1. /\ j.call \in RowCalls /\ j.row \in Rows
          /\ j.row.status \in {"pending", "lead_approved"}
      BY <2>0, <2>9 DEF Reject, Serving, JobOK, RowCalls, Accepts
    <3>2. new \in Rows /\ new.span = j.row.span /\ new.status = "rejected"
      BY <2>2, <3>1 DEF Rows, Statuses
    <3>3. SaveRow(t, new) /\ UNCHANGED balance
      BY <2>9 DEF Reject
    <3> HIDE DEF new
    <3>4. Lifecycle!Move(j.req, {"pending", "lead_approved"}, "rejected")
      BY <2>5, <3>1, <3>2, <3>3
    <3> QED
      BY <2>3, <3>1, <3>4 DEF Lifecycle!LifecycleNext
  <2>10. CASE HrApprove(t)
    <3> DEFINE new == [j.row EXCEPT !.status = "approved", !.decided = year]
               days == CalendarDays(j.row.span)
               b == [j.bal EXCEPT !.used = @ + days]
    <3>1. /\ j.call = "hr_approve" /\ j.at = "ready" /\ j.call \in RowCalls
          /\ j.row.status = "lead_approved" /\ j.year = 1
      BY <2>0, <2>2, <2>10 DEF HrApprove, Serving, JobOK, RowCalls, Accepts
    <3>2. /\ j.req \in Requests /\ request[j.req] = j.row
          /\ j.row \in Rows /\ j.row.span \in Spans
      BY <2>3, <3>1
    <3>3. /\ request' = [request EXCEPT ![j.req] = new]
          /\ balance' = [balance EXCEPT ![1] = b]
      BY <2>10, <3>1 DEF HrApprove, SaveRow, SaveBalance
    <3>4. b \in Balances /\ b.used = balance[1].used + days
      BY <2>2, <2>4, <3>1, <3>2, CalendarDaysNatural DEF Balances
    <3>5. /\ LeaveOf(j.row) = [status |-> "lead_approved", span |-> j.row.span,
                               charged |-> NoYear]
          /\ LeaveOf(new) = [status |-> "approved", span |-> j.row.span,
                             charged |-> 1]
      BY <2>2, <3>1, <3>2 DEF LeaveOf, Rows, Statuses
    <3> HIDE DEF new, b
    <3>6. Leaves' = [Leaves EXCEPT ![j.req] = LeaveOf(new)]
      BY <2>0, <3>2, <3>3, LeavesWritten
    <3>7. Used' = [Used EXCEPT ![1] = b.used]
      BY <2>0, <2>2, <3>3, <3>4, UsedWritten
    <3>8. Leaves[j.req] = LeaveOf(j.row) /\ Used[1] = balance[1].used
      BY <2>2, <3>2, LeaveNulls DEF Leaves, Used, UsedOf
    <3>9. Leaves[j.req] # NoRow
      BY <2>2, <3>2, <3>5, <3>8, LeaveNulls DEF Statuses
    <3>10. Leaves' = [Leaves EXCEPT ![j.req] = [status |-> "approved",
                                               span |-> @.span, charged |-> 1]]
      BY <3>5, <3>6, <3>8
    <3>11. Used' = [Used EXCEPT ![1] = @ + CalendarDays(Leaves[j.req].span)]
      BY <3>4, <3>5, <3>7, <3>8
    <3>12. Lifecycle!Grant(j.req, 1)
      BY <3>5, <3>8, <3>9, <3>10, <3>11 DEF Lifecycle!Grant, Leaves, Used
    <3> QED
      BY <2>2, <3>2, <3>12 DEF Lifecycle!LifecycleNext
  <2>11. CASE Cancel(t)
    <3> DEFINE new == [j.row EXCEPT !.status = "cancelled"]
               days == CalendarDays(j.row.span)
               b == GiveBack(j.bal, days)
    <3>1. /\ j.call = "cancel" /\ j.call \in RowCalls
          /\ SaveRow(t, new) /\ JobOK(j)
          /\ j.row.status \notin {"rejected", "cancelled"}
      BY <2>0, <2>11 DEF Cancel, Serving, RowCalls, JobOK, Accepts
    <3>2. /\ j.req \in Requests /\ request[j.req] = j.row
          /\ j.row \in Rows /\ j.row.span \in Spans
          /\ j.row.own
          /\ Approves(j.row, 1) <=> j.row.status = "approved"
      BY <2>3, <3>1
    <3>3. new \in Rows /\ new.span = j.row.span /\ new.status = "cancelled"
      BY <3>2 DEF Rows, Statuses
    <3>4. CASE j.at = "loaded"
      <4>1. UNCHANGED balance /\ j.row.status # "approved"
        BY <2>11, <3>2, <3>4 DEF Cancel, GivesBack, Serving
      <4>2. j.row.status \in {"pending", "lead_approved"}
        BY <3>1, <3>2, <4>1 DEF Rows, Statuses
      <4> HIDE DEF new
      <4>3. Lifecycle!Move(j.req, {"pending", "lead_approved"}, "cancelled")
        BY <2>5, <3>1, <3>3, <4>1, <4>2
      <4> QED
        BY <3>2, <4>3 DEF Lifecycle!LifecycleNext
    <3>5. CASE j.at = "ready"
      <4>1. /\ j.bal = balance[1] /\ j.bal \in Balances /\ j.bal # NoBalance
            /\ j.year = 1 /\ j.row.status = "approved"
        BY <2>2, <2>4, <3>1, <3>5, LeaveNulls DEF JobOK
      <4>2. /\ balance' = [balance EXCEPT ![1] = b]
            /\ request' = [request EXCEPT ![j.req] = new]
        BY <2>11, <3>1, <3>5, <4>1 DEF Cancel, Serving, SaveBalance, SaveRow
      \* The days of an approved request are part of the ledger, so giving
      \* them back is not cut off at zero.
      <4>3. days <= balance[1].used /\ days \in Nat
        <5>1. DaysGranted(j.req, j.row.span) \subseteq DaysApproved(1)
          BY <3>2, <4>1, ApprovedDays
        <5> QED
          BY <2>4, <3>2, <5>1, RevokeSubtracts, CalendarDaysNatural
      <4>4. b \in Balances /\ b.used = balance[1].used - days
        <5> HIDE DEF days
        <5> QED
          BY <2>2, <4>1, <4>3 DEF GiveBack, Balances
      <4>5. /\ LeaveOf(j.row) = [status |-> "approved", span |-> j.row.span,
                                 charged |-> 1]
            /\ LeaveOf(new) = [status |-> "cancelled", span |-> j.row.span,
                               charged |-> 0]
        BY <3>2, <3>3, <4>1 DEF LeaveOf, Approves, NoYear
      <4> HIDE DEF new, b
      <4>6. Leaves' = [Leaves EXCEPT ![j.req] = LeaveOf(new)]
        BY <2>0, <3>2, <4>2, LeavesWritten
      <4>7. Used' = [Used EXCEPT ![1] = b.used]
        BY <2>0, <2>2, <4>2, <4>4, UsedWritten
      <4>8. Leaves[j.req] = LeaveOf(j.row) /\ Used[1] = balance[1].used
        BY <2>2, <3>2, LeaveNulls DEF Leaves, Used, UsedOf
      <4>9. Leaves[j.req] # NoRow
        BY <2>2, <3>2, <4>5, <4>8, LeaveNulls DEF Statuses
      <4>10. Leaves' = [Leaves EXCEPT ![j.req] = [status |-> "cancelled",
                                                 span |-> @.span,
                                                 charged |-> 0]]
        BY <4>5, <4>6, <4>8
      <4>11. Used' = [Used EXCEPT ![Leaves[j.req].charged] =
                                     @ - CalendarDays(Leaves[j.req].span)]
        <5>1. Leaves[j.req].charged = 1 /\ Leaves[j.req].span = j.row.span
          BY <4>5, <4>8
        <5>2. b.used = Used[1] - CalendarDays(Leaves[j.req].span)
          BY <4>4, <4>8, <5>1
        <5> QED
          BY <4>7, <5>1, <5>2
      <4>12. Lifecycle!Revoke(j.req)
        BY <4>5, <4>8, <4>9, <4>10, <4>11 DEF Lifecycle!Revoke, Leaves, Used
      <4> QED
        BY <3>2, <4>12 DEF Lifecycle!LifecycleNext
    <3> QED
      BY <2>11, <3>4, <3>5 DEF Cancel, Serving
  <2>12. CASE Adjust(t)
    <3>1. PICK a \in Allocations :
            SaveBalance(j.year, [j.bal EXCEPT !.allocated = a])
      BY <2>12 DEF Adjust
    <3> DEFINE b == [j.bal EXCEPT !.allocated = a]
    <3>2. j.year = 1 /\ j.bal = balance[1]
      BY <2>0, <2>2, <2>4, <2>12 DEF Adjust, Serving, JobOK
    <3>3. b \in Balances /\ b.used = balance[1].used
      BY <2>2, <3>2, LeaveConstants DEF Balances
    <3>4. balance' = [balance EXCEPT ![1] = b] /\ UNCHANGED request
      BY <2>12, <3>1, <3>2 DEF Adjust, SaveBalance
    <3> HIDE DEF b
    <3>5. Used' = [Used EXCEPT ![1] = b.used]
      BY <2>0, <2>2, <3>3, <3>4, UsedWritten
    <3>6. Used[1] = balance[1].used
      BY <2>2, LeaveNulls DEF Used, UsedOf
    <3>7. Used' = Used
      BY <3>3, <3>5, <3>6 DEF Used
    <3> QED
      BY <3>4, <3>7 DEF Lifecycle!lifecycleVars, Used
  <2>18. CASE HrApproveOther(t)
    <3>1. j.call \in RowCalls /\ ~j.row.own
      BY <2>18 DEF HrApproveOther, Serving, RowCalls
    <3> QED
      BY <2>3, <3>1
  <2>13. CASE Patch(t) \/ Delete(t) \/ AssistantCancel(t) \/ AssistantAdjust(t)
              \/ CarryoverTarget(t) \/ CarryoverSave(t)
    BY <2>2, <2>13
       DEF Patch, Delete, AssistantCancel, AssistantAdjust, CarryoverTarget,
           CarryoverSave, Serving
  <2>14. ASSUME NEW c \in RowCalls, NEW r \in Requests, LoadRow(t, c, r)
         PROVE  UNCHANGED <<request, balance>>
    BY <2>14 DEF LoadRow
  <2>15. ASSUME NEW c \in {"adjust", "ai_adjust"}, NEW y \in Years,
                ReadBalance(t, c, y)
         PROVE  UNCHANGED <<request, balance>>
    BY <2>15 DEF ReadBalance
  <2>16. ASSUME NEW y \in Years, CarryoverReadSource(t, y)
         PROVE  UNCHANGED <<request, balance>>
    BY <2>16 DEF CarryoverReadSource
  <2>17. CASE CreateCheckOverlap(t) \/ CreateCheckBalance(t) \/ HrReadBalance(t)
              \/ CancelReadBalance(t) \/ Abort(t)
    BY <2>6, <2>17
       DEF CreateCheckOverlap, CreateCheckBalance, HrReadBalance,
           CancelReadBalance, Abort
  <2> QED
    BY <1>3, <2>6, <2>7, <2>8, <2>9, <2>10, <2>11, <2>12, <2>13, <2>14, <2>15,
       <2>16, <2>17, <2>18 DEF ThreadStep
<1> QED
  BY <1>1, <1>2, <1>3 DEF Next

\* One call at a time and within a year, the leave services implement the
\* lifecycle: requests move only along it, the final approval charges their
\* days once and cancelling gives exactly those days back.
THEOREM ServicesImplementLifecycle ==
  ASSUME SerialYear
  PROVE  Spec => ImplementsLifecycle
<1>1. Init => Lifecycle!LifecycleInit
  BY LifecycleInitial
<1>2. Spec => [](TypeInv /\ TrailInv /\ SerialInv /\ LedgerInv)
  BY SerialInvariant
<1>3. TypeInv /\ TrailInv /\ SerialInv /\ LedgerInv /\ [Next]_vars
      => [Lifecycle!LifecycleNext]_(Lifecycle!lifecycleVars)
  BY LifecycleStep
<1> QED
  BY <1>1, <1>2, <1>3, PTL
     DEF Spec, ImplementsLifecycle, Lifecycle!LifecycleSpec
=============================================================================
