--------------------------- MODULE LeaveLifecycle ---------------------------
(***************************************************************************)
(* What the leave workflow promises: a request moves along                 *)
(* pending -> lead_approved -> approved, may be rejected before its final  *)
(* approval and cancelled until it is rejected; the final approval charges *)
(* its days to one year and cancelling gives the same days back to the     *)
(* same year.                                                              *)
(***************************************************************************)
EXTENDS Integers

CONSTANTS
  Requests,   \* the requests that may be made
  Spans,      \* the date ranges they may cover
  Years,      \* the years a request may be charged to
  NoLeave,    \* a request that was not made yet
  Cost(_)     \* the days charged for a date range

VARIABLES
  leave,      \* request -> NoLeave or [status, span, charged]
  used        \* year -> days charged

lifecycleVars == <<leave, used>>

LifecycleInit ==
  /\ leave = [r \in Requests |-> NoLeave]
  /\ used = [y \in Years |-> 0]

Submit(r) ==
  /\ leave[r] = NoLeave
  /\ \E s \in Spans :
       leave' = [leave EXCEPT
                   ![r] = [status |-> "pending", span |-> s, charged |-> 0]]
  /\ UNCHANGED used

Move(r, from, to) ==
  /\ leave[r] # NoLeave /\ leave[r].status \in from
  /\ leave' = [leave EXCEPT ![r].status = to]
  /\ UNCHANGED used

Grant(r, y) ==
  /\ leave[r] # NoLeave /\ leave[r].status = "lead_approved"
  /\ leave' = [leave EXCEPT ![r] = [status |-> "approved", span |-> @.span,
                                    charged |-> y]]
  /\ used' = [used EXCEPT ![y] = @ + Cost(leave[r].span)]

Revoke(r) ==
  /\ leave[r] # NoLeave /\ leave[r].status = "approved"
  /\ leave' = [leave EXCEPT ![r] = [status |-> "cancelled", span |-> @.span,
                                    charged |-> 0]]
  /\ used' = [used EXCEPT ![leave[r].charged] = @ - Cost(leave[r].span)]

LifecycleNext ==
  \E r \in Requests :
    \/ Submit(r)
    \/ Move(r, {"pending"}, "lead_approved")
    \/ \E y \in Years : Grant(r, y)
    \/ Move(r, {"pending", "lead_approved"}, "rejected")
    \/ Move(r, {"pending", "lead_approved"}, "cancelled")
    \/ Revoke(r)

LifecycleSpec == LifecycleInit /\ [][LifecycleNext]_lifecycleVars
=============================================================================
