--------------------------- MODULE LeaveAnalytics ---------------------------
(***************************************************************************)
(* The monthly aggregates of one employee's leave of one type.  Every save *)
(* or deletion of a request rebuilds them once its transaction is          *)
(* committed, in the thread that made it; a command and the assistant      *)
(* rebuild them too.  The requests are read before the transaction of the  *)
(* rebuild begins.                                                         *)
(***************************************************************************)
EXTENDS Naturals, WebThreads

CONSTANTS
  Requests,  \* primary keys of LeaveRequest
  Months,
  Deleted

Calls == {"create", "decide", "move", "delete", "refresh", "refresh_range"}
Faults == {"crash"}
Buckets == {"pending", "approved", "rejected", "cancelled"}
\* LEAVE_ANALYTICS_STATUS_BUCKET
BucketOf == [pending |-> "pending", lead_approved |-> "pending",
             approved |-> "approved", rejected |-> "rejected", cancelled |-> "cancelled"]

\* months: those the request has working days in, one in each.
Leave == [status : DOMAIN BucketOf, months : SUBSET Months]
Count == 0..Cardinality(Requests)
Rows == [days : [Buckets -> Count], requests_count : Count]

AnalyticsConstants ==
  \* Clients also say the months of the leave they ask for.
  /\ \A c \in Clients : c.area = "analytics" => c.months \subseteq Months
  /\ IsFiniteSet(Requests)
  /\ {Nil, Deleted} \cap (Leave \cup Rows) = {} /\ Nil # Deleted

VARIABLES
  leave,     \* LeaveRequest
  aggregate  \* LeaveMonthlyAggregate: month -> row

vars == <<leave, aggregate, job, clients>>

-----------------------------------------------------------------------------
Existing(table) == {r \in Requests : table[r] \in Leave}
In(table, m) == {r \in Existing(table) : m \in table[r].months}

\* What the requests of a table come to, month by month.
Desired(table) ==
  [m \in Months |->
     IF In(table, m) = {} THEN Nil
     ELSE [days |-> [b \in Buckets |->
                       Cardinality({r \in In(table, m) : BucketOf[table[r].status] = b})],
           requests_count |-> Cardinality(In(table, m))]]

\* The request is written, and the rebuild follows.
Written(t, r, row) ==
  /\ leave' = [leave EXCEPT ![r] = row]
  /\ Take(t, "rebuild", Months, Nil)
  /\ UNCHANGED <<aggregate, clients>>

-----------------------------------------------------------------------------
Create(t) ==
  /\ Free(t, "create")
  /\ \E r \in Requests, M \in SUBSET clients.months \ {{}} :
       leave[r] = Nil /\ Written(t, r, [status |-> "pending", months |-> M])

\* Approvals, rejection, cancellation.
Decide(t) ==
  /\ Free(t, "decide")
  /\ \E r \in Existing(leave), s \in DOMAIN BucketOf :
       s # leave[r].status /\ Written(t, r, [leave[r] EXCEPT !.status = s])

Move(t) ==
  /\ Free(t, "move")
  /\ \E r \in Existing(leave), M \in SUBSET clients.months \ {{}} :
       Written(t, r, [leave[r] EXCEPT !.months = M])

\* Mutation of Delete: no receiver for deletions.
DeleteUnnoticed(t) ==
  /\ Free(t, "delete")
  /\ \E r \in Existing(leave) : leave' = [leave EXCEPT ![r] = Deleted]
  /\ UNCHANGED <<aggregate, job, clients>>

Delete(t) ==
  /\ Free(t, "delete")
  /\ \E r \in Existing(leave) : Written(t, r, Deleted)

\* refresh_leave_analytics, for all the years or for some.
Refresh(t) ==
  /\ \/ Free(t, "refresh") /\ Take(t, "rebuild", Months, Nil)
     \/ /\ Free(t, "refresh_range")
        /\ \E R \in SUBSET Months \ {{}} : Take(t, "rebuild", R, Nil)
  /\ UNCHANGED <<leave, aggregate, clients>>

\* The requests are read and counted.
ReadRequests(t) ==
  /\ At(t, "rebuild")
  /\ Take(t, "scope", job[t].key, [desired |-> Desired(leave)])
  /\ UNCHANGED <<leave, aggregate, clients>>

\* The transaction begins: the aggregates there are.
ReadAggregates(t) ==
  /\ At(t, "scope")
  /\ Take(t, "write", job[t].key, [desired |-> job[t].row.desired, existing |-> aggregate])
  /\ UNCHANGED <<leave, aggregate, clients>>

\* Mutation of Rebuilt: months without requests are left as they are.
RebuiltUnpruned(want, now) == IF want = Nil THEN now ELSE want

\* What a bucket becomes: created, updated if its copy differs, or dropped.
Rebuilt(want, now) == want

\* An INSERT fails if the bucket was created meanwhile, an UPDATE if it was
\* deleted; then nothing is written.
Conflict(want, had, now) ==
  \/ want # Nil /\ had = Nil /\ now # Nil
  \/ want # Nil /\ had # Nil /\ want # had /\ now = Nil

Write(t) ==
  /\ At(t, "write")
  /\ LET want == job[t].row.desired
         had == job[t].row.existing
     IN aggregate' =
          IF \E m \in job[t].key : Conflict(want[m], had[m], aggregate[m])
          THEN aggregate
          ELSE [m \in Months |-> IF m \in job[t].key /\ want[m] # had[m]
                                 THEN Rebuilt(want[m], aggregate[m]) ELSE aggregate[m]]
  /\ Done(t)
  /\ UNCHANGED <<leave, clients>>

\* The worker dies between the request and the end of the rebuild.
Crash(t) ==
  /\ Fault("crash") /\ job[t] # Idle
  /\ Done(t)
  /\ UNCHANGED <<leave, aggregate, clients>>

-----------------------------------------------------------------------------
Start ==
  /\ leave = [r \in Requests |-> Nil]
  /\ aggregate = [m \in Months |-> Nil]

Init == Start /\ Begin

Next == \E t \in Threads :
  \/ Create(t) \/ Decide(t) \/ Move(t) \/ Delete(t) \/ Refresh(t)
  \/ ReadRequests(t) \/ ReadAggregates(t) \/ Write(t) \/ Crash(t)

Spec == Init /\ [][Next]_vars

-----------------------------------------------------------------------------
(* Properties.                                                             *)

\* Requests, aggregates and rebuilds under way keep their columns' range.
TypeOK ==
  /\ leave \in [Requests -> Leave \cup {Nil, Deleted}]
  /\ aggregate \in [Months -> Rows \cup {Nil}]

\* One call at a time, and if no worker dies, the reports tell the requests.
AnalyticsTellRequests ==
  OneAtATime /\ clients.faults = {} /\ AllIdle => aggregate = Desired(leave)

\* Whatever was lost before, by dead workers or by calls that raced, a complete
\* rebuild that has the database to itself leaves no ghost and no gap.
RebuildRepairs ==
  [][\A t \in Threads :
       /\ At(t, "write") /\ job'[t] = Idle /\ job[t].key = Months
       /\ job[t].row.desired = Desired(leave) /\ job[t].row.existing = aggregate
       /\ \A u \in Threads \ {t} : job[u] = Idle
       => aggregate' = Desired(leave) \/ (Fault("crash") /\ aggregate' = aggregate)]_vars
=============================================================================
