-------------------------- MODULE ProjectStaffing --------------------------
(***************************************************************************)
(* The assignments of one employee to one project, and the project.  A new *)
(* assignment closes those it overlaps; a new allocation splits a running  *)
(* assignment at today, so that the past stays as it was planned.          *)
(***************************************************************************)
EXTENDS Naturals, WebThreads

CONSTANTS
  Assignments, \* primary keys; bound on the assignments created
  LastDay,     \* days are numbered from 0
  Deleted

\* insert_any and dates: starts in any order, and dates that are edited.
Calls == {"insert", "insert_any", "patch", "dates", "end", "delete",
          "project", "delete_project"}
Faults == {}

Days == 0..LastDay
Hours == {1, 2}
\* end_date is the last day; LastDay + 1 is NULL.
Ends == 0..LastDay + 1
Open == LastDay + 1
Rows == [start_date : Days, end_date : Ends, status : {"active", "completed", "on_hold"},
         weekly_allocation_hours : Hours]

\* It begins on day 1, so that there is a past.
StaffingConstants ==
  LastDay \in Nat \ {0} /\ {Nil, Deleted} \cap Rows = {} /\ Nil # Deleted

VARIABLES
  assignment, \* ProjectAssignment
  project,    \* the status of the project, or Deleted
  today

vars == <<assignment, project, today, job, clients>>

-----------------------------------------------------------------------------
Live == {a \in Assignments : assignment[a] \in Rows}
Unused(a) ==
  a \in clients.assignments /\ assignment[a] = Nil /\ \A t \in Threads : job[t].key # a
Covers(r, d) == r.start_date <= d /\ d <= r.end_date
Planned(d) == {assignment[a].weekly_allocation_hours : a \in {b \in Live : Covers(assignment[b], d)}}

-----------------------------------------------------------------------------
(* A new assignment and the end of those before, in one transaction.       *)

\* Mutation of Overlapped: only what has no end is closed.
OverlappedOpen(r) ==
  {a \in Live : assignment[a].start_date < r.start_date /\ assignment[a].end_date = Open}

Overlapped(r) ==
  {a \in Live : assignment[a].start_date < r.start_date /\ r.start_date <= assignment[a].end_date}

\* The row is written and the others are read, by a query that locks nothing.
Insert(t) ==
  /\ project # Deleted
  /\ \E a \in Assignments, r \in Rows :
       /\ Unused(a) /\ r.start_date <= r.end_date /\ r.status = "active"
       /\ \/ Free(t, "insert_any")
          \/ /\ Free(t, "insert")
             /\ \A b \in Live : assignment[b].start_date < r.start_date
       /\ Take(t, "close", a, [new |-> r, before |-> Overlapped(r),
                               copy |-> [b \in Overlapped(r) |-> assignment[b]]])
  /\ UNCHANGED <<assignment, project, today, clients>>

Closed(r, s) ==
  [r EXCEPT !.end_date = s - 1, !.status = IF @ = "active" THEN "completed" ELSE @]

\* A row deleted meanwhile makes save(update_fields) fail, a project deleted
\* meanwhile the commit; nothing is kept then.
CloseOverlapping(t) ==
  /\ At(t, "close")
  /\ LET j == job[t].row IN
       assignment' =
         IF project = Deleted \/ ~(j.before \subseteq Live) THEN assignment
         ELSE [a \in Assignments |->
                 IF a = job[t].key THEN j.new
                 ELSE IF a \in j.before
                 THEN [assignment[a] EXCEPT
                         !.end_date = Closed(j.copy[a], j.new.start_date).end_date,
                         !.status = Closed(j.copy[a], j.new.start_date).status]
                 ELSE assignment[a]]
  /\ Done(t)
  /\ UNCHANGED <<project, today, clients>>

-----------------------------------------------------------------------------
(* Changes of an assignment.                                               *)

Load(t) ==
  /\ \E c \in {"patch", "dates", "end", "delete"}, a \in Live :
       Free(t, c) /\ Take(t, c, a, assignment[a])
  /\ UNCHANGED <<assignment, project, today, clients>>

\* serializer.save: the whole copy, which a deletion does not stop.
Save(a, r) == assignment' = [assignment EXCEPT ![a] = r]

\* Mutation of RequiresSplit: allocations are changed where they are.
RequiresSplitNever(r, hours) == FALSE

RequiresSplit(r, hours) ==
  /\ r.weekly_allocation_hours # hours
  /\ r.status = "active"
  /\ r.start_date < today /\ today <= r.end_date

\* The row ends yesterday, a new one begins today, whatever start was asked for; an
\* end that is past is dropped.  A row deleted meanwhile fails the transaction.
SplitAssignment(a, new) ==
  \E n \in Assignments :
    /\ Unused(n)
    /\ assignment' =
         IF a \notin Live THEN assignment
         ELSE [assignment EXCEPT
                 ![a].end_date = today - 1, ![a].status = "completed",
                 ![n] = [new EXCEPT !.start_date = today,
                                    !.end_date = IF @ < today THEN Open ELSE @]]

\* Notes, a status or an allocation; decided on the copy.
Patch(t) ==
  /\ At(t, "patch")
  /\ LET r == job[t].row
         a == job[t].key
     IN \E h \in Hours, s \in {"active", "on_hold"} :
          IF RequiresSplit(r, h)
          THEN SplitAssignment(a, [r EXCEPT !.status = s, !.weekly_allocation_hours = h])
          ELSE Save(a, [r EXCEPT !.weekly_allocation_hours = h,
                                 !.status = IF @ = "completed" THEN @ ELSE s])
  /\ Done(t)
  /\ UNCHANGED <<project, today, clients>>

\* Any dates in their order, an end that is cleared compared as it was, with an
\* allocation or without.
PatchDates(t) ==
  /\ At(t, "dates")
  /\ LET r == job[t].row
         a == job[t].key
     IN \E s \in Days, e \in Ends, h \in Hours :
          LET new == [r EXCEPT !.start_date = s, !.end_date = e, !.weekly_allocation_hours = h] IN
          /\ s <= IF e = Open THEN r.end_date ELSE e
          /\ IF RequiresSplit(r, h) THEN SplitAssignment(a, new) ELSE Save(a, new)
  /\ Done(t)
  /\ UNCHANGED <<project, today, clients>>

\* An end no later than today and than the end there is.
End(t) ==
  /\ At(t, "end")
  /\ \E e \in Days :
       /\ job[t].row.start_date <= e /\ e <= today /\ e <= job[t].row.end_date
       /\ Save(job[t].key, [job[t].row EXCEPT !.end_date = e, !.status = "completed"])
  /\ Done(t)
  /\ UNCHANGED <<project, today, clients>>

Delete(t) ==
  /\ At(t, "delete")
  /\ assignment' = [assignment EXCEPT ![job[t].key] = Deleted]
  /\ Done(t)
  /\ UNCHANGED <<project, today, clients>>

-----------------------------------------------------------------------------
(* The project.                                                            *)

\* An edit, archive_project or reactivate_project.
SetProject(t) ==
  /\ Free(t, "project") /\ project # Deleted
  /\ project' \in {"active", "archived"}
  /\ UNCHANGED <<assignment, today, job, clients>>

\* The assignments go with it; time entries would protect it.
DeleteProject(t) ==
  /\ Free(t, "delete_project") /\ project # Deleted
  /\ project' = Deleted
  /\ assignment' = [a \in Assignments |-> IF a \in Live THEN Deleted ELSE assignment[a]]
  /\ UNCHANGED <<today, job, clients>>

\* Not while a call is being served.
NextDay ==
  /\ AllIdle /\ today < LastDay
  /\ today' = today + 1
  /\ UNCHANGED <<assignment, project, job, clients>>

-----------------------------------------------------------------------------
Start ==
  /\ assignment = [a \in Assignments |-> Nil]
  /\ project = "active" /\ today = 1

Init == Start /\ Begin

Next ==
  \/ NextDay
  \/ \E t \in Threads :
       \/ Insert(t) \/ CloseOverlapping(t) \/ Load(t) \/ Patch(t) \/ PatchDates(t)
       \/ End(t) \/ Delete(t) \/ SetProject(t) \/ DeleteProject(t)

Spec == Init /\ [][Next]_vars

-----------------------------------------------------------------------------
(* Properties.                                                             *)

\* Assignments have the dates and percentages their columns admit, whatever is split.
TypeOK ==
  /\ assignment \in [Assignments -> Rows \cup {Nil, Deleted}]
  /\ project \in {"active", "archived", Deleted}
  /\ today \in Days
  /\ \A a \in Live : assignment[a].start_date <= assignment[a].end_date

\* One call at a time, assignments made in the order of their starts, and dates
\* nobody edits: no day is planned for twice.
PlannedOnce ==
  OneAtATime /\ clients.calls \cap {"insert_any", "dates"} = {} =>
    \A d \in Days : Cardinality({a \in Live : Covers(assignment[a], d)}) <= 1

\* A new allocation of an assignment that runs as active, whatever was called
\* before, leaves what was planned for the days before today.
PastIsKept ==
  [][\A t \in Threads :
       At(t, "patch") /\ job'[t] = Idle /\ job[t].row.status = "active" /\ today <= job[t].row.end_date
       /\ assignment[job[t].key] = job[t].row
       => \A d \in 0..today - 1 : Planned(d)' = Planned(d)]_vars
=============================================================================
