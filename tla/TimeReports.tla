----------------------------- MODULE TimeReports -----------------------------
(***************************************************************************)
(* What the time tracking reports say: the weekly summary and dashboard,   *)
(* the approval queue, planned against actual hours, the export and what   *)
(* the assistant answers.  They are computed in different ways from the    *)
(* assignments and the time entries, and show what the viewer may see.     *)
(* How entries change is in TimeEntries, assignments in ProjectStaffing.   *)
(***************************************************************************)
EXTENDS Integers, WebThreads
LOCAL INSTANCE FiniteSetsExt

CONSTANTS
  Assignments, Entries,   \* primary keys; bounds on the rows
  Employees, Projects,
  Weeks                   \* bound on the calendar weeks; day 1 is a Monday

Calls == {"assign", "end", "archive", "log", "decide", "delete", "grant", "manage"}
Faults == {}
Rights == {"view_own", "view_team", "view_dept", "approve_team", "staff"}
Statuses == {"draft", "submitted", "approved", "rejected"}
Days == 1..(7 * Weeks)
Mondays == {7 * w + 1 : w \in 0..(Weeks - 1)}
Windows == {w \in Days \X Days : w[1] <= w[2]}
WeeklyCapacity == 4000   \* hours of an assignment are in hundredths, as its column has

\* weekly is NULL or the hours of a week, start and end the first and last days.
Plans == [employee : Employees, project : Projects, start : Days, end : Days \cup {Nil},
          percentage : 0..100, weekly : (0..WeeklyCapacity) \cup {Nil}, active : BOOLEAN]
Logs == [employee : Employees, project : Projects, day : Days, hours : 1..24,
         source : {"manual", "tempo"}, status : Statuses]

ReportConstants ==
  /\ Weeks \in Nat \ {0} /\ Nil \notin Plans \cup Logs \cup Days \cup 0..WeeklyCapacity
  /\ IsFiniteSet(Employees) /\ IsFiniteSet(Assignments) /\ IsFiniteSet(Entries)
  \* Clients also say which assignments and entries are made, on which days assignments
  \* are ended, who is given which rights or employees, and for which days planned and
  \* actual hours are compared.
  /\ \A c \in Clients : c.area = "hours" =>
       /\ c.plans \subseteq Plans /\ c.logs \subseteq Logs /\ c.windows \subseteq Windows
       /\ c.ends \subseteq Days /\ c.viewers \subseteq Employees /\ c.rights \subseteq SUBSET Rights

VARIABLES
  assignment,  \* ProjectAssignment
  archived,    \* the projects whose status is ARCHIVED
  entry,       \* TimeEntry
  rights,      \* employee -> what has_time_tracking_permission grants
  managers     \* employee -> UserProfile.managers

vars == <<assignment, archived, entry, rights, managers, job, clients>>

-----------------------------------------------------------------------------
(* Who may see what.                                                       *)

Live == {i \in Entries : entry[i] # Nil}
Assigned == {a \in Assignments : assignment[a] # Nil}

HasRight(v, r) == rights[v] \cap {r, "staff"} # {}
IsStaff(v) == "staff" \in rights[v]
Manages(v, e) == v \in managers[e]

\* can_view_employee_timesheet, and of the entries of the employee can_view_time_entry
CanView(v, e) ==
  \/ IsStaff(v)
  \/ v = e /\ HasRight(v, "view_own")
  \/ v # e /\ (HasRight(v, "view_dept") \/ (HasRight(v, "view_team") /\ Manages(v, e)))

CanApprove(v, e) == IsStaff(v) \/ (HasRight(v, "approve_team") /\ Manages(v, e))

CanEdit(v, i) ==
  /\ entry[i].status # "approved"
  /\ \/ IsStaff(v)
     \/ entry[i].source # "manual" /\ CanApprove(v, entry[i].employee)
     \/ /\ entry[i].source = "manual" /\ v = entry[i].employee /\ HasRight(v, "view_own")
        /\ entry[i].status \in {"draft", "rejected"}

\* can_delete_time_entry and what perform_destroy adds to it
CanDelete(v, i) ==
  IF entry[i].source = "manual"
  THEN /\ entry[i].status \in {"draft", "rejected"}
       /\ IsStaff(v) \/ CanEdit(v, i)
  ELSE CanApprove(v, entry[i].employee)

\* Mutation of Scope: who approves has to see the team as well.
ScopeSeen(v) == {e \in Employees : CanView(v, e)}

\* _scoped_time_entry_employees; the entries of a viewer's scope are those of these
\* employees, in get_queryset, _scoped_time_entries and _scoped_time_entries_for_ai.
Scope(v) ==
  IF HasRight(v, "view_dept") THEN Employees
  ELSE {e \in Employees :
          \/ v = e /\ HasRight(v, "view_own")
          \/ (HasRight(v, "view_team") \/ HasRight(v, "approve_team")) /\ Manages(v, e)}

Scoped(v, window) ==
  {i \in Live : entry[i].employee \in Scope(v) /\ entry[i].day \in window[1]..window[2]}

-----------------------------------------------------------------------------
(* Planned and actual hours.                                               *)

IsWeekend(d) == (d - 1) % 7 >= 5
Week(start) == {d \in Days : start <= d /\ d <= start + 6}
Monday(d) == d - ((d - 1) % 7)
Hours(I) == MapThenSumSet(LAMBDA i : entry[i].hours, I)

\* weekly_hours_for_assignment
WeeklyHours(a) ==
  IF assignment[a].weekly # Nil THEN assignment[a].weekly
  ELSE (WeeklyCapacity * assignment[a].percentage) \div 100

Covers(a, d) ==
  assignment[a].start <= d /\ (assignment[a].end = Nil \/ d <= assignment[a].end)

\* active_time_tracking_allocations: the weekly hours of a day, and what remains
ActiveOn(e, d) ==
  {a \in Assigned : /\ assignment[a].employee = e /\ assignment[a].active /\ Covers(a, d)
                    /\ assignment[a].project \notin archived}
ActiveHours(e, d) == MapThenSumSet(WeeklyHours, ActiveOn(e, d))
RemainingHours(e, d) == Max({0, WeeklyCapacity - ActiveHours(e, d)})

\* allocation_context_for: the assignment that began last, whatever its status
Context(e, p, d) ==
  LET of == {a \in Assigned : assignment[a].employee = e /\ assignment[a].project = p /\ Covers(a, d)}
  IN {a \in of : \A b \in of : assignment[b].start <= assignment[a].start}

\* Mutation of ActiveDays: Saturdays and Sundays count.
ActiveDaysAll(a, start) == {d \in Week(start) : Covers(a, d)}
ActiveDays(a, start) == {d \in Week(start) : ~IsWeekend(d) /\ Covers(a, d)}

\* weekly_allocation_summary.  A project has a row if it is planned or worked for on some
\* day of the week; planned is in fifths: a week has five days.
Planned(a, start) == WeeklyHours(a) * Cardinality(ActiveDays(a, start))
SummaryRow(e, p, start) ==
  LET plans == {a \in Assigned : /\ assignment[a].employee = e /\ assignment[a].project = p
                                 /\ \E d \in Week(start) : Covers(a, d)}
      logs == {i \in Live : entry[i].employee = e /\ entry[i].project = p /\ entry[i].day \in Week(start)}
      planned == MapThenSumSet(LAMBDA a : Planned(a, start), plans)
  IN [shown |-> plans # {} \/ logs # {}, planned |-> planned, actual |-> Hours(logs),
      status |-> IF logs # {} /\ planned = 0 THEN "unallocated" ELSE "allocated"]
WeeklySummary(e, start) ==
  [p \in {q \in Projects : SummaryRow(e, q, start).shown} |-> SummaryRow(e, p, start)]

\* Mutation of Summary: the employees of the viewer's scope, as in the lists.
SummaryScoped(v, e, start) == IF e \in Scope(v) THEN WeeklySummary(e, start) ELSE <<>>
\* The two views: a summary and the allocations of a day, of whose timesheet one may open.
Summary(v, e, start) == IF CanView(v, e) THEN WeeklySummary(e, start) ELSE <<>>
Allocations(v, e, d) == IF CanView(v, e) THEN ActiveOn(e, d) ELSE {}

Total(summary, field) == MapThenSumSet(LAMBDA p : summary[p][field], DOMAIN summary)

-----------------------------------------------------------------------------
(* Reports.                                                                *)

\* Mutation of ComparedEmployees: those who have logged something, as for the assistant.
ComparedEmployeesLogged(v, window, project) ==
  {e \in Scope(v) : \E i \in Scoped(v, window) :
                      entry[i].employee = e /\ project \in {Nil, entry[i].project}}

\* The employees of planned against actual: in scope, with an entry or an assignment in
\* the window, of the project if one is asked for (Nil is any).
ComparedEmployees(v, window, project) ==
  {e \in Scope(v) :
     \/ \E i \in Scoped(v, window) : entry[i].employee = e /\ project \in {Nil, entry[i].project}
     \/ \E a \in Assigned :
          /\ assignment[a].employee = e /\ project \in {Nil, assignment[a].project}
          /\ \E d \in window[1]..window[2] : Covers(a, d)}

WeeksOf(window) == {Monday(window[1]) + 7 * n : n \in 0..((Monday(window[2]) - Monday(window[1])) \div 7)}

RowsOf(E, window, project) ==
  UNION {{[employee |-> e, week |-> w, project |-> p, sums |-> WeeklySummary(e, w)[p]] :
            p \in {q \in DOMAIN WeeklySummary(e, w) : project \in {Nil, q}}} :
         e \in E, w \in WeeksOf(window)}
PlannedVsActual(v, window, project) ==
  RowsOf(ComparedEmployees(v, window, project), window, project)

\* The assistant compares those who have an entry and whose timesheet the viewer may open.
AssistantComparison(v, window, project) ==
  RowsOf({e \in {entry[i].employee : i \in Scoped(v, window)} : CanView(v, e)}, window, project)

\* The dashboard of a week: its total, and the totals of each status.
Dashboard(v, start) ==
  LET of == Scoped(v, <<start, start + 6>>)
  IN [total |-> Hours(of),
      by_status |-> [s \in Statuses |-> Hours({i \in of : entry[i].status = s})],
      by_employee |-> [e \in Employees |-> Hours({i \in of : entry[i].employee = e})]]

\* The rows of an export, of a project and a status if they are asked for.
Exported(v, window, project, status) ==
  {i \in Scoped(v, window) : project \in {Nil, entry[i].project} /\ status \in {Nil, entry[i].status}}

\* Mutation of Queue: imported entries need no approval.
QueueManual(v) ==
  {i \in Scoped(v, <<1, 7 * Weeks>>) : entry[i].status = "submitted" /\ entry[i].source = "manual"}
\* The approval queue, of whoever may approve.
Queue(v) == {i \in Scoped(v, <<1, 7 * Weeks>>) : entry[i].status = "submitted"}

-----------------------------------------------------------------------------
(* What changes underneath.                                                *)

Assign ==
  /\ "assign" \in clients.calls
  /\ \E a \in Assignments, p \in clients.plans :
       assignment[a] = Nil /\ assignment' = [assignment EXCEPT ![a] = p]
  /\ UNCHANGED <<archived, entry, rights, managers>>

End ==
  /\ "end" \in clients.calls
  /\ \E a \in Assigned, active \in BOOLEAN, d \in clients.ends :
       /\ assignment[a].start <= d
       /\ assignment' = [assignment EXCEPT ![a].active = active, ![a].end = d]
  /\ UNCHANGED <<archived, entry, rights, managers>>

Archive ==
  /\ "archive" \in clients.calls
  /\ \E p \in Projects : archived' = (archived \ {p}) \cup ({p} \ archived)
  /\ UNCHANGED <<assignment, entry, rights, managers>>

Log ==
  /\ "log" \in clients.calls
  /\ \E i \in Entries, l \in clients.logs :
       entry[i] = Nil /\ entry' = [entry EXCEPT ![i] = l]
  /\ UNCHANGED <<assignment, archived, rights, managers>>

Decide ==
  /\ "decide" \in clients.calls
  /\ \E i \in Live, s \in Statuses : entry' = [entry EXCEPT ![i].status = s]
  /\ UNCHANGED <<assignment, archived, rights, managers>>

Delete ==
  /\ "delete" \in clients.calls
  /\ \E v \in Employees, i \in Live :
       CanDelete(v, i) /\ entry' = [entry EXCEPT ![i] = Nil]
  /\ UNCHANGED <<assignment, archived, rights, managers>>

Grant ==
  /\ "grant" \in clients.calls
  /\ \E v \in clients.viewers, R \in clients.rights : rights' = [rights EXCEPT ![v] = R]
  /\ UNCHANGED <<assignment, archived, entry, managers>>

Manage ==
  /\ "manage" \in clients.calls
  /\ \E v \in clients.viewers, e \in Employees :
       /\ v # e
       /\ managers' = [managers EXCEPT ![e] = (@ \ {v}) \cup ({v} \ @)]
  /\ UNCHANGED <<assignment, archived, entry, rights>>

-----------------------------------------------------------------------------
Start ==
  /\ assignment = [a \in Assignments |-> Nil] /\ archived = {}
  /\ entry = [i \in Entries |-> Nil]
  /\ rights = [e \in Employees |-> {}] /\ managers = [e \in Employees |-> {}]
Init == Begin /\ Start

Next ==
  /\ Assign \/ End \/ Archive \/ Log \/ Decide \/ Delete \/ Grant \/ Manage
  /\ UNCHANGED <<job, clients>>

Spec == Init /\ [][Next]_vars
-----------------------------------------------------------------------------
(* Properties.                                                             *)

\* Every row is in its columns' range.
TypeOK ==
  /\ assignment \in [Assignments -> Plans \cup {Nil}] /\ archived \subseteq Projects
  /\ entry \in [Entries -> Logs \cup {Nil}]
  /\ rights \in [Employees -> SUBSET Rights] /\ managers \in [Employees -> SUBSET Employees]

\* Whoever may open, edit, delete or decide an entry has it in the scope of the lists,
\* and what waits for a decision is in the queue of everyone who may decide it; who may
\* open a timesheet has all of it in scope, and who has it in scope without being allowed
\* to open it is there to approve it, or sees the department's with no right to one's own.
WhoDecidesSees ==
  \A v \in Employees :
    /\ \A i \in Live :
         /\ CanView(v, entry[i].employee) \/ CanEdit(v, i) \/ CanDelete(v, i)
              => i \in Scoped(v, <<1, 7 * Weeks>>)
         /\ entry[i].status = "submitted" /\ CanApprove(v, entry[i].employee) => i \in Queue(v)
    /\ \A e \in Scope(v) :
         CanView(v, e) \/ CanApprove(v, e) \/ (v = e /\ HasRight(v, "view_dept"))

\* Planned hours, computed day by day or by the week: for any seven days they agree,
\* unless an assignment is no longer active or its project is archived, which only the
\* daily view takes off.  Never more remains on a day than a week has.
PlannedAgrees ==
  \A e \in Employees, start \in {d \in Days : d + 6 \in Days} :
    LET daily == MapThenSumSet(LAMBDA d : ActiveHours(e, d), {d \in Week(start) : ~IsWeekend(d)})
        weekly == Total(WeeklySummary(e, start), "planned")
    IN /\ daily <= weekly
       /\ (\A a \in Assigned : assignment[a].active /\ assignment[a].project \notin archived)
            => daily = weekly
       /\ \A d \in Week(start) : ActiveHours(e, d) <= WeeklyCapacity
            => RemainingHours(e, d) + ActiveHours(e, d) = WeeklyCapacity

\* A week says of a project that it was worked for without an allocation if no entry on
\* one of its working days would say of itself that it was allocated.  If it says so and
\* some would, theirs are allocations of no hours: the week goes by the hours planned, an
\* entry by the assignment.
UnallocatedTellsEntries ==
  \A e \in Employees, start \in Mondays :
    \A p \in DOMAIN WeeklySummary(e, start) :
      LET row == WeeklySummary(e, start)[p]
          told == UNION {Context(e, p, d) : d \in {n \in Week(start) : ~IsWeekend(n)}}
      IN row.actual > 0 =>
           /\ told = {} => row.status = "unallocated"
           /\ row.status = "unallocated" => \A a \in told : WeeklyHours(a) = 0

\* Planned against actual leaves no hour out: for whole weeks it has the hours of the
\* export, of the dashboards, and all that is planned for who is in scope; for other
\* days at least the hours of these days.  What the assistant compares is part of it,
\* with all the hours of those whom the viewer may see: of whoever has an entry it is
\* what the viewer is shown of their weeks, where each day's allocations are planned.
ComparisonIsComplete ==
  \A v \in Employees, window \in clients.windows :
    LET rows == PlannedVsActual(v, window, Nil)
        told == AssistantComparison(v, window, Nil)
        whole == window[1] \in Mondays /\ window[2] + 1 \in Mondays \cup {7 * Weeks + 1}
        Actual(R) == MapThenSumSet(LAMBDA r : r.sums.actual, R)
        exported == Exported(v, window, Nil, Nil)
    IN /\ Actual(rows) >= Hours(exported)
       /\ whole =>
            /\ Actual(rows) = Hours(exported)
            /\ Actual(rows) = MapThenSumSet(LAMBDA w : Dashboard(v, w).total, WeeksOf(window))
            /\ MapThenSumSet(LAMBDA r : r.sums.planned, rows) =
                 MapThenSumSet(LAMBDA e : MapThenSumSet(LAMBDA w :
                   Total(WeeklySummary(e, w), "planned"), WeeksOf(window)), Scope(v))
            /\ Actual(told) = Hours({i \in exported : CanView(v, entry[i].employee)})
            /\ \A p \in Projects :
                 Actual(PlannedVsActual(v, window, p)) = Hours(Exported(v, window, p, Nil))
       /\ told \subseteq rows
       /\ \A e \in {entry[i].employee : i \in exported}, w \in WeeksOf(window) :
            LET opened == Summary(v, e, w) IN
              /\ {<<r.project, r.sums>> : r \in {q \in told : q.employee = e /\ q.week = w}} =
                   {<<p, opened[p]>> : p \in DOMAIN opened}
              /\ \A d \in Week(w) :
                   {assignment[a].project : a \in Allocations(v, e, d)} \subseteq DOMAIN opened
       /\ \A w \in WeeksOf(window) :
            LET board == Dashboard(v, w) IN
              /\ \A s \in Statuses :
                   board.by_status[s] = Hours(Exported(v, <<w, w + 6>>, Nil, s))
              /\ board.total = MapThenSumSet(LAMBDA s : board.by_status[s], Statuses)
              /\ board.total = MapThenSumSet(LAMBDA e : board.by_employee[e], Employees)
=============================================================================
