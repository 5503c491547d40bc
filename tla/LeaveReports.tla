----------------------------- MODULE LeaveReports -----------------------------
(***************************************************************************)
(* What the analytics endpoints, the export, the calendar and the          *)
(* assistant report about leaves.  Most sum the monthly aggregates, the    *)
(* availability of a team and the calendar read the requests themselves.   *)
(* The aggregates are those of a rebuild that nothing disturbs; what may   *)
(* disturb it is in LeaveAnalytics.                                        *)
(***************************************************************************)
EXTENDS Integers, Sequences, WebThreads
LOCAL INSTANCE FiniteSetsExt

CONSTANTS
  Requests, Employees,
  Everyone,          \* a viewer who may see all employees
  Types, Remote,     \* leave types; Remote is WFH
  Departments, Blank,\* a department is one of them, NULL or the empty text
  MonthOf,           \* day -> <<year, month>>
  Weekend

Calls == {"create", "decide", "delete", "transfer", "staff", "adjust", "snapshot", "next_day"}
Faults == {}
Days == DOMAIN MonthOf
Statuses == {"pending", "lead_approved", "approved", "rejected", "cancelled"}
Spans == {s \in Days \X Days : s[1] <= s[2]}
Leaves == [employee : Employees, type : Types, status : Statuses, span : Spans]
Viewers == Employees \cup {Everyone}
Balances == [allocated : Nat, carryover : Nat, used : Nat]

ReportConstants ==
  /\ MonthOf \in Seq(Nat \X Nat) /\ Weekend \subseteq Days
  \* Months follow each other.
  /\ \A d, e \in Days : d <= e => \/ MonthOf[d][1] < MonthOf[e][1]
                                  \/ MonthOf[d][1] = MonthOf[e][1] /\ MonthOf[d][2] <= MonthOf[e][2]
  /\ IsFiniteSet(Requests) /\ IsFiniteSet(Employees) /\ Everyone \notin Employees
  /\ Remote \in Types /\ Blank \notin Departments /\ Nil \notin Leaves \cup Departments \cup Balances
  \* Clients also say which leaves there are, the departments, who manages whom,
  \* and from which day to which (the bound on today).
  /\ \A c \in Clients : c.area = "reports" =>
       /\ c.leaves \subseteq Leaves /\ c.balances \subseteq Balances
       /\ c.first \in Days /\ c.last \in Days
       /\ c.departments \subseteq Departments \cup {Nil, Blank}
       /\ c.manager \in [Employees -> Employees \cup {Nil}]

VARIABLES
  request,     \* LeaveRequest
  department,  \* UserProfile.department
  staffed,     \* who has an active assignment to the project
  balance,     \* LeaveBalance of vacation in a year
  snapshot,    \* LeaveBalanceSnapshot: day -> employee -> row
  today

vars == <<request, department, staffed, balance, snapshot, today, job, clients>>

-----------------------------------------------------------------------------
(* The aggregates.                                                         *)

Existing == {r \in Requests : request[r] # Nil}
WorkingDays(span) == {d \in span[1]..span[2] : d \notin Weekend}
Years == {MonthOf[d][1] : d \in Days}
Months == {MonthOf[d] : d \in Days}

\* How many working days the requests of the employees spend on a type in a set of
\* months: the sum of a column of LeaveMonthlyAggregate over rows.
DaysIn(E, types, statuses, M) ==
  MapThenSumSet(LAMBDA r :
      Cardinality({d \in WorkingDays(request[r].span) : MonthOf[d] \in M}),
    {r \in Existing : /\ request[r].employee \in E /\ request[r].type \in types
                      /\ request[r].status \in statuses})

MonthsOf(y) == {m \in Months : m[1] = y}
Approved(E, types, M) == DaysIn(E, types, {"approved"}, M)

\* get_queryset, _scoped_employee_qs
Scope(v) == IF v = Everyone THEN Employees ELSE {v}
\* Parameters of a report: any department, or one.
Members(dept) == IF dept = Nil THEN Employees ELSE {e \in Employees : department[e] = dept}

-----------------------------------------------------------------------------
(* Reports on the aggregates.                                              *)

Sum(f) == MapThenSumSet(LAMBDA i : f[i], DOMAIN f)

Monthly(v, y, dept) ==
  [m \in MonthsOf(y) |-> [ty \in Types |-> Approved(Scope(v) \cap Members(dept), {ty}, {m})]]

YearlyTotals(v, y, dept) ==
  [ty \in Types |-> Approved(Scope(v) \cap Members(dept), {ty}, MonthsOf(y))]

PendingTotal(v, y, dept) ==
  DaysIn(Scope(v) \cap Members(dept), Types, {"pending", "lead_approved"}, MonthsOf(y))

\* Mutation of DepartmentRows: those who have a department.
DepartmentRowsNamed(y, last) ==
  [dept \in {department[e] : e \in Employees} \ {Nil, Blank} |->
     [ty \in Types |-> Approved({e \in Employees : department[e] = dept}, {ty}, MonthsOf(y))]]
\* Who has no department is Unassigned: the rows of NULL and of the empty text are one
\* row, which tells the ones that come last.
DepartmentRows(y, last) ==
  [dept \in {department[e] : e \in Employees} \ ({Nil, Blank} \ {last}) |->
     [ty \in Types |-> Approved({e \in Employees : department[e] = dept}, {ty}, MonthsOf(y))]]

EmployeeRows(v, y, dept) ==
  [e \in Scope(v) \cap Members(dept) |-> [ty \in Types |-> Approved({e}, {ty}, MonthsOf(y))]]

\* Mutation of ExportDepartment: the department is taken from everyone.
ExportDepartmentOfAll(v, dept) == dept
\* The department that an export asks for is that of HR only.
ExportDepartment(v, dept) == IF v = Everyone THEN dept ELSE Nil
ExportScope(v, dept) == Scope(v) \cap Members(ExportDepartment(v, dept))

\* The blocks of a PDF: the months, and the employees who have aggregates.
ExportedMonths(v, y, dept) ==
  [m \in MonthsOf(y) |-> Approved(ExportScope(v, dept), Types, {m})]
ExportedEmployees(v, y, dept) ==
  [e \in {d \in ExportScope(v, dept) : DaysIn({d}, Types, Statuses, MonthsOf(y)) > 0} |->
     <<Approved({e}, Types, MonthsOf(y)),
       DaysIn({e}, Types, {"pending", "lead_approved"}, MonthsOf(y))>>]

\* The assistant's total of one's own leave takes no notice of a department.
AssistantTotals(v, y, dept) ==
  IF v = Everyone THEN YearlyTotals(v, y, dept) ELSE YearlyTotals(v, y, Nil)

\* Months and leaves of the years from one to another.
HistoryDays(e, from, to) ==
  Approved({e}, Types, UNION {MonthsOf(y) : y \in from..to})
\* Mutation of HistoryLeaves: those that begin in these years.
HistoryLeavesBegun(e, from, to) ==
  {r \in Existing : request[r].employee = e /\ MonthOf[request[r].span[1]][1] \in from..to}
HistoryLeaves(e, from, to) ==
  {r \in Existing : /\ request[r].employee = e
                    /\ MonthOf[request[r].span[2]][1] >= from /\ MonthOf[request[r].span[1]][1] <= to}

\* The view's history: of an employee in scope, of years in order.
History(v, e, from, to) ==
  IF e \in Scope(v) /\ from <= to THEN HistoryDays(e, from, to) ELSE Nil

-----------------------------------------------------------------------------
(* Reports on the requests.                                                *)

Meets(span, window) == span[1] <= window[2] /\ span[2] >= window[1]

\* Mutation of Trimmed: a leave that began before counts from its first day.
TrimmedEnd(span, window) == <<span[1], IF span[2] > window[2] THEN window[2] ELSE span[2]>>

\* _trim_request_to_window
Trimmed(span, window) ==
  <<IF span[1] < window[1] THEN window[1] ELSE span[1],
    IF span[2] > window[2] THEN window[2] ELSE span[2]>>

Counted(E, window, types, statuses) ==
  {r \in Existing : /\ request[r].employee \in E /\ Meets(request[r].span, window)
                    /\ request[r].type \in types /\ request[r].status \in statuses}

\* Mutation of OnLeave: one for each leave.
OnLeaveEach(R, d) == {r \in R : TRUE}

\* The employees who are away on a day.
OnLeave(R, d) == {request[r].employee : r \in {q \in R : d \in WorkingDays(request[q].span)}}

\* team_availability: for each working day of the window who is away, of which types,
\* and whether that is a third of the team, by ten.
Availability(E, window, types, statuses) ==
  LET R == Counted(E, window, types, statuses)
      Spent(d) == [ty \in types |-> Cardinality({r \in R :
                     request[r].type = ty /\ d \in WorkingDays(Trimmed(request[r].span, window))})]
  IN [d \in WorkingDays(window) |->
        [on_leave_count |-> Cardinality(OnLeave(R, d)), by_type |-> Spent(d),
         is_critical |-> /\ 10 * Cardinality(OnLeave(R, d)) >= 3 * Cardinality(E)
                         /\ OnLeave(R, d) # {}]]
\* The days that the entries of the employees show.
Shown(E, window, types, statuses) ==
  UNION {{<<r, d>> : d \in WorkingDays(Trimmed(request[r].span, window))} :
         r \in Counted(E, window, types, statuses)}

DefaultTypes == Types \ {Remote}
DefaultStatuses == {"approved", "lead_approved", "pending"}

\* Whose availability a viewer gets: of the project, of everybody, or one's own, if one
\* is on the project.
Team(v, project) == IF v # Everyone THEN {v} ELSE IF project THEN staffed ELSE Employees
Refused(v, project) == v # Everyone /\ project /\ v \notin staffed

\* The number of yearly_totals.
OnLeaveToday(v, dept) ==
  Cardinality({request[r].employee : r \in {q \in Existing :
    /\ request[q].employee \in (IF v = Everyone THEN Members(dept) ELSE {v})
    /\ request[q].status = "approved" /\ Meets(request[q].span, <<today, today>>)}})

\* team_calendar
Calendar(v, window) ==
  {r \in Existing : /\ v \in {Everyone, request[r].employee, clients.manager[request[r].employee]}
                    /\ request[r].status = "approved" /\ Meets(request[r].span, window)}

-----------------------------------------------------------------------------
(* What changes underneath.  LeaveWorkflow says how requests are decided.  *)

Create ==
  /\ "create" \in clients.calls
  /\ \E r \in Requests, l \in clients.leaves :
       request[r] = Nil /\ request' = [request EXCEPT ![r] = [l EXCEPT !.status = "pending"]]
  /\ UNCHANGED <<department, staffed, balance, snapshot, today>>

Decide ==
  /\ "decide" \in clients.calls
  /\ \E r \in Existing, s \in Statuses :
       s # request[r].status /\ request' = [request EXCEPT ![r].status = s]
  /\ UNCHANGED <<department, staffed, balance, snapshot, today>>

Delete ==
  /\ "delete" \in clients.calls
  /\ \E r \in Existing : request' = [request EXCEPT ![r] = Nil]
  /\ UNCHANGED <<department, staffed, balance, snapshot, today>>

Transfer ==
  /\ "transfer" \in clients.calls
  /\ \E e \in Employees, d \in clients.departments :
       d # department[e] /\ department' = [department EXCEPT ![e] = d]
  /\ UNCHANGED <<request, staffed, balance, snapshot, today>>

Staff ==
  /\ "staff" \in clients.calls
  /\ \E e \in Employees : staffed' = IF e \in staffed THEN staffed \ {e} ELSE staffed \cup {e}
  /\ UNCHANGED <<request, department, balance, snapshot, today>>

Adjust ==
  /\ "adjust" \in clients.calls
  /\ \E e \in Employees, y \in Years, b \in clients.balances :
       b # balance[y][e] /\ balance' = [balance EXCEPT ![y][e] = b]
  /\ UNCHANGED <<request, department, staffed, snapshot, today>>

Remaining(b) == IF b.allocated + b.carryover > b.used THEN b.allocated + b.carryover - b.used ELSE 0
Snap(b) == [allocated |-> b.allocated, carryover |-> b.carryover, used |-> b.used,
            remaining |-> Remaining(b)]

\* Mutation of SnapshotOf: one a year.
SnapshotOfYear(d) == CHOOSE c \in Days : MonthOf[c][1] = MonthOf[d][1]
\* The day a row is of: another call on this day updates it.
SnapshotOf(d) == d

\* snapshot_leave_balances, of everybody's balance of the year.
Snapshot ==
  /\ "snapshot" \in clients.calls
  /\ snapshot' = [snapshot EXCEPT ![SnapshotOf(today)] =
       [e \in Employees |-> IF balance[MonthOf[today][1]][e] = Nil THEN @[e]
                            ELSE Snap(balance[MonthOf[today][1]][e])]]
  /\ UNCHANGED <<request, department, staffed, balance, today>>

NextDay ==
  /\ "next_day" \in clients.calls /\ today < clients.last /\ today' = today + 1
  /\ UNCHANGED <<request, department, staffed, balance, snapshot>>

-----------------------------------------------------------------------------
Start ==
  /\ request = [r \in Requests |-> Nil] /\ department = [e \in Employees |-> Nil]
  /\ staffed = {}
  /\ today = (IF clients.area = "reports" THEN clients.first ELSE 1)
  /\ balance = [y \in Years |-> [e \in Employees |-> Nil]]
  /\ snapshot = [d \in Days |-> [e \in Employees |-> Nil]]
Init == Begin /\ Start

Next ==
  /\ Create \/ Decide \/ Delete \/ Transfer \/ Staff \/ Adjust \/ Snapshot \/ NextDay
  /\ UNCHANGED <<job, clients>>

Spec == Init /\ [][Next]_vars
-----------------------------------------------------------------------------
(* Properties.                                                             *)

\* Every row is in its columns' range.
TypeOK ==
  /\ request \in [Requests -> Leaves \cup {Nil}]
  /\ department \in [Employees -> Departments \cup {Nil, Blank}] /\ staffed \subseteq Employees
  /\ \A y \in Years, e \in Employees : balance[y][e] \in Balances \cup {Nil}
  /\ \A d \in Days, e \in Employees :
       snapshot[d][e] = Nil \/ snapshot[d][e].remaining \in Nat
  /\ today \in Days

\* Every report of a year comes to the same days: the months, the employees, the export
\* in both of its blocks, what the employees see of themselves, the histories, and the
\* departments unless some employee has NULL and another the empty text.  An employee's
\* export is of all their leave, and so is what the assistant tells them, whatever
\* department they ask for.
ReportsAgree ==
  \A y \in Years :
    LET all == Sum(YearlyTotals(Everyone, y, Nil))
        named == {department[e] : e \in Employees}
    IN /\ \A v \in Viewers, dept \in Departments \cup {Nil} :
            LET months == Monthly(v, y, dept)
                rows == EmployeeRows(v, y, dept)
                exported == ExportedEmployees(v, y, dept)
                total == Sum(YearlyTotals(v, y, dept))
                mine == IF v = Everyone THEN dept ELSE Nil
                told == Sum(YearlyTotals(v, y, mine))
            IN /\ total = Sum([m \in DOMAIN months |-> Sum(months[m])])
               /\ total = Sum([e \in DOMAIN rows |-> Sum(rows[e])])
               /\ told = Sum(ExportedMonths(v, y, dept))
               /\ told = Sum([e \in DOMAIN exported |-> exported[e][1]])
               /\ PendingTotal(v, y, mine) = Sum([e \in DOMAIN exported |-> exported[e][2]])
               /\ told = Sum(AssistantTotals(v, y, dept))
       /\ all = Sum([e \in Employees |-> Sum(YearlyTotals(e, y, Nil))])
       /\ \A v \in Viewers :
            Sum(YearlyTotals(v, y, Nil)) = Sum([e \in Scope(v) |-> History(v, e, y, y)])
       /\ \A last \in {Nil, Blank} :
            LET rows == DepartmentRows(y, last)
            IN {Nil, Blank} \cap named \subseteq {last} =>
                 all = Sum([d \in DOMAIN rows |-> Sum(rows[d])])

\* Two ways to the same days: the availability of a year, summed over its days, is what
\* the aggregates of that year say, type by type; nobody is away twice on a day; the
\* entries show the days that are counted; and who is away today is who a calendar of
\* today and the number beside the totals tell.
AvailabilityAgrees ==
  /\ \A y \in Years :
       LET of == {d \in Days : MonthOf[d][1] = y}
           window == <<CHOOSE d \in of : \A c \in of : d <= c,
                       CHOOSE d \in of : \A c \in of : d >= c>>
           daily == Availability(Employees, window, Types, {"approved"})
       IN \A ty \in Types :
            YearlyTotals(Everyone, y, Nil)[ty] =
              Sum([d \in DOMAIN daily |-> daily[d].by_type[ty]])
  /\ \A window \in Spans, v \in Viewers, project \in BOOLEAN :
       ~Refused(v, project) =>
         LET team == Team(v, project)
             daily == Availability(team, window, DefaultTypes, DefaultStatuses)
         IN /\ \A d \in DOMAIN daily :
                 /\ daily[d].on_leave_count <= Cardinality(team)
                 /\ daily[d].is_critical => daily[d].on_leave_count > 0
            /\ Cardinality(Shown(team, window, DefaultTypes, DefaultStatuses)) =
                 Sum([d \in DOMAIN daily |-> Sum(daily[d].by_type)])
  /\ today \notin Weekend =>
       LET now == <<today, today>>
           away == Availability(Employees, now, Types, {"approved"})[today].on_leave_count
       IN /\ OnLeaveToday(Everyone, Nil) = away
          /\ away = Cardinality({request[r].employee : r \in Calendar(Everyone, now)})
          /\ away = Sum([e \in Employees |-> OnLeaveToday(e, Nil)])

\* A history of some years has a leave for every day that its months count.
HistoryIsWhole ==
  \A e \in Employees, from, to \in Years :
    from <= to =>
      HistoryDays(e, from, to) <=
        Cardinality({leave \in HistoryLeaves(e, from, to) \X Days :
          /\ leave[2] \in WorkingDays(request[leave[1]].span)
          /\ request[leave[1]].status = "approved"})

\* A snapshot tells the balance of its day and does not change afterwards.
SnapshotsStay ==
  [][\A d \in Days, e \in Employees : snapshot'[d][e] # snapshot[d][e] =>
       /\ d = today /\ balance[MonthOf[d][1]][e] # Nil
       /\ snapshot'[d][e].used = balance[MonthOf[d][1]][e].used]_vars
=============================================================================
