--------------------------- MODULE MCIntegrations ---------------------------
(***************************************************************************)
(* Integrations for TLC, and six components more in the same run: imports, *)
(* analytics and reports.  Each step of theirs is one of Elsewhere, so that*)
(* MCSpec implements Spec.                                                 *)
(***************************************************************************)
EXTENDS Integrations, TLC
CONSTANTS t1, t2, k1, k2, k3, u1, u2, x, y, Bad
VARIABLES batch, entry, lock, leave, aggregate,
          projects, task, projectmap, issuemap,
          worklog, wmapping, timeentry, synced, day,
          request, department, staffed, balance, snapshot, today,
          assignment, archived, logged, rights, managers
imports == <<batch, entry, lock>>
analytics == <<leave, aggregate>>
issues == <<projects, task, projectmap, issuemap>>
worklogs == <<worklog, wmapping, timeentry, synced, day>>
reports == <<request, department, staffed, balance, snapshot, today>>
timesheets == <<assignment, archived, logged, rights, managers>>
others == <<imports, analytics, issues, worklogs, reports, timesheets>>

Imports == INSTANCE DocumentTimeImports WITH
  Batches <- {k1, k2}, RowCount <- 2, MaxEntries <- 3, Contents <- {x, y}
Analytics == INSTANCE LeaveAnalytics WITH Requests <- {k1, k2}, Months <- {x, y}
Tasking == INSTANCE JiraIssueTasks WITH
  Issues <- {x, y}, Names <- {x}, Projects <- {k1, k2}, Tasks <- {k1, k2}
Worked == INSTANCE WorklogImports WITH
  mapping <- wmapping, Worklogs <- {k1, k2}, Projects <- {x, y}, Employee <- u1,
  Texts <- {x, y}, LastDay <- 2
\* Two years: the second month of the first begins with a weekend.
Reporting == INSTANCE LeaveReports WITH
  Requests <- {k1, k2}, Employees <- {u1, u2}, Everyone <- k3, Types <- {x, y}, Remote <- y,
  Departments <- {x}, Blank <- Deleted,
  MonthOf <- <<<<1, 11>>, <<1, 11>>, <<1, 12>>, <<1, 12>>, <<1, 12>>, <<2, 1>>>>,
  Weekend <- {3, 4}
Timing == INSTANCE TimeReports WITH
  entry <- logged, Assignments <- {k1, k2}, Entries <- {k1, k2}, Employees <- {u1, u2},
  Projects <- {x, y}, Weeks <- 2

ASSUME Imports!DocumentConstants
ASSUME Analytics!AnalyticsConstants
ASSUME Tasking!IssueConstants /\ Worked!WorklogConstants
ASSUME Reporting!ReportConstants
ASSUME Timing!ReportConstants

\* What users write: how long it is, and what its keywords name.
LengthOf == x :> 2 @@ y :> 1 @@ k1 :> 4
ToolOf == x :> "change" @@ y :> "read" @@ k1 :> Nil

OAuthClient(T, C, F, p, U, A) ==
  [area |-> "oauth", threads |-> T, calls |-> C, faults |-> F, provider |-> p, users |-> U, accounts |-> A]
ImportClient(T, C, F, f, B) ==
  [area |-> "imports", threads |-> T, calls |-> C, faults |-> F, files |-> f, batches |-> B]
AnalyticsClient(T, C, F, M) ==
  [area |-> "analytics", threads |-> T, calls |-> C, faults |-> F, months |-> M]
FilesClient(T, C, F, D, o) ==
  [area |-> "files", threads |-> T, calls |-> C, faults |-> F, documents |-> D, names |-> {x, y},
   overwrite |-> o]
AssistantClient(T, C, F) == [area |-> "assistant", threads |-> T, calls |-> C, faults |-> F]
IssueClient(T, C, F, I) == [area |-> "issues", threads |-> T, calls |-> C, faults |-> F, issues |-> I]
AccountClient(T, C, F, E) ==
  [area |-> "accounts", threads |-> T, calls |-> C, faults |-> F, emails |-> E]
\* The issue is named like y and its project like x.
Alike == [k \in {"user", "issue", "project", "task", "account", "jira_project", "team",
                 "task_project"} |->
  IF k = "issue" THEN x :> 10 @@ y :> 40 @@ u1 :> 0 ELSE x :> 40 @@ y :> 10 @@ u1 :> 90]
WorklogClient(T, C, F, s, W, K, S) ==
  [area |-> "worklogs", threads |-> T, calls |-> C, faults |-> F, source |-> s,
   worklogs |-> W, kinds |-> K, spans |-> S, score |-> Alike]
TemplateClient(T, C, F, U, P) ==
  [area |-> "templates", threads |-> T, calls |-> C, faults |-> F, users |-> U, papers |-> P]
\* A content that asks for all of its placeholders, and what else papers may be.
Paper(content, fields) == [content |-> content, fields |-> fields]
Ask(k, required) == [key |-> k, is_required |-> required]
PaperX == Paper({x}, <<Ask(x, TRUE)>>)
PaperXY == Paper({x, y}, <<Ask(y, TRUE), Ask(x, TRUE)>>)
PaperTwice == Paper({x, y}, <<Ask(x, TRUE), Ask(x, FALSE), Ask(y, TRUE)>>)
PaperOpen == Paper({x, y}, <<Ask(y, FALSE)>>)
ReportClient(C, L, D, B, f, l) ==
  [area |-> "reports", threads |-> {}, calls |-> C, faults |-> {}, leaves |-> L,
   departments |-> D, balances |-> B, first |-> f, last |-> l,
   manager |-> u1 :> Nil @@ u2 :> u1]
LeaveOf(e, ty, first, last) == [employee |-> e, type |-> ty, status |-> "pending", span |-> <<first, last>>]
BalanceOf(used) == [allocated |-> 2, carryover |-> 1, used |-> used]
HoursClient(C, P, D, L, W, V, R) ==
  [area |-> "hours", threads |-> {}, calls |-> C, faults |-> {}, plans |-> P, ends |-> D,
   logs |-> L, windows |-> W, viewers |-> V, rights |-> R]
PlanOf(e, p, start, end, percentage, weekly) ==
  [employee |-> e, project |-> p, start |-> start, end |-> end, percentage |-> percentage,
   weekly |-> weekly, active |-> TRUE]
LogOf(e, p, d, n, source, s) ==
  [employee |-> e, project |-> p, day |-> d, hours |-> n, source |-> source, status |-> s]
RoutingClient(T, C, F, X, m) ==
  [area |-> "routing", threads |-> T, calls |-> C, faults |-> F, texts |-> X, configured |-> m]
AccessClient(C, R, M) ==
  [area |-> "access", threads |-> {}, calls |-> C, faults |-> {}, rights |-> R, teams |-> M]
MCClients ==
  { OAuthClient({t1}, {"authorize", "callback", "disconnect", "use", "map"}, {"refused",
                 "no_connection", "lost_reply"}, "jira", {u1, u2}, {k1}),
    OAuthClient({t1}, {"authorize", "callback", "disconnect", "use"}, {}, "tempo", {u1}, {k1}),
    OAuthClient({t1}, {"authorize", "callback", "disconnect"}, {}, "jira", {u1, u2}, {k1, k2}),
    OAuthClient({t1, t2}, {"authorize", "callback", "disconnect", "use"}, {"refused",
                 "no_connection", "lost_reply"}, "jira", {u1}, {k1}),
    ImportClient({t1}, {"upload", "external", "map", "preview", "commit", "delete"}, {},
                 {<<y, y>>, <<x, Bad>>}, {k1, k2}),
    ImportClient({t1, t2}, {"upload", "preview", "commit", "edit"}, {"rollback"}, {<<x, y>>},
                 {k1}),
    AnalyticsClient({t1}, {"create", "decide", "move", "delete", "refresh", "refresh_range"},
                 {}, {x, y}),
    AnalyticsClient({t1, t2}, {"create", "delete", "refresh"}, {"crash"}, {x}),
    FilesClient({t1}, {"upload", "delete", "bulk_delete", "archive", "unarchive",
                 "bulk_archive", "visibility"}, {}, {k1, k2, k3}, FALSE),
    FilesClient({t1}, {"upload", "delete", "bulk_delete", "archive", "unarchive",
                 "bulk_archive", "visibility"}, {"crash", "storage", "rollback"}, {k1, k2},
                 TRUE),
    FilesClient({t1, t2}, {"upload", "bulk_delete", "archive"}, {"rollback"}, {k1, k2}, FALSE),
    FilesClient({t1, t2}, {"upload", "archive", "unarchive", "visibility"}, {}, {k1}, FALSE),
    AssistantClient({t1}, {"confirm", "yes", "no", "message", "agent_confirm",
                 "agent_cancel"}, {}),
    AssistantClient({t1}, {"confirm", "yes", "no", "message", "agent_cancel"}, {}),
    AssistantClient({t1}, {"confirm", "yes", "no", "message", "agent_confirm",
                 "agent_cancel"}, {"crash", "error"}),
    IssueClient({t1}, {"import", "task", "edit", "delete"}, {"rollback"}, {x}),
    IssueClient({t1}, {"import", "edit", "map_project"}, {}, {x}),
    IssueClient({t1}, {"import", "edit", "map_issue"}, {}, {x}),
    IssueClient({t1}, {"import", "delete", "delete_project", "map_project", "map_issue"}, {}, {x, y}),
    IssueClient({t1}, {"import", "edit"}, {}, {x, y}),
    IssueClient({t1, t2}, {"import"}, {"rollback"}, {x, y}),
    IssueClient({t1, t2}, {"import", "edit"}, {}, {x}),
    IssueClient({t1, t2}, {"import", "delete"}, {}, {x}),
    IssueClient({t1, t2}, {"import", "delete_project"}, {}, {x}),
    AccountClient({t1}, {"create", "google", "login", "chat", "edit", "edit_address",
                 "edit_email", "delete"}, {"crash"}, {x, y}),
    AccountClient({t1}, {"register", "create", "google", "login", "chat", "edit",
                 "edit_email", "delete"}, {}, {x, y}),
    AccountClient({t1, t2}, {"register", "create", "google", "delete"}, {}, {x}),
    AccountClient({t1, t2}, {"google", "edit_email", "delete"}, {}, {x}),
    WorklogClient({t1}, {"log", "sync"}, {}, "jira", {k1, k2}, {"user", "project"}, {"some"}),
    WorklogClient({t1}, {"log", "sync"}, {}, "tempo", {k1, k2}, {"user", "account"}, {"some"}),
    WorklogClient({t1}, {"log", "log_late", "edit", "sync"}, {"midnight", "rollback"}, "tempo",
                  {k1, k2}, {"user", "account"}, {"some"}),
    WorklogClient({t1}, {"log", "edit", "remove", "approve", "review", "import"}, {"feed"},
                  "jira", {k1}, {"user", "project"}, {"none", "seconds", "some"}),
    WorklogClient({t1}, {"log", "edit", "approve", "sync"}, {}, "jira", {k1, k2},
                  {"user", "project"}, {"some"}),
    WorklogClient({t1}, {"log", "map", "adopt", "import"}, {}, "jira", {k1},
                  {"issue", "project"}, {"some"}),
    WorklogClient({t1}, {"log", "map", "import"}, {}, "jira", {k1}, {"user", "issue"}, {"some"}),
    WorklogClient({t1}, {"log", "map", "import"}, {}, "tempo", {k1},
                  {"account", "task"}, {"some"}),
    WorklogClient({t1}, {"adopt"}, {}, "tempo", {}, {"account", "project", "team"}, {"some"}),
    TemplateClient({t1}, {"create", "put", "patch", "delete", "assistant_create",
                 "assistant_edit"}, {}, {u1, u2, t1}, {PaperX}),
    TemplateClient({t1}, {"create", "put", "delete", "duplicate", "use", "assistant_update"},
                 {}, {u1}, {PaperX, PaperXY}),
    TemplateClient({t1}, {"assistant_create", "assistant_update", "delete", "use"}, {"crash"},
                 {u1}, {PaperX, PaperXY, PaperTwice}),
    TemplateClient({t1}, {"create", "put", "patch", "use"}, {"crash"}, {u1},
                 {PaperXY, PaperTwice, PaperOpen}),
    TemplateClient({t1, t2}, {"create", "put", "use"}, {}, {u1}, {PaperX}),
    ReportClient({"create", "decide", "delete", "staff"},
                 {LeaveOf(u1, x, 1, 6), LeaveOf(u1, y, 2, 5), LeaveOf(u2, x, 3, 4),
                  LeaveOf(u2, x, 4, 6)}, {}, {}, 5, 5),
    ReportClient({"create", "decide", "transfer", "next_day"},
                 {LeaveOf(u1, x, 2, 5), LeaveOf(u2, y, 5, 6)}, {x, Nil, Deleted}, {}, 4, 5),
    ReportClient({"adjust", "snapshot", "next_day"}, {}, {}, {BalanceOf(1), BalanceOf(4)}, 5, 6),
    HoursClient({"assign", "end", "archive", "log"},
                {PlanOf(u1, x, 3, Nil, 50, Nil), PlanOf(u1, x, 10, 12, 25, 1000),
                 PlanOf(u1, x, 8, Nil, 1, 0), PlanOf(u1, y, 6, 7, 100, Nil)}, {6, 11},
                {LogOf(u1, x, 8, 5, "manual", "draft")}, {}, {}, {}),
    HoursClient({"assign", "log", "grant", "manage"},
                {PlanOf(u1, x, 5, 9, 50, Nil), PlanOf(u2, y, 2, Nil, 100, Nil)}, {},
                {LogOf(u1, x, 8, 5, "manual", "draft"), LogOf(u2, x, 2, 3, "tempo", "draft")},
                {<<1, 7>>, <<3, 9>>, <<1, 14>>}, {u1},
                {{"view_own", "approve_team"}, {"view_dept"}, {"view_team"}, {"staff"}}),
    HoursClient({"log", "decide", "delete", "grant", "manage"}, {}, {},
                {LogOf(u1, x, 8, 5, "manual", "draft"), LogOf(u2, x, 2, 3, "tempo", "draft")}, {},
                {u1}, {{"view_own"}, {"approve_team"}, {"view_own", "view_team"}, {"view_dept"}, {"staff"}}),
    RoutingClient({t1}, {"say"}, {"model"}, {x, y}, TRUE),
    RoutingClient({t1}, {"say"}, {"refusal", "crash"}, {k1, x}, TRUE),
    RoutingClient({t1}, {"say", "tool"}, {"refusal", "crash"}, {x, y, k1}, FALSE),
    RoutingClient({t1, t2}, {"say", "tool"}, {}, {x}, FALSE),
    AccessClient({"assign", "request", "approve", "reject"}, {
                 {"view_own_assigned_assets", "initiate_asset_return"}, {"staff"},
                 {"approve_asset_return", "view_all_assets", "initiate_asset_return"}}, {}),
    AccessClient({"assistant_assign", "assistant_return", "status"}, {{"view_team_assets"},
                 {"view_own_assets", "export_inventory"},
                 {"assign_assets_to_employees", "view_all_assets", "view_own_assets"}}, {{}, {u2}}),
    AccessClient({"assign", "assistant_return", "schedule", "finish"}, {{"view_own_assets"},
                 {"view_team_assets", "view_asset_history"},
                 {"view_own_assets", "view_asset_history"}}, {}) }

MCInit ==
  Init /\ Imports!Start /\ Analytics!Start /\ Tasking!Start /\ Worked!Start
  /\ Reporting!Start /\ Timing!Start
MCNext ==
  \/ Step /\ UNCHANGED others
  \/ /\ Elsewhere
     /\ \/ /\ clients.area = "imports" /\ Imports!Next
           /\ UNCHANGED <<analytics, issues, worklogs, reports, timesheets>>
        \/ /\ clients.area = "analytics" /\ Analytics!Next
           /\ UNCHANGED <<imports, issues, worklogs, reports, timesheets>>
        \/ /\ clients.area = "issues" /\ Tasking!Next
           /\ UNCHANGED <<imports, analytics, worklogs, reports, timesheets>>
        \/ /\ clients.area = "worklogs" /\ Worked!Next
           /\ UNCHANGED <<imports, analytics, issues, reports, timesheets>>
        \/ /\ clients.area = "reports" /\ Reporting!Next
           /\ UNCHANGED <<imports, analytics, issues, worklogs, timesheets>>
        \/ /\ clients.area = "hours" /\ Timing!Next
           /\ UNCHANGED <<imports, analytics, issues, worklogs, reports>>
MCSpec == MCInit /\ [][MCNext]_<<vars, others>>

\* DocumentTimeImports, JiraIssueTasks and WorklogImports: whatever commits and previews race, a row
\* of a table becomes one time entry, a table makes no entry that is there, a batch
\* tells its rows, and no verdict takes back a committed row.  A Jira project becomes
\* one project however imports race, and an import leaves every issue with its task.
\* Worklogs become one entry each, which tells the source what it was or keeps what
\* was approved, and the windows of the synchronisations leave no gap.
ImportPromises ==
  /\ [](clients.area = "imports" =>
          /\ Imports!TypeOK /\ Imports!RowImportedOnce
          /\ Imports!NoDuplicateEntries /\ Imports!BatchTellsRows)
  /\ Imports!CommittedRowStays
  /\ [](clients.area = "issues" => Tasking!TypeOK /\ Tasking!NoStrayProject)
  /\ Tasking!ImportRepairs
  /\ [](clients.area = "worklogs" => Worked!TypeOK /\ Worked!NoTwins)
  /\ Worked!CommitTellsSource /\ Worked!NoDayMissed /\ Worked!ProposalsAgree

\* LeaveAnalytics: the reports tell the requests while calls come one at a time, and
\* whatever dead workers and races have left, a rebuild that is alone puts right.
\* LeaveReports: the reports agree with each other and with the requests, whichever way
\* they are computed.  TimeReports: who may decide on an entry gets to see it, and the
\* allocations, summaries and comparisons tell the plans and the entries they are made of.
AnalyticsPromises ==
  /\ [](clients.area = "hours" =>
          /\ Timing!TypeOK /\ Timing!WhoDecidesSees /\ Timing!PlannedAgrees
          /\ Timing!UnallocatedTellsEntries /\ Timing!ComparisonIsComplete)
  /\ [](clients.area = "analytics" => Analytics!TypeOK /\ Analytics!AnalyticsTellRequests)
  /\ Analytics!RebuildRepairs
  /\ [](clients.area = "reports" =>
          /\ Reporting!TypeOK /\ Reporting!ReportsAgree
          /\ Reporting!AvailabilityAgrees /\ Reporting!HistoryIsWhole)
  /\ Reporting!SnapshotsStay

=============================================================================
