# A verification project for BloomHub's backend

BloomHub is a Django backend for human resources: leave, documents and their
signatures, time tracking with imports from Jira and Tempo, assets, projects,
training, surveys, announcements and an AI assistant that calls the same
services. This directory holds TLA+ models of the parts of it where the order of
steps matters, TLC configurations that check them on small instances, and proofs
for instances of every size.

    tlasany LeaveWorkflow.tla
    tlc -workers 2 -config LeaveSerial.cfg MCLeaveWorkflow
    tlapm LeaveWorkflowProofs.tla

`PROJECT.json` lists components, runs, the mutations of the model that each
property detects, the source lines of the definitions, findings, hazards and
theorems. A helper is not listed where another definition of its module names the
same lines. Paths below are relative to `src/`.

## 1. How the program runs

* **Threads.** Requests are served by several threads and worker processes.
  There is no `ATOMIC_REQUESTS`: a view runs statement by statement, each
  committing by itself, except inside `transaction.atomic`.
* **Isolation.** PostgreSQL at READ COMMITTED. A row is protected only by
  `select_for_update`, by the row lock an UPDATE takes until the commit, and by
  unique constraints.
* **Stale copies.** A view loads a row without a lock and passes the object to a
  service that opens its transaction later. `Model.save()` writes *every* column
  of that object unless `update_fields` is given, and INSERTs the row again if
  it was deleted meanwhile.
* **Callbacks.** `transaction.on_commit` runs the Tempo synchronisation and the
  rebuild of the analytics in the same thread, after the commit and outside any
  transaction. There is no task queue; retries are management commands run by a
  scheduler or by hand.
* **External services.** Tempo, Jira, Discord, the mail server, the storage of
  files and the language model. They fail, time out, or act and lose the answer.

Every model below is built from those five facts.

## 2. Inventory

What each component keeps, what happens to it, what is hard about it and what
makes it correct. The modules of each are in section 4, the reasons for what is
left out of each in its `note` in `PROJECT.json`.

| Component | State | Operations | Hard behaviour | What makes it correct | Module |
|---|---|---|---|---|---|
| Leave workflow and balances | `LeaveRequest`, `LeaveBalance` per year | create, lead and HR approval, reject, cancel, PATCH, DELETE, adjust, carryover, the assistant's variants | stale copies, lost updates, a year that ends in between, working against calendar days | a balance is charged the approved days and never overdrawn; approvals come in order; live requests do not overlap | `LeaveWorkflow` |
| Tempo absence synchronisation | `TempoAbsenceSync` row, `TimeEntry` and worklog per day; settings | sync after approval, cancel, move; retry view and command | lost answers, dead workers, two synchronisations of one leave | one worklog a day; "synced" is true; a cancelled leave is taken back in the end | `TempoAbsenceSync` |
| Leave analytics | monthly aggregates, snapshots of balances | rebuild on commit, refresh; reports, availability, history, export | two rebuilds interleave; the same figure computed in several ways | a rebuild puts right what is left; reports agree | `LeaveAnalytics`, `LeaveReports` |
| Document signatures | `Document.signature_status`, signers, log | request, sign, reject, reset, remind; archive | races between signers, requests, resets, archiving | the status is what the signers make up; one current signer an address | `DocumentSignatures` |
| Documents and storage | `Document`, files | upload, delete, bulk delete, archive, visibility | files go before the transaction commits | every row its file; a bulk deletion is whole | `DocumentFiles` |
| Document templates | templates, fields, generated text | create, PUT, PATCH, delete, clone, generate | fields written one by one while a document is generated | no placeholder that is asked for stays open | `DocumentTemplates` |
| Time entries | `TimeEntry` | create, edit, submit, approve, reject, delete; queue, summaries, export | decisions on stale copies; who sees what they decide on | an approved entry keeps what was approved; whoever may decide may see | `TimeEntries`, `TimeReports` |
| Time imports | worklogs, batches, rows, mappings, issue tasks | preview, validate, commit, synchronise, adopt mappings, review changes | two commits of one batch; windows between synchronisations | imported once; no worklog falls between two windows | `TimeEntries`, `DocumentTimeImports`, `WorklogImports`, `JiraIssueTasks` |
| OAuth connections | tokens, state, worklog mapping | authorize, callback, refresh, disconnect | rotating tokens, lost answers | the stored token is the accepted one; what was cut off stays so | `OAuthConnections` |
| Announcements, Discord, introductions | announcement, deliveries | publish, schedule, dispatch, retry, introduce | messages sent inside a transaction; retry against dispatch | told once, and told in the end | `Announcements` |
| Assets | asset, assignment, return request, maintenance | assign, return in two steps, maintain, log; lists | locked against unlocked paths; several queries for "may see" | one holder; one log; listed assets open | `AssetCustody`, `AssetAccess` |
| Projects and staffing | assignments with dates and allocation | insert, split, end, delete | history closed from unlocked reads | no day planned twice; the past is kept | `ProjectStaffing` |
| Training and budgets | entries, budgets, alert mark | create, edit, delete, recompute | alert decided under the lock, sent outside | the budget tells the entries; one alert a crossing | `TrainingBudgets` |
| Trainings, certificates, registrations, sessions | dated rows | create, update, delete, lists | a PATCH checked against the copy it loaded | dates stay in order; lists agree | `LearningRecords` |
| Jobs and applications | listing, application | apply, move, withdraw, close | transition table on a stale copy | a decision stands and is marked and told | `JobApplications` |
| Levels, roles of profiles | level changes, profile, history | record, edit, remove, promote | changes in any order of dates | the level is that of the latest change | `CareerLevels` |
| Roles and permissions | permissions, roles, bitmaps | load, upload, assign, edit, delete | bitmaps copied from roles; files applied row by row | the ways to read a right agree; a file does what it says | `RolePermissions` |
| Performance reviews | review, reminders, history, notes, points, files | schedule, move, close, remind, note, attach | reminders re-made by whoever lists them; visibility of notes | reminded once; private words stay private | `PerformanceReviews`, `ReviewNotes` |
| Checklists | templates, instances, tasks | assign, complete, remove | tasks made one by one by a signal | no task twice, none missing | `Checklists` |
| Surveys | survey, questions, answers | publish, edit, answer, recall | an edit deletes questions while answers come in | no answer to a kept question is lost | `Surveys` |
| Employees, accounts, CVs | user, profile, CV versions | register, sign in, edit, delete, upload | signals that save whole profiles; no unique address | one account an address; deactivated together; the latest CV is current | `EmployeeAccounts`, `EmployeeCVs` |
| AI assistant | session, messages, pending confirmation | route, stage, confirm, cancel, run tools | confirmed twice; dies between running and clearing | what runs was agreed to, and runs once; one answer a message | `AssistantTurns`, `AssistantRouting`, and the tools in each component's module |
| Management commands | – | retries, refreshes, loading | beside the web threads | as the component's | in each component's module |
| Notifications and mail; tenants | rows nobody depends on; schema | – | – | – | not modelled |

How they interact: the leave workflow calls Tempo and the analytics on commit;
the absence synchronisation and the imports write time entries; introductions
are announcements; the assistant's tools write the rows of nearly every
component, usually with fewer checks than the views. The leave modules read one
`LeaveRequest` table, and `EmployeeAccounts`, `CareerLevels`, `RolePermissions`
and `EmployeeCVs` are about different columns of one profile: a stale whole-row
save of one of them can undo another's, which each shows on its own columns.
Otherwise components share no rows, which is why they can be checked one beside
the other.

## 3. Plan

Ordered by importance. Modules marked ✔ exist.

1. ✔ `LeaveWorkflow` (abstract: `LeaveLifecycle`) and its proofs.
2. ✔ `TempoAbsenceSync`: the side effect of the leave workflow outside the
   database.
3. ✔ `DocumentSignatures` (abstract: `DocumentSigning`) and its proofs.
4. ✔ `TimeEntries` and its proofs; ✔ `DocumentTimeImports`, `WorklogImports`,
   `JiraIssueTasks`, the three ways in which entries and tasks are imported.
5. ✔ `AssetCustody` and its proofs.
6. ✔ `Announcements`, with liveness.
7. ✔ `AssistantTurns`, ✔ `AssistantRouting`.
8. ✔ `TrainingBudgets`, `JobApplications`, `ProjectStaffing`,
   `OAuthConnections`, `LeaveAnalytics`, `DocumentFiles`, `Checklists`,
   `Surveys`, `PerformanceReviews`, `CareerLevels`, `EmployeeCVs`,
   `EmployeeAccounts`, `DocumentTemplates`.
9. ✔ What is shown to whom: `LeaveReports`, `TimeReports`, `AssetAccess`,
   `ReviewNotes`, `LearningRecords`, `RolePermissions`.
10. Left: the access rules of documents, the figures of compensation, survey
    analytics and pulse checks, comments and reactions of announcements.

The theorems are in section 7. Worth proving next, of the modules that only TLC
checks: what `DocumentTimeImports` and `JiraIssueTasks` promise of rows and projects
that are imported once, which no fold computes.

## 4. The modules

### LeaveWorkflow, LeaveLifecycle

One employee, and the balances of one leave type: other employees share no row
with them, and a request of another type (`own` is FALSE) charges and gives back
other balances, until a PATCH moves it to this one. `request` is the `LeaveRequest` table, `balance` the `LeaveBalance` table
by year, `year` is `datetime.now().year`, and `job` says for each thread which
call it serves and which copies it holds. A date range is `[first, last]`, a day
a number, and `Weekend` names the Saturdays and Sundays, so that working days
and calendar days differ as in the code.

A transaction is its reads, one step each, followed by one step that commits all
its writes: in this code all writes of a transaction come after its last read,
and at READ COMMITTED nobody sees them before. So `HrReadBalance` is the `get`
of the balance and `HrApprove` the commit of request and balance; `cancel` is
`CancelReadBalance` and `Cancel`, and so on. `LoadRow` is `get_object()` with
the status checks made on that copy. `SaveRow` is `Model.save()`: it writes the
whole copy and brings a deleted row back. `Abort` is a transaction that dies
between two steps, a check that fails late included.

`Patch` needs a word: PATCH uses the list serializer, whose `leave_type`,
`start_date`, `end_date` and `status` are writable and not validated, so the
model lets it write any range, inverted ones included. One PATCH of the status
grants a final approval without the Tech Lead; `patched` remembers, for the
properties only, that a PATCH wrote the row's status. `PatchStatuses` bounds the
statuses an instance writes, and `PatchColumns` names the sets of columns of
which each history writes one (`columns`).

`LeaveLifecycle` is what the services promise: a request moves along its states
and the final approval charges the days that cancelling gives back.
`ImplementsLifecycle` is the refinement, with `charged` the year of the approval
and `used` the balance's. `DaysApproved(y)` is the set of days
that the requests approved in a year cover, request by request, and
`UsedMatchesApproved` compares `used` with its size.

### TempoAbsenceSync

The days of one leave. `row`, `entry` and `worklog` are the three records of a
day; `worklog` is Tempo's own table and external. `sync` holds, for a thread,
the stage of `sync_approved_leave` or `delete_leave_syncs` it is in and the rows
it has read. Each statement of the loop is an action because nothing there runs
in a transaction. Every error path is a step: a day without a Jira issue key, a
refused Jira or Tempo call (`MarkFailed`), a connection error during a deletion
(`DropWorklogUnreachable`, which ends the whole loop because the exception is
not one that `_delete_sync_row` catches), a creation whose answer is lost
(`PostReplyLost`), a killed worker (`Crash`). `Faults` chooses which of them an
instance has. The loops take days in their
order (`First`); `NewRow` is what `get_or_create` inserts.

`leave` is written by more calls than start a synchronisation. The assistant's
cancellation, a rejection, a PATCH that does not leave the request approved and a
DELETE (`Silent`) tell nobody, and may come in the middle of a run.
`leave.enqueued` says whether the change that made the present status was told:
only a cancellation that was is taken back. A DELETE cascades to the rows; `row`
then keeps what they held, and a run that has to save one stops (`RowsGone`)
because marking it failed raises too.

### DocumentSignatures, DocumentSigning

One document with its signers and log. `Load` is the view's unlocked read,
`Lock` is `select_for_update` with everything the service reads under it, and
the action named after the service commits. `archive` and `unarchive` take no
lock but their UPDATE waits for the one held. `reject_signature` has no
endpoint; it is modelled as any other service. `DocumentSigning` is the
contract: each address stands as none, pending, signed or rejected, and the
verdict is what they make up.

### AssetCustody

`asset` is the status of each `Asset`, `assignment` the `Assignment` table
(which asset, returned or not, the state of the return request, and whether a
PUT wrote one of the last two), `plan` one
`ScheduledMaintenance`, `logs` the `ReplacementLog`s made for it. `job` holds
the copies a thread works on; its key distinguishes `save(update_fields)`
(`Update`, which fails on a deleted row) from `save()` (`SaveCopy`, which brings
the row back). `lock` stands for the two row locks of
`complete_scheduled_maintenance`, the only locks of this component: the actions
that would update those rows, or insert a row that refers to the asset, wait for
it (`PlanFree`, `AssetFree`).

`clients` is chosen at the start and says how many threads there are and which
calls they make. What the code promises depends on it (`OneAtATime`: there is at most one
thread): some properties hold for one web client, some for racing ones, and the assistant, which writes the same
tables with fewer checks, breaks most. The two queries of `is_available` and the
foreign key check are one step each; the people that hold assets are left out.

### TimeEntries

The entries of one employee in one week. `entry` is the `TimeEntry` table.
`value` stands for what the duplicate fingerprint is made of (project, task,
date, hours, notes), `Weekend` for the values dated on a Saturday or Sunday;
`seen` and `flag` are `source_metadata`: what the source said last, and whether
a change waits for review; `submitted`, `approved` and `rejected` tell whether
the time stamp is set. `worklog` is the external source, Jira or Tempo: what a
worklog says, or that it is gone.

An update is `EditLoad` (the copy the serializer will save), `EditCheck` (the
second copy, on which the view asks for the permission) and `EditSave`. A
decision is `DecideLoad` and `Approve` or `Reject`. An import is `ImportFetch`,
`ImportPreview`, `ImportRead` and one of `ImportFlag`, `ImportOverwrite` and
`ImportInsert`; it carries one worklog, since every worklog of a batch is read
and written by itself. `Submit` alone is atomic: it locks what it reads.
`SaveCopy` and `SaveFields` are the two forms of `save()`; the unique constraint
on the external id is part of `SaveCopy` and of the insertions. The stamp
`updated` of a worklog is abstracted into its value. `clients` plays the part it
has in `AssetCustody`, and says also which keys a client creates and which
statuses its bodies name, because `status` is writable.

### WebThreads and the modules built on it

`WebThreads` is the frame of all the modules below: `job` says for each thread
at which stage of a call it is, of which primary key, and with which copy it has
loaded; `clients`, chosen once at the start, names the threads, the calls they
make and the faults they meet. A call that is one statement, or one transaction
whose reads nothing can disturb, is one action (`Free(t, call)`); a call of
several statements is a stage each (`Take`, `At`, `Done`). A record of
`MCClients` has an `area`, the component it works with.

**Announcements.** `announcement`, `delivery` and the lock of the dispatch;
`told`, `posted` count what left the database, which a rollback cannot take
back. The dispatch is `Lock`, `Deliver`, `Post`, `Commit`; the two commands are
`NotifyDue` and `RetryLoad`, `RetryBegin`, `RetryPost`, `RetryEnd`.

**OAuthConnections.** A token is the number the provider gave it. `issued` and
`accepted` are the provider's own books: each refresh token is accepted once.
Refreshes that are refused, not reached, or answered into the void are faults.

**DocumentTimeImports.** The batches of an uploaded table: the prefetched rows,
the validation that looks for duplicates first and saves its verdicts later, the
commit that locks from then on.

**WorklogImports.** What a source hands out, how the mappings (issue, project;
task, account, project, team) turn a worklog into an employee and a project, the
verdicts of the preview and the commit, and the window each synchronisation asks
for. `Alike` gives the scores by which mappings are proposed.

**JiraIssueTasks.** Assigned issues that become projects, tasks and mappings in
one transaction whose writes are kept apart (`wrote`) until it commits.

**LeaveAnalytics, LeaveReports.** The first has the rebuild, statement by
statement, with races and dead workers; the second takes rebuilt aggregates and
computes each report in the way its endpoint does: by aggregates, by requests,
by year, by department, for a viewer. An employee's export takes no notice of the
department asked for, their monthly report does (`ExportDepartment`).

**TimeReports, AssetAccess.** Queries over rows that change in single steps:
each operator is one view, service or tool, and the properties compare them.
Hours are counted in hundredths.

**DocumentFiles, DocumentTemplates.** `stored` is the storage, which knows no
transactions and may rename or overwrite. A template's content is the set of its
placeholders.

**AssistantTurns, AssistantRouting.** The session's pending confirmation with
every way to confirm and cancel it; and the path of one message through router,
subagent, tools and the fallback by keywords, with a window over the
conversation. What a language model answers is any answer.

**EmployeeAccounts, EmployeeCVs, CareerLevels, RolePermissions.** The user and
the profile that signals save beside it; the versions of a CV; the level, role,
permissions and history of a profile; permissions, roles and the bitmaps copied
from them.

**ProjectStaffing, JobApplications, TrainingBudgets, LearningRecords,
Checklists, Surveys.** One employee's (or one listing's, one survey's) rows with
every call that writes them, the copies a thread holds between its statements,
and the assistant's tools with their own, weaker checks. An edit of a checklist
template loads it, saves it, and makes its tasks anew, a statement each: a
template deleted in between comes back with the save.

**PerformanceReviews, ReviewNotes.** Time goes by half days, because reminders
are due at nine. The second has who sees, adds and changes notes, points and
files, with the rights of employee, reviewer and manager given by the client.

## 5. What the runs check

There are twelve runs. Ten concern one component each. The other two,
`Integrations` and `People`, explore the components that share no rows one
beside the other: an initial state chooses a client, its area names the only
component that moves, and everything else stays as it was. Nothing is thereby
claimed about what two of them do to each other. The
properties of such a run are one for each component or for a few that belong
together (`OAuthConnections` is `ConnectionPromises`, and so on): conjunctions
of the type invariant and the named properties that the component's module
states and explains. `PROJECT.json` has mutants for each of their parts.

The bounds are small and chosen so that what can go wrong does go wrong in the
mutants: two threads are what one stale copy needs, two rows what a race between
rows needs, a third primary key what a row made too many needs.

| Run | Instance | Shows |
|---|---|---|
| `LeaveSerial` | 3 requests, 1 thread, 1 year, three ranges of which two overlap others | Served one call at a time, with aborts, the services keep `used` equal to the approved days (`UsedMatchesApproved`), refuse overlaps (`NoLiveOverlap`) and implement `LeaveLifecycle`. |
| `LeaveConcurrent` | 2 requests, 2 threads, 1 year, valid and inverted ranges, creation and all calls on a request; PATCHes write the dates in some histories, the leave type in others, the status `approved` in the rest (one of the three, which bounds the run) | `TypeOK`: no `PositiveIntegerField` goes negative. `ApprovalTrail`: stale copies written over each other never make an approved request without the Tech Lead, unless a PATCH wrote its status. `NoOverdraft`: the entitlement admits one request but not two, so the second charge is the interesting case. |
| `LeaveBalances` | 1 request, 2 threads, 2 years, adjustments of one day up and down | `CarryoverWithinPolicy` with HR's and the assistant's adjustments racing approvals, cancellations and the carryover across the change of year. |
| `TempoCrashes` | 2 days, 1 thread, 4 worklog ids, every fault | `TypeOK` and `SyncedMeansInTempo` survive all of them (single worklogs do not: see below). Four ids let both days be posted twice. PATCHes write neither dates nor status here. |
| `TempoRefused` | 2 days, 1 thread, PATCHes of dates and status, refused calls and missing issue keys, fairness | `NoDuplicateWorklogs`, and `CancelledIsTakenBack`: a refused deletion is found by the retry command. The leave may be rejected, cancelled by the assistant, patched or deleted at any moment of a run. |
| `SignatureRaces` | 3 signer rows, 2 addresses, 2 threads, all calls | `StatusTellsSigners`, `OneSignerPerEmail`, `LogTellsSigners`, `NothingSignedWhenArchived`, refinement of `DocumentSigning`. Three rows allow a second request after a first. |
| `AssetCustody` | 2 assets, 2 assignments, 1 maintenance; one web client, one of web and assistant, or two racing web clients | `OneHolder` and `RecordsTellEvents` (a return its approval, a log its completion) while calls come one at a time, with PUTs that send any of an assignment's columns; `OneLogPerMaintenance` for two racing clients; `ReturnStays` for all. A PUT that writes the return columns checks nothing about them, so the assignments it wrote (`put`) are exempt. `MaxLogs = 2` leaves room for the second log that must not come. |
| `TimeEntries` | 2 entries, 1 worklog, 3 values of which one on a weekend, 2 threads | `StampsTellStatus` for every race of the web: no decision without its stamp. `EntriesFollowWorkflow` for one client at a time: source changes, imports and edits in any order leave an approved entry's content alone. |
| `Announcements` | 2 announcements, 2 threads, every fault, 2 instants, 3 attempts, five clients | `AnnouncedOnce`: recorded as told once by whatever races; posted once by calls that come one at a time; introduced once. `AnnouncedInTheEnd`: what is due is told and what is unsent is retried, under the fairness of section 6. |
| `Integrations` | 13 areas, about 50 clients: one thread with many calls, one with faults, two racing | `ConnectionPromises` (OAuth), `ImportPromises` (the three imports), `AnalyticsPromises` (analytics, leave and time reports), `FilePromises` (files, templates), `AssistantPromises` (turns, routing), `AccountPromises` (accounts, access to assets). |
| `People` | 11 areas, about 50 clients of the same three kinds | `StaffingPromises`, `ApplicationPromises`, `CareerPromises` (levels, CVs, roles), `BudgetPromises` (budgets, learning records), `ChecklistPromises`, `SurveyPromises`, `ReviewPromises` (reviews, notes, changes of learning records). |
| `LeaveRaceBalance` | 2 requests, 2 threads | The violation run: see below. |

`CHECK_DEADLOCK FALSE` is set for the leave runs, `AssetCustody`,
`Announcements`, `Integrations` and `People`: when every primary key is used,
every row decided or deleted and the last day reached, nothing more can be
called, which is the bound and not the program. The other four check deadlock:
in `SignatureRaces` it shows that nobody waits for ever for the lock, in
`TimeEntries` that some call is always left. In `Announcements`, where a
dispatch holds a lock too, `AnnouncedInTheEnd` would fail if it were kept.

Symmetry is used for requests, threads, worklog ids, signer keys, addresses,
assets, assignments, entries and the weekday values of an entry, which the
modules only compare for equality, and only in runs without liveness. The two
runs of many areas use none.

### The run that violates what the code says of itself

`LeaveRaceBalance`: two final approvals read the same balance; the second save
loses the first charge, although `core/models.py:2325` calls the column "Days
already used/approved". It is the finding in `PROJECT.json`.

### Further behaviour to reproduce

The models contain more deviations than there are runs for. Each is one change
of a configuration away:

* `NoLiveOverlap` or the lifecycle in `LeaveConcurrent`: two creations both pass
  the overlap check; a lead approval saves a copy loaded before the request was
  rejected or cancelled.
* `UsedMatchesApproved` in `LeaveSerial` with `MaxYear = 2`: approved in one
  year and cancelled in the next, the days go to the wrong year, or nowhere.
* Creation checks the balance in working days, the approval charges calendar
  days (`WorkingDays` against `TotalDays` in `LeaveWorkflow`).
* `NoDuplicateWorklogs` in `TempoRefused` with `"lost_reply"` or `"crash"` in
  `Faults`: the POST is sent again after a timeout or a restart.
* A day that failed in Tempo has an entry that no row links, and cancelling
  leaves it (`tempo_absence_sync_service.py:453`); a connection error while
  deleting leaves the row `synced`, so that no retry finds it (line 534, against
  `retry_tempo_absence_sync.py:7`; `CancelledIsTakenBack` with `"no_connection"`
  in `Faults`); and with two threads the approval's run goes on creating days
  behind the cancellation's (line 57).
* The assistant cancels an approved request and gives no days back
  (`core/ai/tools/__init__.py:4168`, against `leave_service.py:374`), and neither
  it nor a PATCH of the status nor a DELETE takes back what Tempo was told:
  `CancelledIsTakenBack` without `leave.enqueued`.
* A PATCH of `status` alone makes a request approved without the Tech Lead, a
  date or a charge: `ApprovalTrail` without `patched`.
* `SyncedMeansInTempo` in `TempoCrashes` with `Patches = {"dates"}` or
  `{"status"}`: a worker killed between deleting a worklog and saving its row
  leaves the row `synced`, for a day that is wanted again, or a leave that a PATCH
  revives.
* In `AssetCustody`, by changing `MCClients` or the guard of the property, or by
  taking `Regular` to be `LiveRows`: a PUT of `returned_at` or of
  `return_request_status` makes an asset come back without an approval, or
  approved without coming back (`RecordsTellEvents`, one client); a PUT that
  clears the return date re-activates an assignment without looking whether the
  asset was given away (`OneHolder`, one client); two racing assignments both
  find the asset free (`OneHolder`); a PUT or PATCH that races a return or a completion saves its old copy over it (`ReturnStays`, and a
  second log in `OneLogPerMaintenance`); a rejection decided on a stale copy
  leaves an asset returned and its request rejected (`RecordsTellEvents`); a
  cancellation that races a completion leaves a cancelled maintenance with a log
  (`RecordsTellEvents`); the assistant assigns without the check, completes a
  maintenance twice and cancels a completed one.
* In `TimeEntries`, `EntriesFollowWorkflow` without `OneAtATime`: an edit that
  loaded an entry before its approval saves the old copy over it, so the entry
  is un-approved; or it saves new content between two reviewers' loads and
  saves, and the content approved first is replaced. An import that read the
  entry before the approval does the same.
* `StampsTellStatus` without `PlainWeb`: PATCH and POST bodies may write
  `status`, which sets no stamp, and the assistant approves or rejects an entry
  of any status, a draft included (`core/ai/tools/__init__.py:4647`).
* `apply_source` clears the flag and answers "Applied source update to
  unapproved time entry.", but no code writes the `source_pending_update` it
  applies, so nothing changes (`ApplySource`). `accept_current` on an old copy
  takes off the flag of a newer change (`AcceptCurrent`).
* A worklog that changed into a duplicate of another entry is skipped by the
  preview, so the approved entry it belongs to is not flagged (`ImportPreview`).
* Imported entries may fall on a weekend. They are never submitted, and no edit
  is accepted that does not move them to a weekday (`ImportInsert`, `Submit`,
  `EditLoad`).
* A worklog whose deletion was fetched before its entry was deleted is imported
  again (`ImportInsert`).

Of the newer modules, by component. Each is what the code does; the clients of
the runs, or a premise such as `OneAtATime`, keep it apart from what is
promised.

* **Announcements.** An unscheduled announcement whose dispatch dies after the
  INSERT is never told; a stale edit resets `notifications_sent_at`; a rollback
  forgets posts and e-mails, and a lost answer or two retry commands post twice;
  two racing introductions introduce twice; the assistant notifies only when
  e-mails are asked for.
* **OAuth.** Any status of 400 or more on a refresh empties both tokens; a
  network error keeps a token that may have been rotated; the loser of two
  refreshes clears the winner's tokens; the fresh expiry is saved before the
  tokens are.
* **Imports.** The commit endpoint ignores the batch's `source_type`; a preview
  of a Jira batch turns SKIPPED into ERROR; commits of different batches can
  duplicate entries; a worklog of under 18 seconds, or one whose mapping became
  invalid after it was imported, is valid in the preview and makes the whole
  commit roll back; a synchronisation that begins at the day of the last one
  misses worklogs that are dated back or were not mapped then; errors of the
  feed of deleted worklogs are swallowed; Tempo is asked for 1000 worklogs and
  no second page; a deleted worklog is flagged again by every import; the commit
  accepts worklogs from the client.
* **Issue tasks.** Two imports of one Jira project wait on nothing but the
  unique keys: the loser rolls back. A mapping that was switched off gets a new
  project; PATCH of a mapping resets its name and switches it on.
* **Leave analytics and reports.** A rebuild that read first may write last; an
  exception of the rebuild prevents the Tempo synchronisation
  (`core/models.py:2496`); the departments report maps NULL and the empty text
  to "Unassigned", and the later row replaces the earlier; the export counts a
  leave of two months twice; `on_leave_today` counts home office and weekends,
  the availability does not; remaining vacation subtracts working days where
  approvals charge calendar days; the assistant's totals of a year ignore the
  department.
* **Time reports.** Who may approve a team but not view it has the team in the
  queue and may not open the weekly summary; the weekly allocation counts
  assignments that are ended and projects that are archived, the active
  allocations do not; the assistant's comparison leaves out employees with plans
  and no entries.
* **Files and templates.** With `AWS_S3_FILE_OVERWRITE = True`
  (`config/settings.py:216`) two documents may share a file; PATCH of a template
  resets what is not provided, although its docstring calls it partial; the
  assistant's update empties content and description likewise; a stale save
  revives a deleted template.
* **Assistant.** Two racing "yes" run a proposal twice, and a crash between the
  run and the clearing lets it run again; a message that clears the session
  wipes what was staged meanwhile; the agent's own tool can confirm without the
  user's yes; "yes, but no, wait" is taken for a yes, because veto words need
  spaces around them (`graph.py:168`); the retry loop around the agent never
  retries, since `agent.invoke` raises no `TransientAIError`.
* **Accounts.** Registration does not check the address: two users with one
  address lock both out of the login; every save of a user saves the profile, so
  that a sign-in that races an edit or a deletion undoes it.
* **Assets.** An asset the assistant has assigned to a second employee is listed
  for the first and opens only for the second; the queue of approvals may hold
  returned assignments.
* **Roles.** A permission taken from a role stays in the bitmaps copied from it;
  an "override" of NO rows only clears nothing; of two racing merges one is
  lost; of two permissions made at the same time one fails on its bit; deleting
  a role that is being assigned leaves a profile without role and with its bits.
* **Staffing.** Planning a future assignment completes the current one at once;
  assignments that start on one day overlap; whole-row saves race.
* **Time reports.** An assignment of 0 % or of no hours (`core/serializers.py:347`)
  leaves its week `unallocated` (`time_tracking_service.py:417`), while an entry on
  its project is told to be `allocated` (line 201): `UnallocatedTellsEntries`
  without its condition on the hours of the contexts.
* **Staffing.** A PATCH that sends dates with a new allocation of a running
  assignment splits it: the start asked for is ignored, and an end before today
  becomes none (`core/views.py:2191`). The runs have it; `PlannedOnce` and
  `PastIsKept` are not about calls that edit dates.
* **Training.** A course completed late counts in the year of `completed_at` but
  only the year of `training_date` is recomputed; the assistant's tool never
  recomputes; of two first spendings that race one is lost; of two racing edits of
  one entry each recomputes the years it has loaded, and the budget of a year
  the other has moved the entry to or from stays wrong. The theorem and the run
  have edits one at a time.
* **Learning records.** `employee_id` of a certificate is writable: the update
  that moves it away is answered 404 after it was saved; the assistant checks no
  dates; its filter of expiring certificates includes expired ones.
* **Applications, levels.** The assistant's tools go past the service and its
  transitions; the synchronisation never moves `career_level`, which a
  PATCH of the profile may also write alone, so that it stays beside another level
  until that is edited or defined again (`CareerFollowsLevel` without `by_hand`);
  deleting the last change leaves the level; the assistant's promotion sets a role without its
  permissions.
* **Reviews.** Reminders of a review that was moved or reassigned are still
  sent; PATCH to completed leaves `completed_at` empty; `ActionPointStatus` has
  no "done", so the assistant's "completed" sets no `completed_at`; a PATCH may
  make a note private or shared without a look at the rights to do so; a review
  in progress may show 100 %.
* **Checklists, surveys, CVs.** The assistant makes every task twice
  (`core/ai/tools/__init__.py:1017`); an answer that is refused has already
  deleted the earlier one (`core/views.py:11333`); two racing answers leave two;
  a deletion on the admin site that races two uploads leaves two current CVs.

## 6. Fairness

`TempoAbsenceSync` and `Announcements` state liveness. In the first, `FairSpec`
assumes, for each thread, weak fairness of `Progress` (a running Python thread
goes on, and Tempo's success is among the steps that may come), strong fairness
of `DropWorklog` for each day (a deletion that is asked for again and again is
accepted sometimes: a service that refuses for ever takes nothing back, whatever
the code does), and weak fairness of `RetryCommand` (the command is meant for a
scheduler). Nothing is assumed of users, administrators, faults or the switch.

`FairSpec` of `Announcements` assumes weak fairness of a thread that goes on,
strong fairness of each stage of a dispatch and of a retry (neither workers nor
transactions die there every time, although they may die any number of times)
and of both commands for each announcement (a scheduler runs them, and
`notify_due_announcements` and `retry_discord_announcement_deliveries` go
through all that is due). Nobody is assumed to publish, and Discord need not
accept: a post is retried until it is sent or the attempts are used up.

The other modules state safety only. Where something must be put right in the
end, the property says that the call which does it leaves it right
(`RebuildRepairs`, `ImportRepairs`, `SyncRepairs`), whatever was left before.

## 7. What is proved

All theorems hold for every value of the constants that satisfies the named
assumptions of the modules (`LeaveConstants`, `LeaveNulls`, `TempoConstants`,
`TempoNulls`, `SignatureNulls`, `CustodyConstants`, `CustodyNulls`,
`TimeConstants`, `TimeNulls`, `AnnouncementConstants`): numbers are natural,
ranges are pairs of days, and the null values differ from rows, keys and threads.
`MCPeople` leaves the sizes of the nine components that are proved about open
(its CONSTANTS from `Applicants` to `RoleFiles`), and its assumption
`ProvedConstants` says the same of them; the theorems about it are about any number
of applicants, entries, templates, questions, rows and threads, and about any set
of clients. `Integrations` composes seven components and leaves their sizes open in
the same way (from `Accounts` to `Colleague`); `MCIntegrations` extends it for the run.
One of its assumptions says more than a range: `MaxRounds > 0`, as langgraph has no
recursion limit below one.

Some theorems have a further hypothesis. `OneThread`, or `OneAtATime` for the
modules with `clients`, is "no call is interleaved with another": it is what the
unlocked code can promise at all. A call may still stop at any of its steps. The
other hypotheses name the calls or bodies with which the promise is false, and
are given with each theorem; the runs of section 5 satisfy them all.

`LeaveWorkflowProofs`:

* `LeaveTypeCorrect`: `Spec => []TypeOK`. Inductive with `JobOK`: what a thread
  holds has the shape of what it will write, and passed the check of its call.
  Without it a save could write anything.
* `ApprovalTrailHolds`: `Spec => []ApprovalTrail`, for all calls and any
  interleaving. `TrailInv` extends the trail to the *copies* held by threads,
  because the next save makes a copy the row; a copy of a row whose status a PATCH
  wrote (`patched`) owes nothing, and stays so.
* `NoOverdraftHolds`: if nobody adjusts a balance or carries days over, `Spec =>
  []NoOverdraft`. `OverdraftInv` adds that the balance copies of approving and
  cancelling threads are covered; `JobOK` holds the check `remaining >= days`. A
  stale copy is thus safe to save, although it may lose another charge, and that
  is exactly the difference between this theorem and the violation
  `LeaveRaceBalance`. The assumption is needed: HR may lower an allocation below
  what is used.
* `CarryoverWithinPolicyHolds`: `Spec => []CarryoverWithinPolicy`, for all calls
  and any interleaving. `CarryoverInv` extends the policy to the held copies.
* `NoLiveOverlapHolds`: `OneThread` and no PATCH (which moves and revives
  requests unchecked). `SerialInv`: a held row is the row of the table, and the
  request about to be inserted shares no day with a live one.
* `UsedMatchesApprovedHolds` and `ServicesImplementLifecycle`: `SerialYear`, that
  is `OneThread`, one year, and none of the calls that write past the services
  (PATCH, DELETE, `ai_cancel`, `ai_adjust`). `LedgerInv`: the used days are the
  *number* of approved days, and the balance an approval or a cancellation has
  read is the one recorded. A sum over a set of requests cannot be proved about
  here, so the approved days are a set of pairs (request, day) and the proofs use
  its cardinality: `GrantAdds` and `RevokeSubtracts` say what one request does to
  it. The refinement maps every step to a step of `LeaveLifecycle` or a stutter,
  with `charged` and `used` as in section 4.

`TempoAbsenceSyncProofs`:

* `TempoTypeCorrect`: for any number of threads, days and ids, with every fault.
  `TempoInv` adds `Fits`: a day that is worked on has a row that is held, and what
  is to be saved names a worklog.
* `SyncedMeansInTempoHolds`: `OneThread` and PATCHes that write neither dates nor
  status (`Patches = {}`); every fault and every other writer of the leave is
  allowed. `SyncedInv`: while the leave is neither cancelled nor deleted, each
  synced day is mirrored by its worklog and its entry, and a thread that is about to save has
  posted what it saves. When dates move, a day leaves the request before its row is
  taken back, and two synchronisations of one leave delete under each other.
* `NoDuplicateWorklogsHolds`: `OneThread` and `Reliable` (no lost answer, no dead
  worker); refused calls and every writer of the leave are allowed. `KnownInv`:
  each worklog of Tempo is named by a row or by a thread about to save it, so that
  nothing is posted twice. Either fault leaves a worklog that nobody knows of; so
  does a DELETE during a run, after which no run comes (`AbandonedInv`).

`DocumentSignaturesProofs`: `SignaturesTypeCorrect`, `StatusTellsSignersHolds`,
`OneSignerPerEmailHolds`, `LogTellsSignersHolds`,
`NothingSignedWhenArchivedHolds` and the refinement `SignaturesImplementSigning`,
for any number of threads and without a hypothesis. The inductive invariant
`SignatureInv` has one idea, `CopiesAreCurrent`: only the holder of the lock is
past `Lock`, and what it read is still what is stored. From it every service acts
on the current table, and each step is a step of `DocumentSigning` or a stutter.
`LogInv` adds that nothing is logged of a primary key that is still free: a new
signer does not inherit the words of another.

`AssetCustodyProofs`:

* `CustodyTypeCorrect`: `Spec => []TypeOK`, inductive with the shape of the
  copies in `job`.
* `ReturnStaysHolds`: if a client that PUTs assignments calls alone
  (`PutsAlone`), `Spec => ReturnStays`, the assistant and any number of threads
  included. The strengthening, `PutInv`, is that a whole copy that will be saved
  sets the return, or is a PUT's and no older than the row.
* `OneLogPerMaintenanceHolds`: if nobody reschedules, `Spec =>
  []OneLogPerMaintenance`. `LogInv` is the lock discipline: only the holder of
  the lock completes, what it read under the lock is still stored, and a plan
  that may be completed has no log yet.
* `OneHolderHolds`: `HolderInv` extends exclusiveness to what an assignment or a
  PUT has checked and not yet written; a PUT that sends no return column keeps
  the holder, and one that does leaves a row the property exempts. The property
  itself is about one web client.
* `RecordsTellEventsHolds`: `EventsInv`: the held copies agree too, and a call
  that edits or cancels the plan saw it without a log.

`TimeEntriesProofs`:

* `TimeTypeCorrect`: `Spec => []TypeOK`, inductive with the shape of `job`.
* `StampsTellStatusHolds`: `Spec => []StampsTellStatus`, for any number of
  threads. `StampInv` says that not only the rows but the whole copies that
  threads hold are stamped: a stale copy may undo a decision, but it undoes the
  stamp with it. Saving only the changed columns would break this, as the
  mutation `ApproveFields` shows.
* `EntriesFollowWorkflowHolds`: `Spec => EntriesFollowWorkflow`, the action
  property. `FollowInv`: of one web client the copy it decides on, or writes an
  import over, is the row itself, and the one it edits has the row's status.

`AnnouncementsProofs`: `AnnouncedOnceHolds`, `Spec => []AnnouncedOnce`, whose
three parts have an invariant each, over types and locks (`AnnInv`): `ToldInv`
(what was told is marked, and who holds the lock has not told), `PostInv` (what
was posted is recorded as sent, or by a thread that will record it) and `IntroInv`
(the one introduction is the profile's). Each part carries the clients for which
it is true, as in the property.

`PeopleProofs`: what nine components of `MCPeople` promise, of which each theorem
states a property of the run `People`. Every component keeps the clients what they
are (one lemma each, `ClientsStay`), so that from an initial state in an area
nothing but that area's component takes a step, and an invariant of the component
is one of the composition.

* `ChecklistsKeepPromises`: `Spec => []ChecklistPromises`. `TasksInv`: a task that a
  thread still owes to a checklist is not there yet, only one thread owes to a
  checklist, and each task is there or owed. `AssignedInv`: the template a call that
  is alone is about to assign is not assigned.
* `ApplicationsKeepPromises`: `Spec => ApplicationPromises`, the action property
  `DecisionStands` included. `ApplicationInv`: not only rows but the copies that
  reviewers hold tell a decision just when their status is final; a stale copy may
  take a decision back, but mark and status go together. `CopyInv`, of one call at a
  time: the copy is the row, so that the transition table is asked about what is
  stored.
* `SurveysKeepPromises`: `Spec => SurveyPromises`, with both of its action
  properties. `ResponseInv`: between the deletion of an earlier response and the
  insertion of the new one there is none of the respondent, and a survey that is gone
  has none at all.
* `BudgetsKeepPromises`: `Spec => []BudgetPromises`, in two parts. Training:
  `UsedInv` says that a budget which does not tell its entries is *owed* by a thread
  that is yet to recompute its year, and that only one thread at a time holds a sum of
  a year; `AlertInv` that a mark which is out of date is owed too, and that the use it
  will be compared with does not change any more. What an entry costs is a set of
  units, one for each unit of cost, so that a sum is a cardinality and no fold
  (`SumEntryCosts`); `OtherSums`, `SameSums` and `SumBound` are the lemmas about it.
  Learning records: `RecordInv` says that what an update under way *will save* is in
  order, since it looks at one of the dates only and saves a copy that others may have
  changed meanwhile.
* `StaffingKeepsPromises`: `Spec => StaffingPromises`, the action property
  `PastIsKept` included, while nobody edits the dates of assignments beside another
  thread (`DatesEditedAlone`). The hypothesis is needed: an insertion closes the rows
  it has read by the starts they had then, and a start that is moved between its two
  statements can come after the end that the second one writes. `OrderInv`: rows and copies alike end
  after they start, copies of one row agree on its start, and what an insertion is
  about to close begins before it. `ApartInv`, of one call at a time and insertions in
  the order of starts: of two assignments one ends before the other begins, every copy
  is its row, and an insertion under way has found just the rows it overlaps.
  `PastStays` needs the types only: a split writes a row
  that begins today, and an old one that ends yesterday.
* `CareersKeepPromises`: `Spec => CareerPromises`, in three parts, with the action
  properties `SyncRepairs` and `LosesOnlyNamed`. Levels: `LatestInv` and `FollowsInv`
  say that a profile which does not have the latest level, or the career level of its
  level, is *owed* it by the thread that is yet to synchronise or to cascade, or has a
  career level that was last written by itself (`by_hand`), and
  `ProfileCurrent`, of one call at a time, that every copy is the profile; permissions
  that nobody overrides are those of the role in every copy as well (`RoleInv`), which
  is why this holds whatever races. CVs: as long as nothing is deleted no number is
  left out (`NumberedInv`), so that an upload whose number is still free has seen the
  current version, and the one that loses the race for its number inserts nothing; with
  deletions, of one call at a time, what an upload is about to replace is what is current
  (`UploadInv`). Roles: `BitInv` says that the bits of known permissions are 1 to their
  number, each with one permission, so that a number that was read before an insertion is
  taken or still the next, and a bitmap says the same as a set of permissions;
  `DrawnInv` and `GivenInv` follow bits into the copies of profiles that are yet to be
  saved; `FileInv`, of one call at a time, says which roles of a file are decided and that
  a role read for a merge is still what was read.

`IntegrationsProofs`: what the seven components of `Integrations` promise, along the
same lines; three of its theorems state a property of the run `Integrations`. They are
about `Spec` of that module, in which the data of the seven stay as they are while a
client of another component is served (`Elsewhere`), whatever its threads do. The run's
`MCSpec` adds six components whose steps are conjoined with `Elsewhere`, so that each of
its behaviours is one of `Spec`.

* `AccountsKeepPromises`: `Spec => []AccountPromises`, in two parts. Accounts:
  `SigningInv` says that user and profile have their columns' types and that no two
  users share a name, whatever races; that a free name is found is a pigeonhole
  argument, over one more name than there are accounts. `SoleInv`, of one call at a
  time: user and profile agree unless the call is between its two saves, and the copy a call
  has read is what is stored. Assets: the views and tools compute what a user may see
  by different queries, which are compared in every state of `LookingInv`, with
  `CurrentIsActive`: an asset has a current assignment just when one is active, and
  the current one is among those.
* `ConnectionsKeepPromises`: `Spec => ConnectionPromises`, `DisconnectedStays`
  included. `OAuthInv`: of a user and of a Jira account there is one connection, and a
  thread holds a key and tokens that were issued. `CurrentInv`, of one call at a time
  and a provider that answers: a stored refresh token is accepted, *or* the call under
  way is about to store the one that is; and two connections never share a token, so
  that rotating one costs no other. `MappingInv`, of one call at a time: an account is
  mapped to its user, or the call under way is about to say so.
* `FilesKeepPromises`: `Spec => FilePromises`, in two parts, with the action
  properties `BulkDeletionIsWhole` and `ArchivedUntilRestored` of it. Files:
  `InsertsApart`, however calls race: an upload that is yet to insert its row is the
  only one that knows the key, and there is no row with it, so that no insert can
  bring an archived document back. `FollowInv`, of one call at a time in a storage
  that neither fails nor overwrites: a file has its row, *or* the upload under way is
  about to insert it; a row has its file, *or* the deletion under way has removed it
  and is about to delete the row. Templates: `NameInv`, of one call at a time: a name
  that was validated is still free when it is saved. `CloseInv`, of one call at a time
  whose authors ask for every placeholder: a content is covered by the required fields
  of its template, or by those and what the call under way is still to write
  (`JobCloses`). That a clone asks for each field of its source once is a fact about
  surjections between finite sets of one size (`ClonedFields`).
* `AssistantAsksFirst`: `TypeOK`, `RunOnce`, `AskedBeforeRun` and `OverNeverRuns` of
  `AssistantTurns`, which is all that `AssistantPromises` says of it. `TurnsInv` says
  what the session, the screen and a turn may hold; `TurnsSerial`, of one turn at a
  time without faults, that what waits or runs is not over (`NotOver`), has not run
  since it was staged (`NotRun`), and was shown (`Seen`).
* `AssistantAnswers`: `TypeOK`, `ModelCallsBounded`, `AskedIfStaged`,
  `NamedToolDecides` and `AnsweredOnce` of `AssistantRouting`. `RoutingInv` counts the
  model calls of each stage against what the stages to come may add to them;
  `RoutingSerial`, of one turn at a time, says that the answer about to be given asks
  for what waits and that the last message is the one without an answer.
  `PromptIsRecent`, the rest of `AssistantPromises`, is about a fold.

Checked by TLC only (every invariant of a run is proved; what follows are temporal
properties, most of them conjunctions of what several components promise):

* liveness (`CancelledIsTakenBack`, `AnnouncedInTheEnd`) and what is ENABLED,
  which are out of the prover's reach;
* what is computed by folds and recursive functions over data, which is induction
  over data: `PromptIsRecent` of `AssistantPromises`, and most of `ImportPromises`
  (the scores of mappings), `AnalyticsPromises` (the reports) and `ReviewPromises`.

## 8. What is left out

* Mail and notifications that no state depends on: sent after the fact, failures
  are swallowed, nothing reads them back.
* Several employees in the modules of one employee, and the balances of several
  leave types: their rows are disjoint, and no lock or constraint spans them.
* The access rules and queries of documents, ZIP and CSV exports, and
  `create_new_version`, which has no caller.
* Pulse checks, suggestions and the analytics of surveys; comments, reactions,
  read marks and the deletion of a channel of announcements; the org chart;
  celebrations: single rows and queries over them.
* Compensation: figures over rows that are only read.
* The recreation of assignments by a profile update
  (`core/serializers.py:1564`).
* Tokens, passwords and tenants, which are the framework's; seeding commands;
  pages of the admin site that write one row by hand.
* Encryption of stored tokens, wording of answers, layout of exports and PDFs,
  the entities that are cut out of chat messages, presigned links.
* The move of a budget to another year by a PATCH of `fiscal_year`
  (`core/serializers.py:4620`): `TrainingBudgets` names a budget by its year. The
  update recomputes the year the budget has then, as every other does.
* Rounding to a hundredth of an hour, and row-lock waits during an import of
  issues.
* The order and the limit of the retry command of absences: it is run again.
* In `PerformanceReviews` and `LearningRecords`, several reads of one call, and
  in `RolePermissions` the read and write of one `set()`, are one step where
  nothing in between can tell them apart in what is checked.
