------------------------------ MODULE MCPeople ------------------------------
(***************************************************************************)
(* What the company keeps about its people, in one run.  The components    *)
(* share no rows, so that a client works with one of them: the area of its *)
(* record.                                                                 *)
(***************************************************************************)
EXTENDS WebThreads, TLC
CONSTANTS t1, t2, k1, k2, k3, x, y, u1, u2, q1, q2, e, Deleted
\* Primary keys and names of the components that PeopleProofs is about.
CONSTANTS Applicants, Entries, Years, Templates, Titles, Instances, Users, Questions, Responses,
          Staff, Records, LastDay, Assignments, LastPlanned, Levels, CareerNames, RoleNames,
          MaxChanges, LastEffective, MaxVersion, PermissionNames, Holders, DefaultPermissions,
          SuperAdmin, RoleFiles
VARIABLES assignment, project, today, listing, application, told,
          profile, change, definition, logged, entry, budget, alerts, template, instance,
          survey, question, response, review, reminder, history, now, cv,
          bit, permitted, holder,
          round, remark, point, file, events, shown,
          record, status, date
staffing == <<assignment, project, today>>
jobs == <<listing, application, told>>
careers == <<profile, change, definition, logged>>
training == <<entry, budget, alerts>>
checklists == <<template, instance>>
surveys == <<survey, question, response>>
reviews == <<review, reminder, history, now>>
cvs == <<cv>>
roles == <<bit, permitted, holder>>
remarks == <<round, remark, point, file, events, shown>>
learning == <<record, status, date>>
vars == <<staffing, jobs, careers, training, checklists, surveys, reviews, cvs, roles, remarks,
          learning, job, clients>>

Staffing == INSTANCE ProjectStaffing WITH LastDay <- LastPlanned
Jobs == INSTANCE JobApplications
Careers == INSTANCE CareerLevels WITH
  Careers <- CareerNames, Roles <- RoleNames, LastDay <- LastEffective
Training == INSTANCE TrainingBudgets
Checks == INSTANCE Checklists
Polls == INSTANCE Surveys
Reviews == INSTANCE PerformanceReviews WITH Reviewers <- {u1}, Employee <- e, LastDay <- 2
CVs == INSTANCE EmployeeCVs
Row(r, p, yes, operation) == [role |-> r, permission |-> p, yes |-> yes, operation |-> operation]
Sheets == { {Row(x, k2, TRUE, "add"), Row(y, k1, TRUE, "add")},
            {Row(x, k2, TRUE, "merge"), Row(x, k1, FALSE, "merge"), Row(x, k3, TRUE, "add")},
            {Row(y, k3, TRUE, "override"), Row(y, k2, TRUE, "merge"), Row(x, k2, TRUE, "remove")},
            {Row(x, k1, FALSE, "override"), Row(x, k3, TRUE, "merge"), Row(y, k2, TRUE, "override")} }
Access == INSTANCE RolePermissions WITH
  profile <- holder, Permissions <- PermissionNames, Roles <- RoleNames, Profiles <- Holders,
  Defaults <- DefaultPermissions, Files <- RoleFiles
Notes == INSTANCE ReviewNotes WITH
  review <- round, note <- remark, history <- events,
  Employee <- e, Reviewer <- u1, Manager <- u2, Contents <- {x, y}, MaxNotes <- 2, Gone <- Deleted
Learning == INSTANCE LearningRecords WITH today <- date

ASSUME ProvedConstants ==
  /\ Jobs!ApplicationConstants /\ Training!TrainingConstants /\ Checks!ChecklistConstants
  /\ Polls!SurveyConstants /\ Learning!RecordConstants /\ Staffing!StaffingConstants
  /\ Careers!CareerConstants /\ CVs!CVConstants /\ Access!RoleConstants
ASSUME Reviews!ReviewConstants /\ Notes!NoteConstants

Client(a, T, C, F) == [area |-> a, threads |-> T, calls |-> C, faults |-> F]
StaffingClient(T, C, A) ==
  [area |-> "staffing", threads |-> T, calls |-> C, faults |-> {}, assignments |-> A]
TrainingClient(T, C, F, A) ==
  [area |-> "training", threads |-> T, calls |-> C, faults |-> F, allocations |-> A]
SurveyClient(T, C, U, Q, S) ==
  [area |-> "surveys", threads |-> T, calls |-> C, faults |-> {}, users |-> U, questions |-> Q,
   statuses |-> S]
\* S and V: the statuses and reviewers that forms send, O and D: their reminders and days.
ReviewClient(T, C, F, S, V, O, D) ==
  [area |-> "reviews", threads |-> T, calls |-> C, faults |-> F,
   rows |-> [status : S, scheduled_date : D, reviewer : V, offset : O]]
RoleClient(T, C, F, S, P, B) ==
  [area |-> "roles", threads |-> T, calls |-> C, faults |-> F, files |-> S, sets |-> P,
   bitmaps |-> B]
\* E, R and M: the rights of the employee, the reviewer and the manager.
NoteClient(T, C, F, N, E, R, M) ==
  [area |-> "notes", threads |-> T, calls |-> C, faults |-> F, notes |-> N,
   rights |-> (e :> E @@ u1 :> R @@ u2 :> M)]
RecordClient(T, C, K, R) ==
  [area |-> "records", threads |-> T, calls |-> C, faults |-> {}, kinds |-> K, rows |-> R]
MCClients ==
  { StaffingClient({t1}, {"insert", "patch", "end", "delete", "project", "delete_project"},
                 {k1, k2}),
    StaffingClient({t1}, {"insert", "end"}, {k1, k2, k3}),
    StaffingClient({t1}, {"insert_any", "dates", "patch"}, {k1, k2}),
    StaffingClient({t1, t2}, {"insert", "delete"}, {k1, k2}),
    Client("jobs", {t1}, {"apply", "update", "withdraw", "listing", "delete"}, {}),
    Client("jobs", {t1, t2}, {"apply", "update", "withdraw", "listing", "delete"},
                 {"rollback"}),
    Client("jobs", {t1}, {"apply", "update", "withdraw", "listing", "delete", "ai_apply",
                 "ai_update", "ai_withdraw"}, {}),
    Client("careers", {t1}, {"create", "edit", "delete", "role", "permissions", "define"}, {}),
    Client("careers", {t1}, {"create", "edit", "delete", "profile"}, {"crash"}),
    Client("careers", {t1}, {"profile", "role", "permissions", "define"}, {}),
    Client("careers", {t1}, {"create", "ai_promotion", "ai_change", "command"}, {}),
    Client("careers", {t1, t2}, {"profile", "role"}, {}),
    TrainingClient({t1}, {"create", "edit", "delete", "allocate", "change", "me"}, {}, {2, 4}),
    TrainingClient({t1}, {"create", "edit", "delete", "allocate", "change", "drop", "me"},
                 {}, {0, 2}),
    TrainingClient({t1}, {"create", "late", "delete"}, {"crash"}, {2}),
    TrainingClient({t1}, {"create", "ai_create"}, {"crash"}, {2}),
    TrainingClient({t1, t2}, {"create", "change", "me"}, {}, {2}),
    Client("checklists", {t1}, {"assign", "task", "remove", "template", "delete_template"}, {}),
    Client("checklists", {t1}, {"assign", "ai_assign"}, {"crash"}),
    Client("checklists", {t1, t2}, {"assign", "remove", "delete_template"}, {}),
    Client("checklists", {t1, t2}, {"template", "delete_template"}, {}),
    SurveyClient({t1}, {"submit", "edit", "questions", "close", "recall", "delete", "wait"},
                 {u1, u2}, {q1, q2}, {"draft", "active", "closed"}),
    SurveyClient({t1, t2}, {"submit", "edit"}, {u1}, {q1}, {"active", "closed"}),
    SurveyClient({t1, t2}, {"edit", "questions", "delete"}, {u1}, {q1}, {"draft", "closed"}),
    ReviewClient({t1}, {"create", "update", "list", "read", "wait"}, {},
                 {"scheduled", "cancelled"}, {u1}, {TRUE}, {1}),
    ReviewClient({t1}, {"create", "update", "list", "wait", "delete", "status"}, {},
                 {"scheduled", "completed", "in_progress"}, {u1, Nil}, BOOLEAN, {1}),
    ReviewClient({t1}, {"create", "status", "delete", "list", "wait", "ai_schedule", "ai_close"},
                 {"crash"}, {"scheduled"}, {u1}, {FALSE}, {1, 2}),
    ReviewClient({t1, t2}, {"create", "list", "read", "wait"}, {}, {"scheduled"}, {Nil}, {TRUE}, {1}),
    ReviewClient({t1, t2}, {"create", "status", "list", "read"}, {}, {"scheduled"}, {Nil}, {TRUE}, {1}),
    ReviewClient({t1, t2}, {"create", "status", "list", "delete"}, {}, {"scheduled"}, {Nil}, {TRUE}, {1}),
    ReviewClient({t1, t2}, {"create", "update", "delete"}, {}, {"scheduled"}, {Nil}, {TRUE}, {1}),
    ReviewClient({t1}, {"create", "update", "list", "wait"}, {}, {"scheduled"}, {u1}, {FALSE}, {1, 2}),
    Client("cvs", {t1}, {"upload", "delete"}, {"crash"}),
    Client("cvs", {t1, t2}, {"upload"}, {"crash"}),
    Client("cvs", {t1, t2}, {"upload", "delete"}, {}),
    RoleClient({t1}, {"load", "join", "bitmap", "role", "update", "create"}, {},
               {}, {{k2}}, {{3, 4}}),
    RoleClient({t1}, {"upload", "superuser", "role", "admin_delete"}, {},
               {f \in Sheets : \E row \in f : row.operation # "add"}, {}, {}),
    RoleClient({t1}, {"upload", "load", "join", "role", "edit", "create", "delete", "setup"}, {"crash"},
               {{Row(x, k2, TRUE, "add"), Row(y, k1, TRUE, "add")}}, {{k1, k3}}, {}),
    RoleClient({t1, t2}, {"upload", "join", "role", "delete"}, {},
               {{Row(x, k2, TRUE, "merge"), Row(x, k1, FALSE, "merge"), Row(x, k3, TRUE, "add")}}, {}, {}),
    RoleClient({t1, t2}, {"join", "edit", "create", "role", "delete"}, {}, {}, {{k1}}, {}),
    RoleClient({t1, t2}, {"load", "join", "setup"}, {}, {}, {}, {}),
    NoteClient({t1}, {"note", "edit", "review"}, {}, {1},
               {"initiate_self_review", "view_own_reviews"},
               {"add_private_feedback", "add_shared_feedback", "schedule_reviews"},
               {"view_team_reviews"}),
    NoteClient({t1}, {"note", "edit", "delete"}, {}, {1, 2}, {"initiate_self_review"},
               {"add_private_feedback", "schedule_reviews"}, {"view_team_reviews", "profiles"}),
    NoteClient({t1}, {"point", "delete", "attach", "review"}, {}, {},
               {"attach_documents"}, {"create_review_direct_report"},
               {"view_team_reviews", "create_review_direct_report"}),
    NoteClient({t1}, {"ai_note", "ai_point", "note", "attach"}, {"crash"}, {1},
               {"initiate_self_review"}, {"edit_delete_reviews"}, {"profiles", "attach_documents"}),
    NoteClient({t1, t2}, {"note", "edit", "delete"}, {}, {1},
               {"initiate_self_review", "view_own_reviews"},
               {"add_private_feedback", "add_shared_feedback", "schedule_reviews"}, {}),
    RecordClient({t1}, {"create", "ai_create", "update", "delete", "wait"}, {"training"}, {k1}),
    RecordClient({t1}, {"create", "update", "wait"}, {"certificate"}, {k1, k2}),
    RecordClient({t1}, {"ai_create", "create", "update", "delete"}, {"registration", "session"},
                 {k1, k2}),
    RecordClient({t1, t2}, {"create", "update", "wait"}, {"training"}, {k1}) }

Init ==
  Begin /\ Staffing!Start /\ Jobs!Start /\ Careers!Start /\ Training!Start /\ Checks!Start
  /\ Polls!Start /\ Reviews!Start /\ CVs!Start /\ Access!Start /\ Notes!Start /\ Learning!Start
Next ==
  \/ /\ clients.area = "staffing" /\ Staffing!Next
     /\ UNCHANGED <<jobs, careers, training, checklists, surveys, reviews, cvs, roles,
                    remarks, learning>>
  \/ /\ clients.area = "jobs" /\ Jobs!Next
     /\ UNCHANGED <<staffing, careers, training, checklists, surveys, reviews, cvs, roles,
                    remarks, learning>>
  \/ /\ clients.area = "careers" /\ Careers!Next
     /\ UNCHANGED <<staffing, jobs, training, checklists, surveys, reviews, cvs, roles,
                    remarks, learning>>
  \/ /\ clients.area = "training" /\ Training!Next
     /\ UNCHANGED <<staffing, jobs, careers, checklists, surveys, reviews, cvs, roles,
                    remarks, learning>>
  \/ /\ clients.area = "checklists" /\ Checks!Next
     /\ UNCHANGED <<staffing, jobs, careers, training, surveys, reviews, cvs, roles,
                    remarks, learning>>
  \/ /\ clients.area = "surveys" /\ Polls!Next
     /\ UNCHANGED <<staffing, jobs, careers, training, checklists, reviews, cvs, roles,
                    remarks, learning>>
  \/ /\ clients.area = "reviews" /\ Reviews!Next
     /\ UNCHANGED <<staffing, jobs, careers, training, checklists, surveys, cvs, roles,
                    remarks, learning>>
  \/ /\ clients.area = "cvs" /\ CVs!Next
     /\ UNCHANGED <<staffing, jobs, careers, training, checklists, surveys, reviews, roles,
                    remarks, learning>>
  \/ /\ clients.area = "roles" /\ Access!Next
     /\ UNCHANGED <<staffing, jobs, careers, training, checklists, surveys, reviews, cvs,
                    remarks, learning>>
  \/ /\ clients.area = "notes" /\ Notes!Next
     /\ UNCHANGED <<staffing, jobs, careers, training, checklists, surveys, reviews, cvs,
                    roles, learning>>
  \/ /\ clients.area = "records" /\ Learning!Next
     /\ UNCHANGED <<staffing, jobs, careers, training, checklists, surveys, reviews, cvs,
                    roles, remarks>>
Spec == Init /\ [][Next]_vars

\* What each component promises, its type invariant among it; the parts are stated
\* and explained in its module.

\* ProjectStaffing: no day is planned for twice, and a change of the allocation
\* leaves what was worked before it.
StaffingPromises ==
  /\ [](clients.area = "staffing" => Staffing!TypeOK /\ Staffing!PlannedOnce)
  /\ Staffing!PastIsKept

\* JobApplications: however reviewers and applicants race, an application is marked
\* as decided just when its status is final and the applicant knows the status; one
\* call at a time, a decision stands.
ApplicationPromises ==
  /\ [](clients.area = "jobs" =>
          Jobs!TypeOK /\ Jobs!DecisionTellsStatus /\ Jobs!ApplicantKnows)
  /\ Jobs!DecisionStands

\* CareerLevels, EmployeeCVs and RolePermissions: the level of a profile is that of the
\* latest change, in whatever order changes are recorded, and what an earlier call has
\* left is put right by the next; history, career level (unless it was last written by
\* itself) and permissions follow; of racing uploads of a CV the latest is current; the
\* ways in which rights are read agree, nobody keeps what no role gives, and a file of
\* permissions does what its rows say.
CareerPromises ==
  /\ [](clients.area = "careers" =>
          /\ Careers!TypeOK /\ Careers!LevelIsLatest /\ Careers!HistoryTellsLevel
          /\ Careers!CareerFollowsLevel /\ Careers!PermissionsFollowRole)
  /\ Careers!SyncRepairs
  /\ [](clients.area = "cvs" => CVs!TypeOK /\ CVs!LatestIsCurrent)
  /\ [](clients.area = "roles" =>
          /\ Access!TypeOK /\ Access!BitmapTellsRights /\ Access!RightsFollowRole
          /\ Access!FileDecides)
  /\ Access!LosesOnlyNamed

\* TrainingBudgets: once racing calls have ended a budget tells what its entries cost,
\* and every crossing of the threshold was alerted once.  LearningRecords: dates stay in
\* order whatever races, only the assistant plans, and lists agree.
BudgetPromises ==
  /\ clients.area = "training" =>
       Training!TypeOK /\ Training!UsedTellsEntries /\ Training!AlertedPerCrossing
  /\ clients.area = "records" =>
       /\ Learning!TypeOK /\ Learning!DatesInOrder /\ Learning!PlannedByAssistant
       /\ Learning!ListsAgree

\* Checklists: a template is assigned once, and whatever dies, no task is made twice
\* and none is missing from a checklist whose call has ended.
ChecklistPromises ==
  clients.area = "checklists" => Checks!TypeOK /\ Checks!AssignedOnce /\ Checks!TasksOnce

\* Surveys: nobody has two named responses, an edit loses no answer to a question it
\* keeps, and a response goes only for a new one of its respondent.
SurveyPromises ==
  /\ [](clients.area = "surveys" => Polls!TypeOK /\ Polls!OneResponseEach)
  /\ Polls!KeptQuestionsKeepAnswers /\ Polls!OnlyReplacedGo

\* PerformanceReviews: the history of a review ends with its status, a reminder is
\* sent once, and who lists them has everybody concerned told of a late review.
\* ReviewNotes: private words are shared on purpose only, the history tells what is
\* attached to a review, the ways to it agree, and its progress does not fall.
\* LearningRecords: who has changed a row is shown it.
ReviewPromises ==
  /\ [](clients.area = "reviews" => Reviews!TypeOK /\ Reviews!HistoryTellsStatus)
  /\ Reviews!RemindedOnce /\ Reviews!ListTellsOverdue
  /\ [](clients.area = "notes" =>
          Notes!TypeOK /\ Notes!HistoryTellsItems /\ Notes!WaysAgree)
  /\ Notes!PublishedOnPurpose /\ Notes!ProgressGrows
  /\ Learning!ChangeIsAnswered
=============================================================================
