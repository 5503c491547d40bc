---------------------------- MODULE PeopleProofs ----------------------------
(***************************************************************************)
(* Theorems about the components of MCPeople, for any threads and clients  *)
(* and any number of rows: the promises of Checklists, JobApplications,    *)
(* Surveys, TrainingBudgets, LearningRecords, ProjectStaffing,             *)
(* CareerLevels, EmployeeCVs and RolePermissions, which each component     *)
(* keeps while clients work with it, since nothing else writes its rows.   *)
(***************************************************************************)
EXTENDS MCPeople, Naturals, Sequences, FiniteSetTheorems, TLAPS

-----------------------------------------------------------------------------
(* One area at a time: a run's clients stay what they are, so that nothing *)
(* but the component of their area takes steps.                            *)

LEMMA StaffingKeepsClients == Staffing!Next => UNCHANGED clients
BY Zenon DEF Staffing!Next, Staffing!NextDay, Staffing!Insert, Staffing!CloseOverlapping,
  Staffing!Load, Staffing!Patch, Staffing!PatchDates, Staffing!End, Staffing!Delete,
  Staffing!SetProject, Staffing!DeleteProject

LEMMA JobsKeepsClients == Jobs!Next => UNCHANGED clients
BY DEF Jobs!Next, Jobs!LoadListing, Jobs!Apply, Jobs!Load, Jobs!Transition, Jobs!Withdraw,
  Jobs!AssistantUpdate, Jobs!AssistantWithdraw, Jobs!SetListing, Jobs!DeleteListing,
  Jobs!Write, Jobs!Refuse

LEMMA CareersKeepsClients == Careers!Next => UNCHANGED clients
BY Zenon DEF Careers!Next, Careers!WriteChange, Careers!Sync, Careers!Crash, Careers!Load,
  Careers!SaveProfile, Careers!UpdateRole, Careers!UpdatePermissions, Careers!Define,
  Careers!Cascade, Careers!Record, Careers!Command

LEMMA TrainingKeepsClients == Training!Next => UNCHANGED clients
BY SMTT(30) DEF Training!Next, Training!Create, Training!AssistantCreate, Training!LoadEntry,
  Training!Edit, Training!Delete, Training!Sum, Training!SaveUsed,
  Training!MaybeNotifyThreshold, Training!Crash, Training!Allocate, Training!LoadBudget,
  Training!Change, Training!Drop, Training!Me

LEMMA ChecksKeepsClients == Checks!Next => UNCHANGED clients
BY DEF Checks!Next, Checks!LoadTemplate, Checks!Insert, Checks!ReadTitles,
  Checks!MakeTask, Checks!Crash, Checks!UpdateTask, Checks!Remove, Checks!EditTemplate,
  Checks!DeleteTemplate

LEMMA PollsKeepsClients == Polls!Next => UNCHANGED clients
BY Zenon DEF Polls!Next, Polls!Submit, Polls!ClearEarlier, Polls!Validate, Polls!Persist,
  Polls!EditLoad, Polls!EditSave, Polls!UpsertQuestions, Polls!PruneQuestions,
  Polls!AddQuestion, Polls!Close, Polls!Recall, Polls!LoadDelete, Polls!Delete, Polls!Wait

LEMMA ReviewsKeepsClients == Reviews!Next => UNCHANGED clients
BY DEF Reviews!Next, Reviews!Create, Reviews!Load, Reviews!Update, Reviews!UpdateStatus,
  Reviews!Log, Reviews!Delete, Reviews!AssistantSchedule, Reviews!AssistantClose,
  Reviews!Materialize, Reviews!Ensure, Reviews!Mark, Reviews!MarkRead, Reviews!Crash,
  Reviews!Wait

LEMMA CVsKeepsClients == CVs!Next => UNCHANGED clients
BY DEF CVs!Next, CVs!Upload, CVs!ReplaceCurrent, CVs!Insert, CVs!Delete, CVs!Crash

LEMMA AccessKeepsClients == Access!Next => UNCHANGED clients
BY DEF Access!Next, Access!Load, Access!Insert, Access!Upload, Access!ReadRow,
  Access!ApplyRole, Access!Merge, Access!CreateRole, Access!UpdateRole, Access!DeleteRole,
  Access!DeleteChecked, Access!AdminDelete, Access!Join, Access!EditProfile, Access!Save,
  Access!SetUp, Access!Promote, Access!Crash

LEMMA NotesKeepsClients == Notes!Next => UNCHANGED clients
BY Zenon DEF Notes!Next, Notes!AddNote, Notes!LoadNote, Notes!SaveNote, Notes!DeleteNote,
  Notes!AssistantNote, Notes!AddPoint, Notes!LoadPoint, Notes!SavePoint,
  Notes!DeletePoint, Notes!AssistantAddPoint, Notes!AssistantSetPoint, Notes!Attach,
  Notes!Detach, Notes!Log, Notes!Crash, Notes!ChangeReview

LEMMA LearningKeepsClients == Learning!Next => UNCHANGED clients
BY DEF Learning!Next, Learning!Create, Learning!LogPeerSession,
  Learning!RegisterForConference, Learning!CreateTrainingEntry, Learning!Load,
  Learning!Save, Learning!Answer, Learning!Delete, Learning!NextDay, Learning!Logs

LEMMA ClientsStay == [Next]_vars => UNCHANGED clients
BY StaffingKeepsClients, JobsKeepsClients, CareersKeepsClients, TrainingKeepsClients,
   ChecksKeepsClients, PollsKeepsClients, ReviewsKeepsClients, CVsKeepsClients, AccessKeepsClients, NotesKeepsClients, LearningKeepsClients
   DEF Next, vars

LEMMA StaffingStep ==
  ASSUME [Next]_vars
  PROVE  IF clients.area = "staffing" THEN [Staffing!Next]_Staffing!vars ELSE UNCHANGED staffing
BY DEF Next, vars, staffing, Staffing!vars

LEMMA CVsStep ==
  ASSUME [Next]_vars
  PROVE  IF clients.area = "cvs" THEN [CVs!Next]_CVs!vars ELSE UNCHANGED cvs
BY DEF Next, vars, cvs, CVs!vars

LEMMA CareersStep ==
  ASSUME [Next]_vars
  PROVE  IF clients.area = "careers" THEN [Careers!Next]_Careers!vars ELSE UNCHANGED careers
BY DEF Next, vars, careers, Careers!vars

LEMMA AccessStep ==
  ASSUME [Next]_vars
  PROVE  IF clients.area = "roles" THEN [Access!Next]_Access!vars ELSE UNCHANGED roles
BY DEF Next, vars, roles, Access!vars

LEMMA ChecklistsStep ==
  ASSUME [Next]_vars
  PROVE  IF clients.area = "checklists" THEN [Checks!Next]_Checks!vars ELSE UNCHANGED checklists
BY DEF Next, vars, checklists, Checks!vars

-----------------------------------------------------------------------------
(* Checklists.  A checklist whose call has not ended is worked at by one   *)
(* thread, which owes it the tasks that are missing: TasksInv says which.  *)
(* AssignedInv adds that a call which is about to insert a checklist has   *)
(* found none.                                                             *)

Working == {"read", "tasks"}
Editing == {"template", "titles"}
ChecklistJobs ==
  {Checks!Idle}
  \cup [call : {"insert"}, key : {Nil}, row : [template : Templates, tool : BOOLEAN]]
  \cup [call : {"read"}, key : Instances, row : Templates]
  \cup [call : {"tasks"}, key : Instances, row : SUBSET Titles]
  \cup [call : Editing, key : Templates, row : {Nil}]

\* The tasks the thread has yet to make.
Owes(j, z) == j.call = "read" \/ (j.call = "tasks" /\ z \in j.row)

\* A job is its client's, and what it owes to a checklist is not there yet.
ChecklistFits(j, i) ==
  /\ j.call = "insert" /\ j.row.tool => "ai_assign" \in clients.calls
  /\ j.call \in Editing => "template" \in clients.calls
  /\ j.call \in Working /\ i[j.key] # Nil =>
       \A z \in Titles : Owes(j, z) => i[j.key].tasks[z].count = 0

ChecklistJobInv ==
  /\ job \in [Threads -> ChecklistJobs]
  /\ \A t \in Threads : ChecklistFits(job[t], instance)
  /\ \A t, u \in Threads :
       job[t].call \in Working /\ job[u].call \in Working /\ job[t].key = job[u].key => t = u

CountsOnce ==
  "ai_assign" \notin clients.calls =>
    \A i \in Checks!Live : \A z \in Titles : instance[i].tasks[z].count <= 1

Undisturbed ==
  /\ "ai_assign" \notin clients.calls /\ "template" \notin clients.calls
  /\ clients.faults = {}

\* Every task is there or owed.
Complete ==
  Undisturbed =>
    /\ \A p \in Templates : template[p] \in {Titles, Nil}
    /\ \A i \in Checks!Live :
         /\ template[instance[i].template] # Nil
         /\ \A t \in Threads :
              job[t].call = "read" /\ job[t].key = i => job[t].row = instance[i].template
         /\ \A z \in Titles :
              \/ instance[i].tasks[z].count = 1
              \/ \E t \in Threads : job[t].key = i /\ Owes(job[t], z)

TasksInv == Checks!TypeOK /\ ChecklistJobInv /\ CountsOnce /\ Complete

AssignedInv ==
  /\ \A t \in Threads : job[t] # Checks!Idle => t \in clients.threads
  /\ Checks!OneAtATime /\ "ai_assign" \notin clients.calls =>
       /\ \A i, j \in Checks!Live : instance[i].template = instance[j].template => i = j
       /\ \A t \in Threads, i \in Checks!Live :
            job[t].call = "insert" => instance[i].template # job[t].row.template

-----------------------------------------------------------------------------
(* Rows and jobs.                                                          *)

LEMMA ChecklistInit ==
  ASSUME Checks!ChecklistConstants, Checks!Init
  PROVE  TasksInv /\ AssignedInv
<1>1. \A t \in Threads : job[t] = Checks!Idle
  BY DEF Checks!Init, Checks!Begin
<1>2. job \in [Threads -> ChecklistJobs]
  BY DEF Checks!Init, Checks!Begin, ChecklistJobs
<1>3. Checks!Live = {}
  BY DEF Checks!Init, Checks!Start, Checks!Live
<1>4. Checks!TypeOK
  BY <1>3 DEF Checks!Init, Checks!Start, Checks!TypeOK
<1>5. ChecklistJobInv
  BY <1>1, <1>2 DEF ChecklistJobInv, ChecklistFits, Checks!Idle, Working, Editing
<1>6. CountsOnce /\ Complete
  BY <1>3 DEF CountsOnce, Complete, Checks!Init, Checks!Start
<1>7. AssignedInv
  BY <1>1, <1>3 DEF AssignedInv, Checks!Idle
<1> QED
  BY <1>4, <1>5, <1>6, <1>7 DEF TasksInv

\* A row that exists, and what rows its tasks can be changed to.
LEMMA LiveRow ==
  ASSUME Checks!TypeOK, NEW i \in Checks!Live
  PROVE  /\ i \in Instances /\ instance[i] \in Checks!Rows
         /\ instance[i].template \in Templates
         /\ instance[i].tasks \in [Titles -> Checks!Tasks]
         /\ \A z \in Titles : instance[i].tasks[z].done = instance[i].tasks[z].completed_at
BY DEF Checks!TypeOK, Checks!Live, Checks!Rows

LEMMA TaskRows ==
  ASSUME NEW task \in Checks!Tasks, NEW done \in BOOLEAN
  PROVE  /\ task.count \in 0..2
         /\ Checks!Completed(task, done) \in Checks!Tasks /\ Checks!Completed(task, done).count = task.count
         /\ Checks!Completed(task, done).done = Checks!Completed(task, done).completed_at
         /\ Checks!OneMore(task).count = task.count + 1
         /\ Checks!OneMore(task).done = Checks!OneMore(task).completed_at
         /\ task.count <= 1 => Checks!OneMore(task) \in Checks!Tasks
BY DEF Checks!Tasks, Checks!Completed, Checks!OneMore

LEMMA ToolTasks ==
  ASSUME NEW titles \in SUBSET Titles
  PROVE  LET made == Checks!WithTasks(Checks!WithTasks(Checks!NoTasks, titles), titles) IN
         /\ made \in [Titles -> Checks!Tasks]
         /\ \A z \in Titles : made[z].done = made[z].completed_at
<1> DEFINE once == Checks!WithTasks(Checks!NoTasks, titles)
           twice == Checks!WithTasks(once, titles)
<1>1. /\ Checks!NoTask \in Checks!Tasks /\ Checks!NoTask.count = 0 /\ Checks!NoTask.done = Checks!NoTask.completed_at
  BY DEF Checks!NoTask, Checks!Tasks
<1>2. Checks!OneMore(Checks!NoTask) \in Checks!Tasks /\ Checks!OneMore(Checks!NoTask).count = 1
  BY DEF Checks!NoTask, Checks!OneMore, Checks!Tasks
<1>3. \A z \in Titles : once[z] = IF z \in titles THEN Checks!OneMore(Checks!NoTask) ELSE Checks!NoTask
  BY DEF Checks!WithTasks, Checks!NoTasks
<1>4. \A z \in Titles :
        twice[z] = IF z \in titles THEN Checks!OneMore(Checks!OneMore(Checks!NoTask)) ELSE Checks!NoTask
  BY <1>3 DEF Checks!WithTasks
<1>5. Checks!OneMore(Checks!OneMore(Checks!NoTask)) \in Checks!Tasks
      /\ Checks!OneMore(Checks!OneMore(Checks!NoTask)).done = Checks!OneMore(Checks!OneMore(Checks!NoTask)).completed_at
  BY DEF Checks!NoTask, Checks!OneMore, Checks!Tasks
<1>6. twice \in [Titles -> Checks!Tasks]
  BY <1>1, <1>4, <1>5 DEF Checks!WithTasks
<1> QED
  BY <1>1, <1>4, <1>5, <1>6

LEMMA NoTasksYet ==
  /\ Checks!NoTasks \in [Titles -> Checks!Tasks]
  /\ \A z \in Titles : Checks!NoTasks[z].count = 0 /\ Checks!NoTasks[z].done = Checks!NoTasks[z].completed_at
<1>1. Checks!NoTask \in Checks!Tasks /\ Checks!NoTask.count = 0 /\ Checks!NoTask.done = Checks!NoTask.completed_at
  BY DEF Checks!NoTask, Checks!Tasks
<1> QED
  BY <1>1 DEF Checks!NoTasks

\* A row is written whose tasks are in their range.
LEMMA RowWritten ==
  ASSUME Checks!ChecklistConstants, Checks!TypeOK, NEW i \in Instances, NEW p \in Templates,
         NEW tasks \in [Titles -> Checks!Tasks],
         \A z \in Titles : tasks[z].done = tasks[z].completed_at,
         instance' = [instance EXCEPT ![i] = [template |-> p, tasks |-> tasks]],
         UNCHANGED template
  PROVE  /\ Checks!TypeOK' /\ Checks!Live' = Checks!Live \cup {i}
         /\ instance'[i].template = p /\ instance'[i].tasks = tasks
         /\ \A k \in Instances \ {i} : instance'[k] = instance[k]
<1>1. [template |-> p, tasks |-> tasks] \in Checks!Rows /\ Nil \notin Checks!Rows
  BY DEF Checks!Rows, Checks!ChecklistConstants
<1>2. /\ instance'[i] = [template |-> p, tasks |-> tasks]
      /\ \A k \in Instances \ {i} : instance'[k] = instance[k]
      /\ instance' \in [Instances -> Checks!Rows \cup {Nil}]
  BY <1>1 DEF Checks!TypeOK
<1>3. Checks!Live' = Checks!Live \cup {i}
  BY <1>1, <1>2 DEF Checks!Live
<1> QED
  BY <1>2, <1>3 DEF Checks!TypeOK

-----------------------------------------------------------------------------
(* What is owed, step by step.                                             *)

\* A thread goes on to k, and the rows stay as they are for the others.
LEMMA JobStep ==
  ASSUME ChecklistJobInv, NEW t \in Threads, NEW k \in ChecklistJobs,
         job' = [job EXCEPT ![t] = k], UNCHANGED clients,
         ChecklistFits(k, instance'),
         \A u \in Threads \ {t} : ChecklistFits(job[u], instance'),
         k.call \in Working =>
           \A u \in Threads \ {t} : job[u].call \in Working => job[u].key # k.key
  PROVE  ChecklistJobInv'
<1>1. /\ job' \in [Threads -> ChecklistJobs] /\ job'[t] = k
      /\ \A u \in Threads \ {t} : job'[u] = job[u]
  BY DEF ChecklistJobInv
<1>2. \A u \in Threads : ChecklistFits(job'[u], instance')
  BY <1>1
<1>3. \A u, v \in Threads :
        job'[u].call \in Working /\ job'[v].call \in Working /\ job'[u].key = job'[v].key => u = v
  BY <1>1 DEF ChecklistJobInv
<1> QED
  BY <1>1, <1>2, <1>3 DEF ChecklistJobInv, ChecklistFits

LEMMA IdleJob ==
  ASSUME NEW i
  PROVE  Checks!Idle \in ChecklistJobs /\ Checks!Idle.call \notin Working /\ Checks!Idle.call = "none" /\ ChecklistFits(Checks!Idle, i)
         /\ \A z : ~Owes(Checks!Idle, z)
BY DEF Checks!Idle, ChecklistJobs, ChecklistFits, Working, Editing, Owes

\* No row changes, and what the thread owed to one that is there it still owes.
LEMMA RowsStay ==
  ASSUME TasksInv, NEW t \in Threads, NEW k \in ChecklistJobs,
         job' = [job EXCEPT ![t] = k], UNCHANGED <<template, instance, clients>>,
         ChecklistFits(k, instance), k.call # "read",
         k.call \in Working => job[t].call \in Working /\ k.key = job[t].key,
         \A z \in Titles :
           Owes(job[t], z) => \/ Owes(k, z) /\ k.key = job[t].key
                              \/ job[t].key \notin Checks!Live \/ ~Undisturbed
  PROVE  TasksInv'
<1>1. ChecklistJobInv'
  BY JobStep DEF TasksInv, ChecklistJobInv
<1>2. Checks!TypeOK' /\ CountsOnce'
  BY DEF TasksInv, Checks!TypeOK, CountsOnce, Checks!Live
<1>3. Complete'
  <2> SUFFICES ASSUME Undisturbed PROVE Complete'
    BY DEF Complete, Undisturbed
  <2>1. /\ job \in [Threads -> ChecklistJobs] /\ job'[t] = k
        /\ \A u \in Threads \ {t} : job'[u] = job[u]
    BY DEF TasksInv, ChecklistJobInv
  <2>2. \A i \in Checks!Live :
          /\ template[instance[i].template] # Nil
          /\ \A u \in Threads :
               job'[u].call = "read" /\ job'[u].key = i => job'[u].row = instance[i].template
    BY <2>1 DEF TasksInv, Complete, Working
  <2>3. ASSUME NEW i \in Checks!Live, NEW z \in Titles
        PROVE  \/ instance[i].tasks[z].count = 1
               \/ \E u \in Threads : job'[u].key = i /\ Owes(job'[u], z)
    <3> SUFFICES ASSUME instance[i].tasks[z].count # 1
                 PROVE  \E u \in Threads : job'[u].key = i /\ Owes(job'[u], z)
      OBVIOUS
    <3>1. PICK u \in Threads : job[u].key = i /\ Owes(job[u], z)
      BY DEF TasksInv, Complete
    <3>2. CASE u # t
      BY <3>1, <3>2, <2>1
    <3>3. CASE u = t
      BY <3>1, <3>3, <2>1
    <3> QED
      BY <3>2, <3>3
  <2> QED
    BY <2>2, <2>3 DEF TasksInv, Complete, Checks!Live, Owes
<1> QED
  BY <1>1, <1>2, <1>3 DEF TasksInv

LEMMA LoadTemplateTasks ==
  ASSUME Checks!ChecklistConstants, TasksInv, NEW t \in Threads, Checks!LoadTemplate(t)
  PROVE  TasksInv'
<1>1. PICK c \in {"assign", "ai_assign"}, p \in Templates :
        /\ Checks!Free(t, c) /\ template[p] # Nil
        /\ Checks!Take(t, "insert", Nil, [template |-> p, tool |-> c = "ai_assign"])
  BY DEF Checks!LoadTemplate
<1> DEFINE k == [call |-> "insert", key |-> Nil, row |-> [template |-> p, tool |-> c = "ai_assign"]]
<1>2. k \in ChecklistJobs /\ k.call \notin Working /\ ChecklistFits(k, instance)
  BY <1>1 DEF ChecklistJobs, Working, ChecklistFits, Editing, Checks!Free
<1>3. job[t] = Checks!Idle /\ job' = [job EXCEPT ![t] = k] /\ k.call # "read"
  BY <1>1 DEF Checks!Free, Checks!Take
<1> HIDE DEF k
<1> QED
  BY <1>2, <1>3, RowsStay, IdleJob DEF Checks!LoadTemplate

LEMMA CrashTasks ==
  ASSUME Checks!ChecklistConstants, TasksInv, NEW t \in Threads, Checks!Crash(t)
  PROVE  TasksInv'
<1>1. clients.faults # {} /\ job' = [job EXCEPT ![t] = Checks!Idle]
      /\ UNCHANGED <<template, instance, clients>>
  BY DEF Checks!Crash, Checks!Fault, Checks!Done
<1> QED
  BY <1>1, RowsStay, IdleJob DEF Undisturbed

\* An edited template disturbs what its checklists are owed.
LEMMA EditTemplateTasks ==
  ASSUME Checks!ChecklistConstants, TasksInv, NEW t \in Threads, Checks!EditTemplate(t)
  PROVE  TasksInv'
<1>1. /\ UNCHANGED <<instance, clients>> /\ "template" \in clients.calls
      /\ \E k \in ChecklistJobs : /\ k.call \notin Working /\ ChecklistFits(k, instance)
                                  /\ job' = [job EXCEPT ![t] = k]
      /\ template' \in [Templates -> (SUBSET Titles) \cup {Nil}]
  <2>1. CASE /\ Checks!Free(t, "template")
             /\ \E p \in Templates : template[p] # Nil /\ Checks!Take(t, "template", p, Nil)
             /\ UNCHANGED template
    <3>1. PICK p \in Templates : Checks!Take(t, "template", p, Nil)
      BY <2>1
    <3> DEFINE k == [call |-> "template", key |-> p, row |-> Nil]
    <3>2. k \in ChecklistJobs /\ k.call \notin Working /\ ChecklistFits(k, instance)
      BY <2>1 DEF ChecklistJobs, Working, ChecklistFits, Editing, Checks!Free
    <3> QED
      BY <2>1, <3>1, <3>2 DEF Checks!Take, Checks!Free, Checks!EditTemplate, TasksInv, Checks!TypeOK
  <2>2. CASE /\ Checks!At(t, "template")
             /\ template' = [template EXCEPT ![job[t].key] = {}]
             /\ Checks!Take(t, "titles", job[t].key, Nil)
    <3>1. job[t].key \in Templates /\ "template" \in clients.calls
      BY <2>2 DEF Checks!At, TasksInv, ChecklistJobInv, ChecklistFits, ChecklistJobs, Checks!Idle, Editing
    <3> DEFINE k == [call |-> "titles", key |-> job[t].key, row |-> Nil]
    <3>2. k \in ChecklistJobs /\ k.call \notin Working /\ ChecklistFits(k, instance)
      BY <3>1 DEF ChecklistJobs, Working, ChecklistFits, Editing
    <3> QED
      BY <2>2, <3>1, <3>2 DEF Checks!Take, Checks!EditTemplate, TasksInv, Checks!TypeOK
  <2>3. CASE /\ Checks!At(t, "titles")
             /\ \E z \in SUBSET Titles :
                  template' = [template EXCEPT ![job[t].key] = IF @ = Nil THEN Nil ELSE z]
             /\ Checks!Done(t)
    <3>1. job[t].key \in Templates /\ "template" \in clients.calls
      BY <2>3 DEF Checks!At, TasksInv, ChecklistJobInv, ChecklistFits, ChecklistJobs, Checks!Idle, Editing
    <3> QED
      BY <2>3, <3>1, IdleJob, ZenonT(30) DEF Checks!Done, Checks!EditTemplate, TasksInv, Checks!TypeOK
  <2> QED
    BY <2>1, <2>2, <2>3 DEF Checks!EditTemplate
<1>2. ChecklistJobInv'
  <2>1. PICK k \in ChecklistJobs : /\ k.call \notin Working /\ ChecklistFits(k, instance)
                                   /\ job' = [job EXCEPT ![t] = k]
    BY <1>1
  <2> QED
    BY <1>1, <2>1, JobStep DEF TasksInv, ChecklistJobInv
<1>3. Checks!TypeOK' /\ CountsOnce' /\ Complete'
  BY <1>1 DEF TasksInv, Checks!TypeOK, CountsOnce, Complete, Undisturbed, Checks!Live
<1> QED
  BY <1>2, <1>3 DEF TasksInv

LEMMA ReadTitlesTasks ==
  ASSUME Checks!ChecklistConstants, TasksInv, NEW t \in Threads, Checks!ReadTitles(t)
  PROVE  TasksInv'
<1> DEFINE i == job[t].key
           titles == template[job[t].row]
<1>1. /\ job[t].call = "read" /\ i \in Instances /\ job[t].row \in Templates
      /\ UNCHANGED <<template, instance, clients>>
      /\ \A z : Owes(job[t], z)
  BY DEF Checks!ReadTitles, Checks!At, TasksInv, ChecklistJobInv, ChecklistJobs, Checks!Idle, Editing, Owes
<1>2. titles \in (SUBSET Titles) \cup {Nil}
  BY <1>1 DEF TasksInv, Checks!TypeOK
<1>3. Undisturbed /\ i \in Checks!Live => titles = Titles /\ titles # Nil
  BY <1>1 DEF TasksInv, Complete
<1>4. CASE titles \in {Nil, {}}
  <2>1. job' = [job EXCEPT ![t] = Checks!Idle]
    BY <1>4 DEF Checks!ReadTitles, Checks!Done
  <2> QED
    BY <1>1, <1>3, <1>4, <2>1, RowsStay, IdleJob
<1>5. CASE titles \notin {Nil, {}}
  <2> DEFINE k == [call |-> "tasks", key |-> i, row |-> titles]
  <2>1. job' = [job EXCEPT ![t] = k] /\ k \in ChecklistJobs /\ k.call \in Working /\ k.call # "read"
        /\ k.key = i /\ k.row = titles /\ k.call = "tasks"
    BY <1>1, <1>2, <1>5 DEF Checks!ReadTitles, Checks!Take, ChecklistJobs, Working
  <2> HIDE DEF k
  <2>2. ChecklistFits(k, instance)
    BY <1>1, <2>1 DEF TasksInv, ChecklistJobInv, ChecklistFits, Working, Editing
  <2>3. \A z \in Titles : i \in Checks!Live /\ Undisturbed => Owes(k, z)
    BY <1>3, <2>1 DEF Owes
  <2> QED
    BY <1>1, <2>1, <2>2, <2>3, RowsStay DEF Working
<1> QED
  BY <1>4, <1>5

\* Jobs with other keys do not see that the row of i is written.
LEMMA OthersFit ==
  ASSUME ChecklistJobInv, NEW u \in Threads, NEW i, NEW rows,
         job[u].call \in Working => job[u].key # i,
         \A j \in Instances \ {i} : rows[j] = instance[j]
  PROVE  ChecklistFits(job[u], rows)
<1>1. job[u].call \in Working => job[u].key \in Instances
  BY DEF ChecklistJobInv, ChecklistJobs, Checks!Idle, Editing, Working
<1> QED
  BY <1>1 DEF ChecklistJobInv, ChecklistFits

LEMMA InsertTasks ==
  ASSUME Checks!ChecklistConstants, TasksInv, NEW t \in Threads, Checks!Insert(t)
  PROVE  TasksInv'
<1> DEFINE p == job[t].row.template
<1>1. /\ job[t].call = "insert" /\ p \in Templates /\ UNCHANGED <<template, clients>>
      /\ job[t].row.tool => "ai_assign" \in clients.calls
      /\ \A z : ~Owes(job[t], z)
      /\ job \in [Threads -> ChecklistJobs]
  BY DEF Checks!Insert, Checks!At, TasksInv, ChecklistJobInv, ChecklistFits, ChecklistJobs, Checks!Idle, Editing, Owes
<1>2. CASE template[p] = Nil
  <2>1. job' = [job EXCEPT ![t] = Checks!Idle] /\ UNCHANGED instance
    BY <1>2 DEF Checks!Insert, Checks!Done
  <2> QED
    BY <1>1, <2>1, RowsStay, IdleJob
<1>3. CASE template[p] # Nil
  <2> DEFINE made == Checks!WithTasks(Checks!WithTasks(Checks!NoTasks, template[p]), template[p])
             tasks == IF job[t].row.tool THEN made ELSE Checks!NoTasks
  <2>1. PICK i \in Instances :
          /\ Checks!Unused(i)
          /\ instance' = [instance EXCEPT ![i] = [template |-> p, tasks |-> tasks]]
          /\ IF job[t].row.tool THEN Checks!Done(t) ELSE Checks!Take(t, "read", i, p)
    BY <1>3 DEF Checks!Insert
  <2>2. tasks \in [Titles -> Checks!Tasks] /\ \A z \in Titles : tasks[z].done = tasks[z].completed_at
    <3>1. template[p] \in SUBSET Titles
      BY <1>1, <1>3 DEF TasksInv, Checks!TypeOK
    <3> QED
      BY <3>1, ToolTasks, NoTasksYet
  <2>3. ~job[t].row.tool => \A z \in Titles : tasks[z].count = 0
    BY NoTasksYet
  <2> HIDE DEF tasks
  <2>4. /\ Checks!TypeOK' /\ Checks!Live' = Checks!Live \cup {i}
        /\ instance'[i].template = p /\ instance'[i].tasks = tasks
        /\ \A k \in Instances \ {i} : instance'[k] = instance[k]
    <3>1. Checks!TypeOK /\ UNCHANGED template
      BY <1>1 DEF TasksInv
    <3> HIDE DEF p
    <3> QED
      BY <1>1, <2>1, <2>2, <3>1, RowWritten, Zenon
  <2> DEFINE k == IF job[t].row.tool THEN Checks!Idle ELSE [call |-> "read", key |-> i, row |-> p]
  <2>5. /\ job' = [job EXCEPT ![t] = k] /\ k \in ChecklistJobs
        /\ k.call \in Working => k.key = i
        /\ k.call = "read" => k.row = p
        /\ ~job[t].row.tool => k.key = i /\ \A z : Owes(k, z)
        /\ ChecklistFits(k, instance')
    <3>1. CASE job[t].row.tool
      BY <3>1, <2>1, IdleJob DEF Checks!Done
    <3>2. CASE ~job[t].row.tool
      BY <3>2, <1>1, <2>1, <2>3, <2>4 DEF Checks!Take, ChecklistJobs, Owes, ChecklistFits, Editing
    <3> QED
      BY <3>1, <3>2
  <2> HIDE DEF k
  <2>6. \A u \in Threads : job[u].key # i
    BY <2>1 DEF Checks!Unused
  <2>7. ChecklistJobInv'
    <3>1. \A u \in Threads \ {t} : ChecklistFits(job[u], instance')
      BY <2>4, <2>6, OthersFit DEF TasksInv
    <3> QED
      BY <1>1, <2>5, <2>6, <3>1, JobStep DEF TasksInv
  <2>8. CountsOnce'
    BY <1>1, <2>3, <2>4 DEF TasksInv, CountsOnce, Checks!Live
  <2>9. Complete'
    <3> SUFFICES ASSUME Undisturbed PROVE Complete'
      BY <1>1 DEF Complete, Undisturbed
    <3>1. ~job[t].row.tool
      BY <1>1 DEF Undisturbed
    <3>2. job'[t] = k /\ \A u \in Threads \ {t} : job'[u] = job[u]
      BY <1>1, <2>5
    <3>3. ASSUME NEW l \in Checks!Live'
          PROVE  /\ template[instance'[l].template] # Nil
                 /\ \A u \in Threads :
                      job'[u].call = "read" /\ job'[u].key = l
                        => job'[u].row = instance'[l].template
                 /\ \A z \in Titles :
                      \/ instance'[l].tasks[z].count = 1
                      \/ \E u \in Threads : job'[u].key = l /\ Owes(job'[u], z)
      <4>1. CASE l = i
        BY <4>1, <1>3, <2>4, <2>5, <2>6, <3>1, <3>2
      <4>2. CASE l # i
        <5>1. l \in Checks!Live /\ instance'[l] = instance[l]
          BY <4>2, <2>4 DEF Checks!Live
        <5>2. \A z \in Titles :
                (\E u \in Threads : job[u].key = l /\ Owes(job[u], z))
                => \E u \in Threads : job'[u].key = l /\ Owes(job'[u], z)
          BY <1>1, <3>2
        <5> QED
          BY <4>2, <5>1, <5>2, <3>2, <2>5 DEF TasksInv, Complete, Working
      <4> QED
        BY <4>1, <4>2
    <3> QED
      BY <1>1, <3>3 DEF TasksInv, Complete, Owes
  <2> QED
    BY <2>4, <2>7, <2>8, <2>9 DEF TasksInv
<1> QED
  BY <1>2, <1>3

LEMMA MakeTaskTasks ==
  ASSUME Checks!ChecklistConstants, TasksInv, NEW t \in Threads, Checks!MakeTask(t)
  PROVE  TasksInv'
<1> DEFINE i == job[t].key
<1>1. /\ job[t].call = "tasks" /\ i \in Instances /\ job[t].row \in SUBSET Titles
      /\ UNCHANGED <<template, clients>> /\ job \in [Threads -> ChecklistJobs]
      /\ \A z : Owes(job[t], z) <=> z \in job[t].row
  BY DEF Checks!MakeTask, Checks!At, TasksInv, ChecklistJobInv, ChecklistJobs, Checks!Idle, Editing, Owes
<1>2. CASE /\ i \notin Checks!Live \/ ("template" \in clients.calls /\ ~Checks!OneAtATime)
           /\ Checks!Done(t) /\ UNCHANGED instance
  <2>1. job' = [job EXCEPT ![t] = Checks!Idle]
    BY <1>2 DEF Checks!Done
  <2> QED
    BY <1>1, <1>2, <2>1, RowsStay, IdleJob DEF Undisturbed
<1>3. CASE i \in Checks!Live /\ ~(/\ "template" \in clients.calls /\ ~Checks!OneAtATime
                                   /\ Checks!Done(t) /\ UNCHANGED instance)
  <2>1. PICK z \in job[t].row :
          /\ instance' = [instance EXCEPT ![i] = Checks!Changed(@, Checks!WithTasks(@.tasks, {z}))]
          /\ IF job[t].row = {z} THEN Checks!Done(t) ELSE Checks!Take(t, "tasks", i, job[t].row \ {z})
    BY <1>3 DEF Checks!MakeTask
  <2> DEFINE old == instance[i].tasks
             tasks == Checks!WithTasks(old, {z})
             p == instance[i].template
  <2>2. /\ p \in Templates /\ old \in [Titles -> Checks!Tasks] /\ z \in Titles
        /\ \A w \in Titles : old[w].done = old[w].completed_at
        /\ \A w \in job[t].row : old[w].count = 0
    BY <1>1, <1>3, LiveRow DEF TasksInv, ChecklistJobInv, ChecklistFits, Working, Checks!Live
  <2>3. /\ tasks \in [Titles -> Checks!Tasks] /\ tasks[z].count = 1
        /\ \A w \in Titles \ {z} : tasks[w] = old[w]
        /\ \A w \in Titles : tasks[w].done = tasks[w].completed_at
    <3>1. /\ Checks!OneMore(old[z]) \in Checks!Tasks /\ Checks!OneMore(old[z]).count = 1
          /\ Checks!OneMore(old[z]).done = Checks!OneMore(old[z]).completed_at
      BY <2>2 DEF Checks!OneMore, Checks!Tasks
    <3>2. \A w \in Titles : tasks[w] = IF w = z THEN Checks!OneMore(old[w]) ELSE old[w]
      BY SMTT(30) DEF Checks!WithTasks
    <3>3. tasks \in [Titles -> Checks!Tasks]
      BY <2>2, <3>1 DEF Checks!WithTasks
    <3> QED
      BY <2>2, <3>1, <3>2, <3>3, Zenon
  <2>4. instance' = [instance EXCEPT ![i] = [template |-> p, tasks |-> tasks]]
    BY <2>1 DEF Checks!Changed
  <2> HIDE DEF tasks
  <2>5. /\ Checks!TypeOK' /\ Checks!Live' = Checks!Live \cup {i}
        /\ instance'[i].template = p /\ instance'[i].tasks = tasks
        /\ \A k \in Instances \ {i} : instance'[k] = instance[k]
    <3>1. Checks!TypeOK /\ UNCHANGED template
      BY <1>1 DEF TasksInv
    <3> HIDE DEF p, i
    <3> QED
      BY <1>1, <2>2, <2>3, <2>4, <3>1, RowWritten, Zenon
  <2> DEFINE k == IF job[t].row = {z} THEN Checks!Idle
                  ELSE [call |-> "tasks", key |-> i, row |-> job[t].row \ {z}]
  <2>6. /\ job' = [job EXCEPT ![t] = k] /\ k \in ChecklistJobs /\ k.call # "read"
        /\ k.call \in Working => k.key = i
        /\ \A w : Owes(k, w) => w \in job[t].row \ {z}
        /\ \A w \in job[t].row \ {z} : k.key = i /\ Owes(k, w)
    <3>1. CASE job[t].row = {z}
      BY <3>1, <2>1, IdleJob DEF Checks!Done
    <3>2. CASE job[t].row # {z}
      <4>1. job[t].row \ {z} \in SUBSET Titles
        BY <1>1
      <4> QED
        BY <3>2, <4>1, <1>1, <2>1 DEF Checks!Take, ChecklistJobs, Owes
    <3> QED
      BY <3>1, <3>2
  <2>7. ChecklistFits(k, instance')
    <3>1. CASE job[t].row = {z}
      BY <3>1, IdleJob
    <3>2. CASE job[t].row # {z}
      BY <3>2, <2>2, <2>3, <2>5, <1>1 DEF ChecklistFits, Owes, Working, Editing
    <3> QED
      BY <3>1, <3>2
  <2> HIDE DEF k
  <2>8. \A u \in Threads \ {t} : job[u].call \in Working => job[u].key # i
    BY <1>1 DEF TasksInv, ChecklistJobInv, Working
  <2>9. ChecklistJobInv'
    <3>1. \A u \in Threads \ {t} : ChecklistFits(job[u], instance')
      <4>1. ChecklistJobInv
        BY DEF TasksInv
      <4> HIDE DEF i
      <4> QED
        BY <2>5, <2>8, <4>1, OthersFit
    <3> QED
      BY <1>1, <2>6, <2>7, <2>8, <3>1, JobStep DEF TasksInv
  <2>10. CountsOnce'
    BY <1>1, <1>3, <2>2, <2>3, <2>5 DEF TasksInv, CountsOnce, Checks!Live
  <2>11. Complete'
    <3> SUFFICES ASSUME Undisturbed PROVE Complete'
      BY <1>1 DEF Complete, Undisturbed
    <3>1. job'[t] = k /\ \A u \in Threads \ {t} : job'[u] = job[u]
      BY <1>1, <2>6
    <3>2. ASSUME NEW l \in Checks!Live'
          PROVE  /\ l \in Checks!Live /\ instance'[l].template = instance[l].template
                 /\ \A u \in Threads : job'[u].call = "read" => u # t
    BY <1>3, <2>5, <2>6, <3>1 DEF Checks!Live
    <3>3. ASSUME NEW l \in Checks!Live', NEW w \in Titles
          PROVE  \/ instance'[l].tasks[w].count = 1
                 \/ \E u \in Threads : job'[u].key = l /\ Owes(job'[u], w)
      <4>1. CASE l = i /\ w = z
        BY <4>1, <2>3, <2>5
      <4>2. CASE ~(l = i /\ w = z)
        <5>1. l \in Checks!Live /\ instance'[l].tasks[w] = instance[l].tasks[w]
          BY <4>2, <1>3, <2>3, <2>5 DEF Checks!Live
        <5> SUFFICES ASSUME instance[l].tasks[w].count # 1
                     PROVE  \E u \in Threads : job'[u].key = l /\ Owes(job'[u], w)
          BY <5>1
        <5>2. PICK u \in Threads : job[u].key = l /\ Owes(job[u], w)
          BY <5>1 DEF TasksInv, Complete
        <5>3. CASE u = t
          BY <4>2, <5>2, <5>3, <1>1, <2>6, <3>1
        <5>4. CASE u # t
          BY <5>2, <5>4, <3>1
        <5> QED
          BY <5>3, <5>4
      <4> QED
        BY <4>1, <4>2
    <3> QED
      BY <1>1, <3>1, <3>2, <3>3 DEF TasksInv, Complete, Owes
  <2> QED
    BY <2>5, <2>9, <2>10, <2>11 DEF TasksInv
<1> QED
  BY <1>2, <1>3 DEF Checks!MakeTask

LEMMA UpdateTaskTasks ==
  ASSUME Checks!ChecklistConstants, TasksInv, NEW t \in Threads, Checks!UpdateTask(t)
  PROVE  TasksInv'
<1>1. PICK i \in Checks!Live, z \in Titles, done \in BOOLEAN :
        /\ instance[i].tasks[z].count > 0
        /\ instance' = [instance EXCEPT ![i] =
                          Checks!Changed(@, [instance[i].tasks EXCEPT ![z] = Checks!Completed(@, done)])]
  BY DEF Checks!UpdateTask
<1> DEFINE old == instance[i].tasks
           tasks == [old EXCEPT ![z] = Checks!Completed(@, done)]
           p == instance[i].template
<1>2. /\ UNCHANGED <<template, job, clients>> /\ i \in Instances
      /\ p \in Templates /\ old \in [Titles -> Checks!Tasks]
      /\ \A w \in Titles : old[w].done = old[w].completed_at
  BY LiveRow DEF Checks!UpdateTask, TasksInv
<1>3. /\ tasks \in [Titles -> Checks!Tasks]
      /\ \A w \in Titles : tasks[w].count = old[w].count /\ tasks[w].done = tasks[w].completed_at
  <2>1. /\ Checks!Completed(old[z], done) \in Checks!Tasks /\ Checks!Completed(old[z], done).count = old[z].count
        /\ Checks!Completed(old[z], done).done = Checks!Completed(old[z], done).completed_at
    BY <1>2, TaskRows
  <2> QED
    BY <1>2, <2>1
<1>4. instance' = [instance EXCEPT ![i] = [template |-> p, tasks |-> tasks]]
  BY <1>1 DEF Checks!Changed
<1> HIDE DEF tasks
<1>5. /\ Checks!TypeOK' /\ Checks!Live' = Checks!Live \cup {i}
      /\ instance'[i].template = p /\ instance'[i].tasks = tasks
      /\ \A k \in Instances \ {i} : instance'[k] = instance[k]
  <2>1. Checks!TypeOK /\ UNCHANGED template
    BY <1>2 DEF TasksInv
  <2>2. p \in Templates /\ \A w \in Titles : tasks[w].done = tasks[w].completed_at
    BY <1>2, <1>3
  <2> HIDE DEF p, old
  <2> QED
    BY <1>2, <1>3, <1>4, <2>1, <2>2, RowWritten, Zenon
<1>6. \A l \in Checks!Live : /\ l \in Checks!Live' /\ instance'[l].template = instance[l].template
                             /\ \A w \in Titles :
                                  instance'[l].tasks[w].count = instance[l].tasks[w].count
  BY <1>3, <1>5 DEF Checks!Live
<1>7. Checks!Live' = Checks!Live
  BY <1>1, <1>5
<1>8. ChecklistJobInv'
  <2>1. ASSUME NEW u \in Threads PROVE ChecklistFits(job[u], instance')
    <3>1. job[u].call \in Working => job[u].key \in Instances
      BY DEF TasksInv, ChecklistJobInv, ChecklistJobs, Checks!Idle, Editing, Working
    <3> QED
      BY <1>6, <1>7, <3>1 DEF TasksInv, ChecklistJobInv, ChecklistFits, Checks!Live
  <2> QED
    BY <1>2, <2>1 DEF TasksInv, ChecklistJobInv, ChecklistFits
<1>9. CountsOnce' /\ Complete'
  BY <1>2, <1>6, <1>7 DEF TasksInv, CountsOnce, Complete, Undisturbed, Owes
<1> QED
  BY <1>5, <1>8, <1>9 DEF TasksInv

\* Checklists are deleted, and a template only with all of its own.
LEMMA RowsGo ==
  ASSUME TasksInv, UNCHANGED <<job, clients>>,
         instance' \in [Instances -> Checks!Rows \cup {Nil}],
         \A i \in Instances : instance'[i] \in {instance[i], Nil},
         template' \in [Templates -> (SUBSET Titles) \cup {Nil}],
         \A p \in Templates : template'[p] \in {template[p], Nil},
         \A i \in Checks!Live' : template'[instance[i].template] = template[instance[i].template]
  PROVE  TasksInv'
<1>1. \A i \in Checks!Live' : i \in Checks!Live /\ instance'[i] = instance[i]
  BY DEF Checks!Live
<1>2. Checks!TypeOK' /\ CountsOnce'
  BY <1>1 DEF TasksInv, Checks!TypeOK, CountsOnce
<1>3. ChecklistJobInv'
  <2>1. ASSUME NEW u \in Threads PROVE ChecklistFits(job[u], instance')
    <3>1. job[u].call \in Working => job[u].key \in Instances
      BY DEF TasksInv, ChecklistJobInv, ChecklistJobs, Checks!Idle, Editing, Working
    <3> QED
      BY <1>1, <3>1 DEF TasksInv, ChecklistJobInv, ChecklistFits, Checks!Live
  <2> QED
    BY <2>1 DEF TasksInv, ChecklistJobInv, ChecklistFits
<1>4. Complete'
  BY <1>1 DEF TasksInv, Complete, Undisturbed, Owes
<1> QED
  BY <1>2, <1>3, <1>4 DEF TasksInv

LEMMA RemoveTasks ==
  ASSUME Checks!ChecklistConstants, TasksInv, NEW t \in Threads, Checks!Remove(t)
  PROVE  TasksInv'
<1>1. PICK i \in Checks!Live : instance' = [instance EXCEPT ![i] = Nil]
  BY DEF Checks!Remove
<1>2. UNCHANGED <<template, job, clients>>
  BY DEF Checks!Remove
<1>3. /\ instance' \in [Instances -> Checks!Rows \cup {Nil}]
      /\ \A k \in Instances : instance'[k] \in {instance[k], Nil}
      /\ template' \in [Templates -> (SUBSET Titles) \cup {Nil}]
  BY <1>1, <1>2 DEF TasksInv, Checks!TypeOK
<1> QED
  BY <1>2, <1>3, RowsGo

LEMMA DeleteTemplateTasks ==
  ASSUME Checks!ChecklistConstants, TasksInv, NEW t \in Threads, Checks!DeleteTemplate(t)
  PROVE  TasksInv'
<1>1. PICK p \in Templates :
        /\ template' = [template EXCEPT ![p] = Nil]
        /\ instance' = [i \in Instances |->
                          IF i \in Checks!Live /\ instance[i].template = p THEN Nil ELSE instance[i]]
  BY DEF Checks!DeleteTemplate
<1>2. UNCHANGED <<job, clients>>
  BY DEF Checks!DeleteTemplate
<1>3. /\ instance' \in [Instances -> Checks!Rows \cup {Nil}]
      /\ \A k \in Instances : instance'[k] \in {instance[k], Nil}
      /\ template' \in [Templates -> (SUBSET Titles) \cup {Nil}]
      /\ \A q \in Templates : template'[q] \in {template[q], Nil}
  BY <1>1 DEF TasksInv, Checks!TypeOK
<1>4. \A i \in Checks!Live' : i \in Checks!Live /\ instance[i].template # p
  BY <1>1 DEF Checks!Live
<1>5. \A i \in Checks!Live' : template'[instance[i].template] = template[instance[i].template]
  BY <1>1, <1>4, LiveRow DEF TasksInv, Checks!TypeOK
<1> QED
  BY <1>2, <1>3, <1>5, RowsGo

LEMMA TasksStep ==
  ASSUME Checks!ChecklistConstants, TasksInv, [Checks!Next]_Checks!vars
  PROVE  TasksInv'
<1>1. CASE UNCHANGED Checks!vars
  BY <1>1 DEF Checks!vars, TasksInv, Checks!TypeOK, ChecklistJobInv, ChecklistFits, CountsOnce, Complete, Undisturbed,
              Checks!Live, Owes
<1>2. CASE Checks!Next
  BY <1>2, LoadTemplateTasks, InsertTasks, ReadTitlesTasks, MakeTaskTasks, CrashTasks,
     UpdateTaskTasks, RemoveTasks, EditTemplateTasks, DeleteTemplateTasks DEF Checks!Next
<1> QED
  BY <1>1, <1>2

-----------------------------------------------------------------------------
(* One call at a time, each template is assigned once.                     *)

\* One at a time, whoever steps is the only one at work.
LEMMA Alone ==
  ASSUME AssignedInv, Checks!OneAtATime, NEW t \in Threads, t \in clients.threads
  PROVE  \A u \in Threads \ {t} : job[u] = Checks!Idle
BY DEF AssignedInv, Checks!OneAtATime

\* Who steps serves a client, and only its own job changes; only LoadTemplate
\* begins an insertion.
LEMMA Serves ==
  ASSUME NEW t \in Threads,
         \/ Checks!Insert(t) \/ Checks!ReadTitles(t) \/ Checks!MakeTask(t) \/ Checks!Crash(t)
         \/ Checks!UpdateTask(t) \/ Checks!Remove(t) \/ Checks!EditTemplate(t) \/ Checks!DeleteTemplate(t)
  PROVE  /\ UNCHANGED clients
         /\ job[t] # Checks!Idle \/ t \in clients.threads
         /\ \/ UNCHANGED job
            \/ Checks!Done(t)
            \/ \E c, k, r : Checks!Take(t, c, k, r) /\ c # "insert"
<1>1. CASE Checks!Insert(t)
  BY <1>1 DEF Checks!Insert, Checks!At, Checks!Idle
<1>2. CASE Checks!ReadTitles(t)
  BY <1>2 DEF Checks!ReadTitles, Checks!At, Checks!Idle
<1>3. CASE Checks!MakeTask(t)
  <2>1. UNCHANGED clients /\ job[t] # Checks!Idle
    BY <1>3 DEF Checks!MakeTask, Checks!At, Checks!Idle
  <2>2. Checks!Done(t) \/ \E z : Checks!Take(t, "tasks", job[t].key, job[t].row \ {z})
    BY <1>3 DEF Checks!MakeTask
  <2>3. ASSUME NEW z, Checks!Take(t, "tasks", job[t].key, job[t].row \ {z})
        PROVE  \E c, k, r : Checks!Take(t, c, k, r) /\ c # "insert"
    BY <2>3
  <2> QED
    BY <2>1, <2>2, <2>3
<1>4. CASE Checks!Crash(t)
  BY <1>4 DEF Checks!Crash
<1>5. CASE Checks!EditTemplate(t)
  BY <1>5 DEF Checks!EditTemplate, Checks!Free, Checks!At, Checks!Idle
<1>6. CASE Checks!UpdateTask(t) \/ Checks!Remove(t) \/ Checks!DeleteTemplate(t)
  BY <1>6 DEF Checks!UpdateTask, Checks!Remove, Checks!DeleteTemplate, Checks!Free
<1> QED
  BY <1>1, <1>2, <1>3, <1>4, <1>5, <1>6

LEMMA ServedStep ==
  ASSUME TasksInv, AssignedInv, Checks!Next
  PROVE  /\ UNCHANGED clients
         /\ \A t \in Threads : job'[t] # Checks!Idle => t \in clients.threads
<1>1. PICK t \in Threads :
        \/ Checks!LoadTemplate(t) \/ Checks!Insert(t) \/ Checks!ReadTitles(t) \/ Checks!MakeTask(t) \/ Checks!Crash(t)
        \/ Checks!UpdateTask(t) \/ Checks!Remove(t) \/ Checks!EditTemplate(t) \/ Checks!DeleteTemplate(t)
  BY DEF Checks!Next
<1>2. UNCHANGED clients /\ t \in clients.threads
  BY <1>1, Serves DEF AssignedInv, Checks!LoadTemplate, Checks!Free
<1>3. \A u \in Threads \ {t} : job'[u] = job[u]
  <2>1. UNCHANGED job \/ \E k : job' = [job EXCEPT ![t] = k]
    BY <1>1, Serves DEF Checks!Take, Checks!Done, Checks!LoadTemplate
  <2> QED
    BY <2>1 DEF TasksInv, ChecklistJobInv
<1> QED
  BY <1>2, <1>3 DEF AssignedInv

\* No step but an insertion puts a checklist into use or changes its template.
LEMMA FewerLive ==
  ASSUME TasksInv, NEW t \in Threads,
         \/ Checks!LoadTemplate(t) \/ Checks!ReadTitles(t) \/ Checks!MakeTask(t) \/ Checks!Crash(t)
         \/ Checks!UpdateTask(t) \/ Checks!Remove(t) \/ Checks!EditTemplate(t) \/ Checks!DeleteTemplate(t)
  PROVE  \A i \in Checks!Live' : i \in Checks!Live /\ instance'[i].template = instance[i].template
<1>1. CASE Checks!LoadTemplate(t) \/ Checks!ReadTitles(t) \/ Checks!Crash(t) \/ Checks!EditTemplate(t)
  BY <1>1 DEF Checks!LoadTemplate, Checks!ReadTitles, Checks!Crash, Checks!EditTemplate, Checks!Live
<1>2. CASE Checks!MakeTask(t) \/ Checks!UpdateTask(t)
  <2>1. \/ UNCHANGED instance
        \/ \E k \in Checks!Live : \E tasks :
             instance' = [instance EXCEPT ![k] = Checks!Changed(instance[k], tasks)]
    BY <1>2 DEF Checks!MakeTask, Checks!UpdateTask
  <2> QED
    BY <2>1 DEF Checks!Changed, Checks!Live, TasksInv, Checks!TypeOK
<1>3. CASE Checks!Remove(t)
  BY <1>3 DEF Checks!Remove, Checks!Live, TasksInv, Checks!TypeOK
<1>4. CASE Checks!DeleteTemplate(t)
  BY <1>4 DEF Checks!DeleteTemplate, Checks!Live, TasksInv, Checks!TypeOK
<1> QED
  BY <1>1, <1>2, <1>3, <1>4

LEMMA OnceStep ==
  ASSUME Checks!ChecklistConstants, TasksInv, AssignedInv, [Checks!Next]_Checks!vars
  PROVE  AssignedInv'
<1>1. CASE UNCHANGED Checks!vars
  BY <1>1 DEF Checks!vars, AssignedInv, Checks!OneAtATime, Checks!Live
<1>2. CASE Checks!Next
  <2>1. /\ UNCHANGED clients
        /\ \A t \in Threads : job'[t] # Checks!Idle => t \in clients.threads
    BY <1>2, ServedStep
  <2>2. ASSUME Checks!OneAtATime, "ai_assign" \notin clients.calls
        PROVE  /\ \A i, j \in Checks!Live' : instance'[i].template = instance'[j].template => i = j
               /\ \A t \in Threads, i \in Checks!Live' :
                    job'[t].call = "insert" => instance'[i].template # job'[t].row.template
    <3>1. /\ \A i, j \in Checks!Live : instance[i].template = instance[j].template => i = j
          /\ \A t \in Threads, i \in Checks!Live :
               job[t].call = "insert" => instance[i].template # job[t].row.template
          /\ job \in [Threads -> ChecklistJobs]
      BY <2>2 DEF AssignedInv, TasksInv, ChecklistJobInv
    <3>2. ASSUME NEW t \in Threads, Checks!LoadTemplate(t)
          PROVE  /\ UNCHANGED instance
                 /\ \A u \in Threads, i \in Checks!Live :
                      job'[u].call = "insert" => instance[i].template # job'[u].row.template
      BY <2>2, <3>1, <3>2 DEF Checks!LoadTemplate, Checks!Free, Checks!Take, Checks!Assigned
    <3>3. ASSUME NEW t \in Threads, Checks!Insert(t)
          PROVE  /\ \A i, j \in Checks!Live' : instance'[i].template = instance'[j].template => i = j
                 /\ \A u \in Threads : job'[u].call # "insert"
      <4> DEFINE p == job[t].row.template
      <4>1. job[t].call = "insert" /\ t \in clients.threads
        BY <3>3 DEF Checks!Insert, Checks!At, Checks!Idle, AssignedInv
      <4>2. \A u \in Threads \ {t} : job[u] = Checks!Idle
        BY <2>2, <4>1, Alone
      <4>3. \A u \in Threads : job'[u].call # "insert"
        BY <3>1, <3>3, <4>2 DEF Checks!Insert, Checks!Idle, Checks!Done, Checks!Take
      <4>4. \A i \in Checks!Live : instance[i].template # p
        BY <3>1, <4>1
      <4>5. CASE UNCHANGED instance
        BY <3>1, <4>3, <4>5 DEF Checks!Live
      <4>6. CASE instance' # instance
        <5>1. PICK i \in Instances : \E tasks :
                instance' = [instance EXCEPT ![i] = [template |-> p, tasks |-> tasks]]
          BY <3>3, <4>6 DEF Checks!Insert
        <5>2. \A j \in Checks!Live' : \/ j = i /\ instance'[j].template = p
                                      \/ j # i /\ j \in Checks!Live /\ instance'[j] = instance[j]
          BY <5>1 DEF Checks!Live, TasksInv, Checks!TypeOK
        <5> QED
          BY <3>1, <4>3, <4>4, <5>2
      <4> QED
        BY <4>5, <4>6
    <3>4. ASSUME NEW t \in Threads,
                 \/ Checks!ReadTitles(t) \/ Checks!MakeTask(t) \/ Checks!Crash(t) \/ Checks!UpdateTask(t)
                 \/ Checks!Remove(t) \/ Checks!EditTemplate(t) \/ Checks!DeleteTemplate(t)
          PROVE  /\ \A i \in Checks!Live' : i \in Checks!Live /\ instance'[i].template = instance[i].template
                 /\ \A u \in Threads : job'[u].call = "insert" => job'[u] = job[u]
      <4>1. \/ UNCHANGED job
            \/ \E k : job' = [job EXCEPT ![t] = k] /\ k.call # "insert"
        BY <3>4, Serves DEF Checks!Take, Checks!Done, Checks!Idle
      <4>2. \A u \in Threads : job'[u].call = "insert" => job'[u] = job[u]
        BY <3>1, <4>1
      <4> QED
        BY <3>4, <4>2, FewerLive
    <3>5. CASE \E t \in Threads : Checks!LoadTemplate(t)
      BY <3>1, <3>2, <3>5 DEF Checks!Live
    <3>6. CASE \E t \in Threads : Checks!Insert(t)
      BY <3>3, <3>6
    <3>7. CASE \E t \in Threads :
                 \/ Checks!ReadTitles(t) \/ Checks!MakeTask(t) \/ Checks!Crash(t) \/ Checks!UpdateTask(t)
                 \/ Checks!Remove(t) \/ Checks!EditTemplate(t) \/ Checks!DeleteTemplate(t)
      BY <3>1, <3>4, <3>7
    <3> QED
      BY <1>2, <3>5, <3>6, <3>7 DEF Checks!Next
  <2> QED
    BY <2>1, <2>2 DEF AssignedInv, Checks!OneAtATime
<1> QED
  BY <1>1, <1>2

-----------------------------------------------------------------------------
(* JobApplications.  A call that moves an application holds the copy it    *)
(* has loaded, and the copy tells a decision just when it is final, as     *)
(* every row does: ApplicationInv.  CopyInv adds that a call which is      *)
(* alone holds what the row still says.                                    *)

Moving == {"update", "withdraw", "ai_update", "ai_withdraw"}
ApplicationJobs ==
  {Jobs!Idle}
  \cup [call : {"apply"}, key : Applicants, row : {Nil}]
  \cup [call : Moving, key : Applicants, row : Jobs!Rows]

Consistent(row) == row.decided <=> row.status \in Jobs!TERMINAL_STATUSES

ApplicationInv ==
  /\ Jobs!TypeOK
  /\ job \in [Threads -> ApplicationJobs]
  /\ Jobs!DecisionTellsStatus /\ Jobs!ApplicantKnows
  /\ Jobs!ByService =>
       \A t \in Threads :
         /\ job[t].call \notin {"ai_update", "ai_withdraw"}
         /\ job[t].call \in Moving => Consistent(job[t].row)

CopyInv ==
  /\ \A t \in Threads : job[t] # Jobs!Idle => t \in clients.threads
  /\ Jobs!OneAtATime =>
       \A t \in Threads : job[t].call \in Moving => application[job[t].key] = job[t].row

LEMMA JobsStep ==
  ASSUME [Next]_vars
  PROVE  IF clients.area = "jobs" THEN [Jobs!Next]_Jobs!vars ELSE UNCHANGED jobs
BY DEF Next, vars, jobs, Jobs!vars

LEMMA ApplicationInit ==
  ASSUME Jobs!ApplicationConstants, Init
  PROVE  ApplicationInv /\ CopyInv
<1>1. \A t \in Threads : job[t] = Jobs!Idle
  BY DEF Init, Begin, Idle, Jobs!Idle
<1>2. job \in [Threads -> ApplicationJobs]
  BY <1>1 DEF Init, Begin, ApplicationJobs
<1>3. Jobs!Live = {}
  BY DEF Init, Jobs!Start, Jobs!Live
<1>4. Jobs!TypeOK
  BY <1>3 DEF Init, Jobs!Start, Jobs!TypeOK
<1> QED
  BY <1>1, <1>2, <1>3, <1>4
     DEF ApplicationInv, CopyInv, Jobs!DecisionTellsStatus, Jobs!ApplicantKnows, Jobs!Idle, Moving

\* What a reviewer or an applicant may make of a copy.
LEMMA Transitions ==
  ASSUME NEW r \in Jobs!Rows, NEW s \in Jobs!Statuses, Jobs!Validated(r.status, s)
  PROVE  r.status \notin Jobs!TERMINAL_STATUSES
BY DEF Jobs!Rows, Jobs!Validated, Jobs!ALLOWED_TRANSITIONS, Jobs!Statuses,
       Jobs!TERMINAL_STATUSES

LEMMA WriteKeeps ==
  ASSUME Jobs!ApplicationConstants, ApplicationInv, NEW t \in Threads, job[t].call \in Moving,
         NEW r \in Jobs!Rows, NEW tell \in BOOLEAN, Jobs!Write(t, r, tell),
         Jobs!ByService => tell /\ Consistent(r)
  PROVE  ApplicationInv'
<1> DEFINE a == job[t].key
<1>1. a \in Applicants /\ Jobs!Idle \in ApplicationJobs /\ clients' = clients /\ listing' = listing
  BY DEF ApplicationInv, ApplicationJobs, Jobs!Idle, Moving, Jobs!Write
<1>2. job' = [job EXCEPT ![t] = Jobs!Idle]
  BY DEF Jobs!Write, Jobs!Done
<1>3. job' \in [Threads -> ApplicationJobs]
  BY <1>1, <1>2 DEF ApplicationInv
<1>4. \A u \in Threads : job'[u] = job[u] \/ job'[u] = Jobs!Idle
  BY <1>2 DEF ApplicationInv
<1>5. Jobs!Moved(application[a], r) = r \/ a \notin Jobs!Live
  BY <1>1 DEF Jobs!Moved, Jobs!Rows, ApplicationInv, Jobs!TypeOK, Jobs!Live
<1>6. \/ UNCHANGED <<application, told>>
      \/ /\ a \in Jobs!Live /\ application' = [application EXCEPT ![a] = r]
         /\ IF tell THEN told' = [told EXCEPT ![a] = r.status] ELSE told' = told
  BY <1>5 DEF Jobs!Write, Jobs!Notify
<1> HIDE DEF a
<1>7. Jobs!TypeOK' /\ Jobs!Live' \subseteq Jobs!Live
  BY <1>1, <1>6 DEF ApplicationInv, Jobs!TypeOK, Jobs!Live, Jobs!Rows, Jobs!ApplicationConstants
<1>8. ASSUME Jobs!ByService, NEW b \in Jobs!Live'
      PROVE  Consistent(application'[b]) /\ told'[b] = application'[b].status
  <2>1. b \in Jobs!Live /\ application \in [Applicants -> Jobs!Rows \cup {Nil}]
        /\ told \in [Applicants -> Jobs!Statuses \cup {Nil}] /\ b \in Applicants
    BY <1>7 DEF ApplicationInv, Jobs!TypeOK, Jobs!Live
  <2>2. Consistent(application[b]) /\ told[b] = application[b].status
    BY <1>8, <2>1 DEF ApplicationInv, Jobs!DecisionTellsStatus, Jobs!ApplicantKnows, Consistent
  <2>3. Consistent(r) /\ tell
    BY <1>8
  <2> QED
    BY <1>1, <1>6, <2>1, <2>2, <2>3
<1>9. Jobs!ByService' <=> Jobs!ByService
  BY <1>1 DEF Jobs!ByService
<1> QED
  BY <1>3, <1>4, <1>7, <1>8, <1>9
     DEF ApplicationInv, Jobs!DecisionTellsStatus, Jobs!ApplicantKnows, Consistent, Jobs!Idle, Moving

LEMMA ApplicationStep ==
  ASSUME Jobs!ApplicationConstants, ApplicationInv, [Jobs!Next]_Jobs!vars
  PROVE  ApplicationInv'
<1>1. CASE UNCHANGED Jobs!vars
  BY <1>1 DEF Jobs!vars, ApplicationInv, Jobs!TypeOK, Jobs!Live, Jobs!DecisionTellsStatus,
     Jobs!ApplicantKnows, Jobs!ByService
<1>2. ASSUME NEW t \in Threads, Jobs!LoadListing(t) \/ Jobs!Load(t)
      PROVE  ApplicationInv'
  <2>1. UNCHANGED <<listing, application, told, clients>>
    BY <1>2 DEF Jobs!LoadListing, Jobs!Load
  <2>2. PICK j \in ApplicationJobs :
          /\ job' = [job EXCEPT ![t] = j]
          /\ Jobs!ByService => j.call \notin {"ai_update", "ai_withdraw"}
          /\ Jobs!ByService /\ j.call \in Moving => Consistent(j.row)
    <3>1. CASE Jobs!LoadListing(t)
      <4>1. PICK a \in Applicants : Jobs!Take(t, "apply", a, Nil)
        BY <3>1 DEF Jobs!LoadListing
      <4> DEFINE j == [call |-> "apply", key |-> a, row |-> Nil]
      <4>2. j \in ApplicationJobs /\ j.call \notin Moving /\ j.call = "apply"
        BY DEF ApplicationJobs, Moving
      <4>3. job' = [job EXCEPT ![t] = j]
        BY <4>1 DEF Jobs!Take
      <4> QED
        BY <4>2, <4>3
    <3>2. CASE Jobs!Load(t)
      <4>1. PICK c \in Moving, a \in Jobs!Live : Jobs!Free(t, c) /\ Jobs!Take(t, c, a, application[a])
        BY <3>2 DEF Jobs!Load, Moving
      <4>2. a \in Applicants /\ application[a] \in Jobs!Rows
        BY DEF ApplicationInv, Jobs!TypeOK, Jobs!Live
      <4>3. Jobs!ByService => c \notin {"ai_update", "ai_withdraw"} /\ Consistent(application[a])
        BY <4>1 DEF Jobs!ByService, Jobs!Free, Jobs!AssistantCalls, ApplicationInv,
           Jobs!DecisionTellsStatus, Consistent
      <4> DEFINE j == [call |-> c, key |-> a, row |-> application[a]]
      <4>4. j \in ApplicationJobs /\ j.call = c /\ j.row = application[a]
        BY <4>2 DEF ApplicationJobs
      <4>5. job' = [job EXCEPT ![t] = j]
        BY <4>1 DEF Jobs!Take
      <4> QED
        BY <4>3, <4>4, <4>5
    <3> QED
      BY <1>2, <3>1, <3>2
  <2>3. job' \in [Threads -> ApplicationJobs] /\ \A u \in Threads : job'[u] = job[u] \/ job'[u] = j
    BY <2>2 DEF ApplicationInv
  <2> QED
    BY <2>1, <2>2, <2>3 DEF ApplicationInv, Jobs!TypeOK, Jobs!Live, Jobs!DecisionTellsStatus,
       Jobs!ApplicantKnows, Jobs!ByService
<1>3. ASSUME NEW t \in Threads, Jobs!Apply(t)
      PROVE  ApplicationInv'
  <2> DEFINE a == job[t].key
  <2>1. a \in Applicants /\ Jobs!New \in Jobs!Rows /\ Consistent(Jobs!New)
    BY <1>3 DEF Jobs!Apply, Jobs!At, ApplicationInv, ApplicationJobs, Jobs!Idle, Moving, Jobs!New,
       Jobs!Rows, Jobs!Statuses, Consistent, Jobs!TERMINAL_STATUSES
  <2>2. job' = [job EXCEPT ![t] = Jobs!Idle] /\ UNCHANGED <<listing, clients>>
    BY <1>3 DEF Jobs!Apply, Jobs!Done
  <2>3. job' \in [Threads -> ApplicationJobs] /\ \A u \in Threads : job'[u] = job[u] \/ job'[u] = Jobs!Idle
    BY <2>2 DEF ApplicationInv, ApplicationJobs
  <2>4. \/ UNCHANGED <<application, told>>
        \/ /\ listing # Deleted /\ application' = [application EXCEPT ![a] = Jobs!New]
           /\ told' = [told EXCEPT ![a] = "submitted"]
    BY <1>3 DEF Jobs!Apply
  <2> HIDE DEF a
  <2>5. Jobs!TypeOK'
    BY <2>1, <2>2, <2>4 DEF ApplicationInv, Jobs!TypeOK, Jobs!Live, Jobs!Statuses
  <2>6. ASSUME Jobs!ByService, NEW b \in Jobs!Live'
        PROVE  Consistent(application'[b]) /\ told'[b] = application'[b].status
    BY <2>1, <2>4, <2>6 DEF ApplicationInv, Jobs!DecisionTellsStatus, Jobs!ApplicantKnows, Consistent,
       Jobs!TypeOK, Jobs!Live, Jobs!New
  <2> QED
    BY <2>2, <2>3, <2>5, <2>6 DEF ApplicationInv, Jobs!DecisionTellsStatus, Jobs!ApplicantKnows,
       Consistent, Jobs!Idle, Moving, Jobs!ByService
<1>4. ASSUME NEW t \in Threads, Jobs!Refuse(t)
      PROVE  ApplicationInv'
  <2>1. job' \in [Threads -> ApplicationJobs] /\ \A u \in Threads : job'[u] = job[u] \/ job'[u] = Jobs!Idle
    BY <1>4 DEF Jobs!Refuse, Jobs!Done, ApplicationInv, ApplicationJobs
  <2> QED
    BY <1>4, <2>1 DEF Jobs!Refuse, ApplicationInv, Jobs!TypeOK, Jobs!Live, Jobs!DecisionTellsStatus,
       Jobs!ApplicantKnows, Jobs!ByService, Jobs!Idle, Moving
<1>5. ASSUME NEW t \in Threads, Jobs!Transition(t) \/ Jobs!Withdraw(t)
      PROVE  ApplicationInv'
  <2>1. job[t].call \in Moving /\ job[t].row \in Jobs!Rows
    <3>1. job[t].call \in Moving
      BY <1>5 DEF Jobs!Transition, Jobs!Withdraw, Jobs!At, Moving
    <3>2. job[t] \in ApplicationJobs
      BY DEF ApplicationInv
    <3> QED
      BY <3>1, <3>2 DEF ApplicationJobs, Jobs!Idle, Moving
  <2>2. CASE Jobs!Refuse(t)
    BY <1>4, <2>2
  <2>3. CASE ~Jobs!Refuse(t)
    <3>1. PICK s \in Jobs!Statuses, d \in BOOLEAN :
            /\ Jobs!Validated(job[t].row.status, s)
            /\ Jobs!Write(t, [status |-> s, decided |-> d], TRUE)
            /\ d <=> (job[t].row.decided \/ s \in Jobs!TERMINAL_STATUSES)
      <4>1. CASE Jobs!Transition(t)
        <5>1. PICK s \in Jobs!REVIEWER_SETTABLE_STATUSES :
                /\ Jobs!Validated(job[t].row.status, s)
                /\ Jobs!Write(t, [status |-> s,
                                  decided |-> job[t].row.decided \/ s \in Jobs!TERMINAL_STATUSES], TRUE)
          BY <2>3, <4>1 DEF Jobs!Transition
        <5> DEFINE d == job[t].row.decided \/ s \in Jobs!TERMINAL_STATUSES
        <5>2. s \in Jobs!Statuses /\ d \in BOOLEAN
          BY DEF Jobs!REVIEWER_SETTABLE_STATUSES, Jobs!Statuses
        <5> QED
          BY <5>1, <5>2
      <4>2. CASE Jobs!Withdraw(t)
        BY <2>3, <4>2 DEF Jobs!Withdraw, Jobs!Statuses, Jobs!TERMINAL_STATUSES
      <4> QED
        BY <1>5, <4>1, <4>2
    <3>2. job[t].row.status \notin Jobs!TERMINAL_STATUSES
      BY <2>1, <3>1, Transitions
    <3>3. [status |-> s, decided |-> d] \in Jobs!Rows
      BY DEF Jobs!Rows
    <3>4. Jobs!ByService => Consistent([status |-> s, decided |-> d])
      BY <2>1, <3>1, <3>2 DEF Consistent, ApplicationInv
    <3> QED
      BY <2>1, <3>1, <3>3, <3>4, WriteKeeps
  <2> QED
    BY <2>2, <2>3
<1>6. ASSUME NEW t \in Threads, Jobs!AssistantUpdate(t) \/ Jobs!AssistantWithdraw(t)
      PROVE  ApplicationInv'
  <2>1. job[t].call \in Moving /\ ~Jobs!ByService
    BY <1>6 DEF Jobs!AssistantUpdate, Jobs!AssistantWithdraw, Jobs!At, Moving, ApplicationInv
  <2>2. \/ Jobs!Refuse(t)
        \/ \E s \in Jobs!Statuses : Jobs!Write(t, [status |-> s, decided |-> TRUE], FALSE)
    BY <1>6 DEF Jobs!AssistantUpdate, Jobs!AssistantWithdraw, Jobs!Statuses
  <2>3. \A s \in Jobs!Statuses : [status |-> s, decided |-> TRUE] \in Jobs!Rows
    BY DEF Jobs!Rows
  <2> QED
    BY <1>4, <2>1, <2>2, <2>3, WriteKeeps
<1>7. ASSUME NEW t \in Threads, Jobs!SetListing(t) \/ Jobs!DeleteListing(t)
      PROVE  ApplicationInv'
  <2>1. UNCHANGED <<job, clients>>
    BY <1>7 DEF Jobs!SetListing, Jobs!DeleteListing
  <2>2. Jobs!TypeOK' /\ \A a \in Jobs!Live' : /\ a \in Jobs!Live /\ application'[a] = application[a]
                                              /\ told'[a] = told[a]
    <3>1. CASE Jobs!SetListing(t)
      BY <3>1 DEF Jobs!SetListing, ApplicationInv, Jobs!TypeOK, Jobs!Live, Jobs!ApplicationConstants
    <3>2. CASE Jobs!DeleteListing(t)
      <4>1. Jobs!Live' = {}
        BY <3>2 DEF Jobs!DeleteListing, Jobs!Live
      <4>2. listing' = Deleted /\ application' = [a \in Applicants |-> Nil] /\ told' = application'
        BY <3>2 DEF Jobs!DeleteListing
      <4>3. Jobs!TypeOK'
        BY <4>1, <4>2 DEF Jobs!TypeOK
      <4> QED
        BY <4>1, <4>3
    <3> QED
      BY <1>7, <3>1, <3>2
  <2> QED
    BY <2>1, <2>2 DEF ApplicationInv, Jobs!DecisionTellsStatus, Jobs!ApplicantKnows, Jobs!ByService
<1> QED
  BY <1>1, <1>2, <1>3, <1>5, <1>6, <1>7 DEF Jobs!Next

\* Only a call that is alone reads and writes.
LEMMA CopyStep ==
  ASSUME Jobs!ApplicationConstants, ApplicationInv, CopyInv, [Jobs!Next]_Jobs!vars
  PROVE  CopyInv'
<1>1. CASE UNCHANGED Jobs!vars
  BY <1>1 DEF Jobs!vars, CopyInv, Jobs!OneAtATime
<1>2. ASSUME NEW t \in Threads,
             \/ Jobs!LoadListing(t) \/ Jobs!Apply(t) \/ Jobs!Load(t) \/ Jobs!Transition(t)
             \/ Jobs!Withdraw(t) \/ Jobs!AssistantUpdate(t) \/ Jobs!AssistantWithdraw(t)
             \/ Jobs!SetListing(t) \/ Jobs!DeleteListing(t)
      PROVE  CopyInv'
  <2>1. clients' = clients /\ job \in [Threads -> ApplicationJobs]
    BY <1>2, JobsKeepsClients DEF Jobs!Next, ApplicationInv
  <2>2. t \in clients.threads
    <3>1. (\E c : Jobs!Free(t, c)) \/ (\E c \in Moving \cup {"apply"} : Jobs!At(t, c))
      BY <1>2 DEF Jobs!LoadListing, Jobs!Apply, Jobs!Load, Jobs!Transition, Jobs!Withdraw,
         Jobs!AssistantUpdate, Jobs!AssistantWithdraw, Jobs!SetListing, Jobs!DeleteListing, Moving
    <3> QED
      BY <3>1 DEF Jobs!Free, Jobs!At, CopyInv, Jobs!Idle, Moving
  <2>3. \A u \in Threads \ {t} : job'[u] = job[u]
    BY <1>2, <2>1 DEF Jobs!LoadListing, Jobs!Apply, Jobs!Load, Jobs!Transition, Jobs!Withdraw,
       Jobs!AssistantUpdate, Jobs!AssistantWithdraw, Jobs!SetListing, Jobs!DeleteListing,
       Jobs!Take, Jobs!Done, Jobs!Write, Jobs!Refuse
  <2>4. \A u \in Threads : job'[u] # Jobs!Idle => u \in clients'.threads
    BY <2>1, <2>2, <2>3 DEF CopyInv
  <2>5. Jobs!OneAtATime => \A u \in Threads \ {t} : job[u] = Jobs!Idle /\ job'[u] = Jobs!Idle
    BY <2>2, <2>3 DEF CopyInv, Jobs!OneAtATime
  <2>6. ASSUME job'[t].call \in Moving
        PROVE  application'[job'[t].key] = job'[t].row
    <3>1. \/ Jobs!Load(t)
          \/ Jobs!LoadListing(t)
          \/ job' = [job EXCEPT ![t] = Jobs!Idle]
          \/ job' = job /\ job[t] = Jobs!Idle
      BY <1>2 DEF Jobs!Apply, Jobs!Transition, Jobs!Withdraw, Jobs!AssistantUpdate,
         Jobs!AssistantWithdraw, Jobs!SetListing, Jobs!DeleteListing, Jobs!Done, Jobs!Write,
         Jobs!Refuse, Jobs!Free
    <3>2. Jobs!Idle.call \notin Moving /\ (job' = [job EXCEPT ![t] = Jobs!Idle] => job'[t] = Jobs!Idle)
      BY <2>1 DEF Jobs!Idle, Moving
    <3>3. ~Jobs!LoadListing(t)
      BY <2>1, <2>6 DEF Jobs!LoadListing, Jobs!Take, Moving
    <3>4. Jobs!Load(t)
      BY <2>6, <3>1, <3>2, <3>3
    <3> QED
      BY <2>1, <3>4 DEF Jobs!Load, Jobs!Take
  <2>7. Jobs!OneAtATime' = Jobs!OneAtATime
    BY <2>1 DEF Jobs!OneAtATime
  <2> QED
    BY <2>4, <2>5, <2>6, <2>7 DEF CopyInv, Jobs!Idle, Moving
<1> QED
  BY <1>1, <1>2 DEF Jobs!Next

LEMMA DecisionStep ==
  ASSUME Jobs!ApplicationConstants, ApplicationInv, CopyInv, Jobs!Next,
         Jobs!OneAtATime, Jobs!ByService, NEW a \in Jobs!Live,
         application[a].status \in Jobs!TERMINAL_STATUSES
  PROVE  application'[a] \in {application[a], Nil}
<1>1. PICK t \in Threads :
        \/ Jobs!LoadListing(t) \/ Jobs!Apply(t) \/ Jobs!Load(t) \/ Jobs!Transition(t)
        \/ Jobs!Withdraw(t) \/ Jobs!AssistantUpdate(t) \/ Jobs!AssistantWithdraw(t)
        \/ Jobs!SetListing(t) \/ Jobs!DeleteListing(t)
  BY DEF Jobs!Next
<1>2. a \in Applicants /\ application \in [Applicants -> Jobs!Rows \cup {Nil}] /\ application[a] # Nil
  BY DEF ApplicationInv, Jobs!TypeOK, Jobs!Live
<1>3. CASE Jobs!LoadListing(t) \/ Jobs!Load(t) \/ Jobs!SetListing(t) \/ Jobs!DeleteListing(t)
  BY <1>2, <1>3 DEF Jobs!LoadListing, Jobs!Load, Jobs!SetListing, Jobs!DeleteListing
<1>4. CASE Jobs!Apply(t)
  BY <1>2, <1>4 DEF Jobs!Apply
<1>5. CASE Jobs!Transition(t) \/ Jobs!Withdraw(t)
  <2>1. job[t].call \in Moving /\ job[t] \in ApplicationJobs
    BY <1>5 DEF Jobs!Transition, Jobs!Withdraw, Jobs!At, Moving, ApplicationInv
  <2>2. job[t].row \in Jobs!Rows /\ job[t].row = application[job[t].key]
    BY <2>1 DEF CopyInv, ApplicationJobs, Moving, Jobs!Idle
  <2>3. \/ application' = application
        \/ /\ \E s \in Jobs!Statuses : Jobs!Validated(job[t].row.status, s)
           /\ \E r : application' = [application EXCEPT ![job[t].key] = r]
    BY <1>5 DEF Jobs!Transition, Jobs!Withdraw, Jobs!Write, Jobs!Refuse, Jobs!Statuses,
       Jobs!REVIEWER_SETTABLE_STATUSES
  <2>4. application' = application \/ job[t].key # a
    BY <2>2, <2>3, Transitions
  <2> QED
    BY <1>2, <2>3, <2>4
<1>6. CASE Jobs!AssistantUpdate(t) \/ Jobs!AssistantWithdraw(t)
  BY <1>6 DEF Jobs!AssistantUpdate, Jobs!AssistantWithdraw, Jobs!At, ApplicationInv
<1> QED
  BY <1>1, <1>3, <1>4, <1>5, <1>6

-----------------------------------------------------------------------------
(* Surveys.  A call that is alone finds the survey as it has left it:      *)
(* between the deletion of the earlier response and the new one there is   *)
(* none of the respondent, and a survey that is deleted has none at all.   *)

SurveyJobs ==
  {Polls!Idle}
  \cup [call : {"clear", "validate"}, key : Users, row : Polls!Rows]
  \cup [call : {"persist"}, key : Users, row : [anonymous : BOOLEAN, answers : SUBSET Questions]]
  \cup [call : {"edit"}, key : {Nil}, row : Polls!Rows]
  \cup [call : {"upsert", "prune"}, key : {Nil}, row : SUBSET Questions]
  \cup [call : {"delete"}, key : {Nil}, row : {Nil}]

SurveyInv ==
  /\ Polls!TypeOK
  /\ job \in [Threads -> SurveyJobs]
  /\ clients.users \subseteq Users /\ clients.questions \subseteq Questions
  /\ clients.statuses \subseteq {"draft", "active", "closed"}

Replaced(j) ==
  j.call \in {"validate", "persist"} /\ ~j.row.anonymous =>
    \A k \in Polls!Given : response[k].respondent # j.key

ResponseInv ==
  /\ \A t \in Threads : job[t] # Polls!Idle => t \in clients.threads
  /\ Polls!OneResponseEach
  /\ Polls!OneAtATime =>
       \A t \in Threads : Replaced(job[t]) /\ (job[t].call = "delete" => Polls!Given = {})

LEMMA PollsStep ==
  ASSUME [Next]_vars
  PROVE  IF clients.area = "surveys" THEN [Polls!Next]_Polls!vars ELSE UNCHANGED surveys
BY DEF Next, vars, surveys, Polls!vars

LEMMA SurveyInit ==
  ASSUME Polls!SurveyConstants, Init, clients.area = "surveys"
  PROVE  SurveyInv /\ ResponseInv
<1>1. \A t \in Threads : job[t] = Polls!Idle
  BY DEF Init, Begin, Idle, Polls!Idle
<1>2. job \in [Threads -> SurveyJobs] /\ clients \in Clients
  BY <1>1 DEF Init, Begin, SurveyJobs
<1>3. Polls!Given = {}
  BY DEF Init, Polls!Start, Polls!Given
<1>4. Polls!TypeOK
  BY DEF Init, Polls!Start, Polls!TypeOK, Polls!Rows
<1> QED
  BY <1>1, <1>2, <1>3, <1>4
     DEF SurveyInv, ResponseInv, Replaced, Polls!OneResponseEach, Polls!Idle, Polls!SurveyConstants

\* The survey, a question or a response that is there.
LEMMA SurveyRows ==
  ASSUME Polls!SurveyConstants, SurveyInv
  PROVE  /\ Polls!Exists => survey \in Polls!Rows
         /\ Polls!Live \subseteq Questions /\ Polls!Unused \subseteq Questions
         /\ \A k \in Polls!Given : k \in Responses /\ response[k] \in Polls!Answers
         /\ Nil \notin Polls!Answers /\ Nil \notin Users
         /\ Nil \notin Polls!Kinds /\ Deleted \notin Polls!Kinds
BY DEF SurveyInv, Polls!TypeOK, Polls!Exists, Polls!Live, Polls!Unused, Polls!Given,
       Polls!SurveyConstants

\* Which calls a step goes on with.
LEMMA SurveyJobKinds ==
  ASSUME SurveyInv, NEW t \in Threads
  PROVE  /\ job[t].call \in {"clear", "validate"} => job[t].key \in Users /\ job[t].row \in Polls!Rows
         /\ job[t].call = "persist" =>
              job[t].key \in Users /\ job[t].row \in [anonymous : BOOLEAN, answers : SUBSET Questions]
         /\ job[t].call = "edit" => job[t].row \in Polls!Rows
         /\ job[t].call \in {"upsert", "prune"} => job[t].row \in SUBSET Questions
<1>1. job[t] \in SurveyJobs
  BY DEF SurveyInv
<1> QED
  BY <1>1 DEF SurveyJobs, Polls!Idle

LEMMA SurveyJobTaken ==
  ASSUME NEW t, NEW c, NEW k, NEW r, Polls!Take(t, c, k, r),
         \/ c \in {"clear", "validate"} /\ k \in Users /\ r \in Polls!Rows
         \/ c = "persist" /\ k \in Users /\ r \in [anonymous : BOOLEAN, answers : SUBSET Questions]
         \/ c = "edit" /\ k = Nil /\ r \in Polls!Rows
         \/ c \in {"upsert", "prune"} /\ k = Nil /\ r \in SUBSET Questions
         \/ c = "delete" /\ k = Nil /\ r = Nil
  PROVE  \E j \in SurveyJobs : job' = [job EXCEPT ![t] = j]
<1> DEFINE j == [call |-> c, key |-> k, row |-> r]
<1>1. job' = [job EXCEPT ![t] = j]
  BY DEF Polls!Take
<1>2. j \in SurveyJobs
  BY DEF SurveyJobs
<1> QED
  BY <1>1, <1>2

LEMMA SurveyJobDone ==
  ASSUME NEW t, Polls!Done(t)
  PROVE  \E j \in SurveyJobs : job' = [job EXCEPT ![t] = j]
<1>1. Polls!Idle \in SurveyJobs
  BY DEF SurveyJobs
<1> QED
  BY <1>1 DEF Polls!Done

\* Rows and jobs stay in their range.
LEMMA SurveyStep ==
  ASSUME Polls!SurveyConstants, SurveyInv, [Polls!Next]_Polls!vars
  PROVE  SurveyInv'
<1> DEFINE Goes(t) == UNCHANGED job \/ \E j \in SurveyJobs : job' = [job EXCEPT ![t] = j]
<1> USE SurveyRows, SurveyJobKinds
<1>1. CASE UNCHANGED Polls!vars
  BY <1>1 DEF Polls!vars, SurveyInv, Polls!TypeOK
<1>2. ASSUME NEW t \in Threads, Polls!TypeOK', Goes(t), UNCHANGED clients
      PROVE  SurveyInv'
  BY <1>2 DEF SurveyInv
<1>3. ASSUME NEW t \in Threads, Polls!Submit(t)
      PROVE  Polls!TypeOK' /\ Goes(t)
  <2>1. PICK u \in Users : Polls!Take(t, "clear", u, survey)
    BY <1>3 DEF Polls!Submit, SurveyInv
  <2>2. survey \in Polls!Rows
    BY <1>3 DEF Polls!Submit
  <2> QED
    BY <1>3, <2>1, <2>2, SurveyJobTaken DEF Polls!Submit, SurveyInv, Polls!TypeOK
<1>4. ASSUME NEW t \in Threads, Polls!ClearEarlier(t)
      PROVE  Polls!TypeOK' /\ Goes(t)
  <2>1. Goes(t)
    BY <1>4, SurveyJobTaken DEF Polls!ClearEarlier, Polls!At
  <2> QED
    BY <1>4, <2>1 DEF Polls!ClearEarlier, SurveyInv, Polls!TypeOK
<1>5. ASSUME NEW t \in Threads, Polls!Validate(t)
      PROVE  Polls!TypeOK' /\ Goes(t)
  <2>1. job[t].key \in Users /\ job[t].row \in Polls!Rows
    BY <1>5 DEF Polls!Validate, Polls!At
  <2>2. ASSUME NEW A \in SUBSET Polls!Live
        PROVE  [anonymous |-> job[t].row.anonymous, answers |-> A]
                 \in [anonymous : BOOLEAN, answers : SUBSET Questions]
    BY <2>1 DEF Polls!Rows
  <2>3. Goes(t)
    BY <1>5, <2>1, <2>2, SurveyJobTaken, SurveyJobDone DEF Polls!Validate
  <2> QED
    BY <1>5, <2>3 DEF Polls!Validate, SurveyInv, Polls!TypeOK
<1>6. ASSUME NEW t \in Threads, Polls!Persist(t)
      PROVE  Polls!TypeOK' /\ Goes(t)
  <2>1. /\ job[t].key \in Users
        /\ job[t].row \in [anonymous : BOOLEAN, answers : SUBSET Questions]
    BY <1>6 DEF Polls!Persist, Polls!At
  <2>2. [respondent |-> IF job[t].row.anonymous THEN Nil ELSE job[t].key,
         answers |-> job[t].row.answers] \in Polls!Answers
    BY <2>1 DEF Polls!Answers
  <2>3. response' \in [Responses -> Polls!Answers \cup {Nil}]
    BY <1>6, <2>2 DEF Polls!Persist, SurveyInv, Polls!TypeOK
  <2> QED
    BY <1>6, <2>3, SurveyJobDone DEF Polls!Persist, SurveyInv, Polls!TypeOK
<1>7. ASSUME NEW t \in Threads, Polls!EditLoad(t)
      PROVE  Polls!TypeOK' /\ Goes(t)
  BY <1>7, SurveyJobTaken DEF Polls!EditLoad, SurveyInv, Polls!TypeOK
<1>8. ASSUME NEW t \in Threads, Polls!EditSave(t)
      PROVE  Polls!TypeOK' /\ Goes(t)
  <2>1. job[t].row \in Polls!Rows
    BY <1>8 DEF Polls!EditSave, Polls!At
  <2>2. survey' \in Polls!Rows
    BY <1>8, <2>1 DEF Polls!EditSave, Polls!Rows, SurveyInv
  <2>3. Goes(t)
    BY <1>8, SurveyJobTaken, SurveyJobDone DEF Polls!EditSave
  <2> QED
    BY <1>8, <2>2, <2>3 DEF Polls!EditSave, SurveyInv, Polls!TypeOK
<1>9. ASSUME NEW t \in Threads, Polls!UpsertQuestions(t)
      PROVE  Polls!TypeOK' /\ Goes(t)
  <2>1. PICK keep \in SUBSET job[t].row, new \in SUBSET Polls!Unused, kind \in Polls!Kinds :
          \/ Polls!Done(t) /\ UNCHANGED question
          \/ /\ question' = [q \in Questions |-> IF q \in keep \cup new THEN kind ELSE question[q]]
             /\ Polls!Take(t, "prune", Nil, keep \cup new)
    BY <1>9 DEF Polls!UpsertQuestions
  <2>2. keep \cup new \in SUBSET Questions
    BY <1>9 DEF Polls!UpsertQuestions, Polls!At
  <2>3. Goes(t)
    BY <2>1, <2>2, SurveyJobTaken, SurveyJobDone
  <2> QED
    BY <1>9, <2>1, <2>3 DEF Polls!UpsertQuestions, SurveyInv, Polls!TypeOK
<1>10. ASSUME NEW t \in Threads, Polls!PruneQuestions(t)
       PROVE  Polls!TypeOK' /\ Goes(t)
  <2>1. ASSUME NEW k \in Polls!Given, NEW gone
        PROVE  [response[k] EXCEPT !.answers = @ \ gone] \in Polls!Answers
    BY DEF Polls!Answers
  <2>2. response' \in [Responses -> Polls!Answers \cup {Nil}]
    BY <1>10, <2>1 DEF Polls!PruneQuestions, Polls!WithoutAnswers, Polls!Given
  <2> QED
    BY <1>10, <2>2, SurveyJobDone DEF Polls!PruneQuestions, SurveyInv, Polls!TypeOK
<1>11. ASSUME NEW t \in Threads, Polls!AddQuestion(t)
       PROVE  Polls!TypeOK' /\ Goes(t)
  BY <1>11 DEF Polls!AddQuestion, SurveyInv, Polls!TypeOK, Polls!Kinds
<1>12. ASSUME NEW t \in Threads, Polls!Close(t) \/ Polls!Recall(t) \/ Polls!Wait(t)
       PROVE  Polls!TypeOK' /\ Goes(t)
  <2>1. survey' \in Polls!Rows
    BY <1>12 DEF Polls!Close, Polls!Recall, Polls!Wait, Polls!Rows
  <2> QED
    BY <1>12, <2>1 DEF Polls!Close, Polls!Recall, Polls!Wait, SurveyInv, Polls!TypeOK
<1>13. ASSUME NEW t \in Threads, Polls!LoadDelete(t)
       PROVE  Polls!TypeOK' /\ Goes(t)
  BY <1>13, SurveyJobTaken DEF Polls!LoadDelete, SurveyInv, Polls!TypeOK
<1>14. ASSUME NEW t \in Threads, Polls!Delete(t)
       PROVE  Polls!TypeOK' /\ Goes(t)
  BY <1>14, SurveyJobDone DEF Polls!Delete, SurveyInv, Polls!TypeOK
<1> QED
  BY <1>1, <1>2, <1>3, <1>4, <1>5, <1>6, <1>7, <1>8, <1>9, <1>10, <1>11, <1>12, <1>13, <1>14,
     PollsKeepsClients DEF Polls!Next

\* One call works at a time where clients are alone.
LEMMA SurveyAlone ==
  ASSUME SurveyInv, ResponseInv, Polls!Next
  PROVE  \E t \in Threads :
           /\ \/ Polls!Submit(t) \/ Polls!ClearEarlier(t) \/ Polls!Validate(t) \/ Polls!Persist(t)
              \/ Polls!EditLoad(t) \/ Polls!EditSave(t) \/ Polls!UpsertQuestions(t)
              \/ Polls!PruneQuestions(t) \/ Polls!AddQuestion(t) \/ Polls!Close(t)
              \/ Polls!Recall(t) \/ Polls!LoadDelete(t) \/ Polls!Delete(t) \/ Polls!Wait(t)
           /\ t \in clients.threads
           /\ \A u \in Threads \ {t} : job'[u] = job[u]
           /\ Polls!OneAtATime => \A u \in Threads \ {t} : job[u] = Polls!Idle
<1>1. PICK t \in Threads :
        \/ Polls!Submit(t) \/ Polls!ClearEarlier(t) \/ Polls!Validate(t) \/ Polls!Persist(t)
        \/ Polls!EditLoad(t) \/ Polls!EditSave(t) \/ Polls!UpsertQuestions(t)
        \/ Polls!PruneQuestions(t) \/ Polls!AddQuestion(t) \/ Polls!Close(t)
        \/ Polls!Recall(t) \/ Polls!LoadDelete(t) \/ Polls!Delete(t) \/ Polls!Wait(t)
  BY DEF Polls!Next
<1>2. \/ \E c : Polls!Free(t, c)
      \/ \E c \in {"clear", "validate", "persist", "edit", "upsert", "prune", "delete"} :
           Polls!At(t, c)
  BY <1>1, Zenon DEF Polls!Submit, Polls!ClearEarlier, Polls!Validate, Polls!Persist, Polls!EditLoad,
     Polls!EditSave, Polls!UpsertQuestions, Polls!PruneQuestions, Polls!AddQuestion, Polls!Close,
     Polls!Recall, Polls!LoadDelete, Polls!Delete, Polls!Wait
<1>3. t \in clients.threads
  BY <1>2 DEF ResponseInv, Polls!Free, Polls!At, Polls!Idle
<1>4. job' = job \/ \E j : job' = [job EXCEPT ![t] = j]
  BY <1>1, Zenon DEF Polls!Submit, Polls!ClearEarlier, Polls!Validate, Polls!Persist, Polls!EditLoad,
     Polls!EditSave, Polls!UpsertQuestions, Polls!PruneQuestions, Polls!AddQuestion, Polls!Close,
     Polls!Recall, Polls!LoadDelete, Polls!Delete, Polls!Wait, Polls!Take, Polls!Done
<1>5. \A u \in Threads \ {t} : job'[u] = job[u]
  BY <1>4 DEF SurveyInv
<1>6. Polls!OneAtATime => \A u \in Threads \ {t} : job[u] = Polls!Idle
  BY <1>3 DEF ResponseInv, Polls!OneAtATime
<1> QED
  BY <1>1, <1>3, <1>5, <1>6

\* A response that stays keeps its respondent, whatever the step, and a new one is
\* what its call submits.
LEMMA Respondents ==
  ASSUME Polls!SurveyConstants, SurveyInv, Polls!Next
  PROVE  \A k \in Polls!Given' :
           \/ k \in Polls!Given /\ response'[k].respondent = response[k].respondent
           \/ \E t \in Threads :
                /\ Polls!Persist(t) /\ k \notin Polls!Given /\ k \in Responses
                /\ response' = [response EXCEPT ![k] = response'[k]]
                /\ response'[k].respondent = IF job[t].row.anonymous THEN Nil ELSE job[t].key
<1> USE SurveyRows DEF SurveyInv, Polls!TypeOK
<1>1. PICK t \in Threads :
        \/ Polls!Submit(t) \/ Polls!ClearEarlier(t) \/ Polls!Validate(t) \/ Polls!Persist(t)
        \/ Polls!EditLoad(t) \/ Polls!EditSave(t) \/ Polls!UpsertQuestions(t)
        \/ Polls!PruneQuestions(t) \/ Polls!AddQuestion(t) \/ Polls!Close(t)
        \/ Polls!Recall(t) \/ Polls!LoadDelete(t) \/ Polls!Delete(t) \/ Polls!Wait(t)
  BY DEF Polls!Next
<1>2. CASE UNCHANGED response
  BY <1>2 DEF Polls!Given
<1>3. CASE Polls!ClearEarlier(t)
  BY <1>3 DEF Polls!ClearEarlier, Polls!Given
<1>4. CASE Polls!Persist(t) /\ ~UNCHANGED response
  <2> DEFINE row == [respondent |-> IF job[t].row.anonymous THEN Nil ELSE job[t].key,
                     answers |-> job[t].row.answers]
  <2>1. PICK k \in Responses \ Polls!Given : response' = [response EXCEPT ![k] = row]
    BY <1>4 DEF Polls!Persist
  <2>2. response'[k] = row /\ \A l \in Responses \ {k} : response'[l] = response[l]
    BY <2>1
  <2>3. row.respondent = IF job[t].row.anonymous THEN Nil ELSE job[t].key
    OBVIOUS
  <2> QED
    BY <1>4, <2>1, <2>2, <2>3 DEF Polls!Given
<1>5. CASE Polls!PruneQuestions(t)
  <2>1. ASSUME NEW k \in Polls!Given, NEW gone
        PROVE  [response[k] EXCEPT !.answers = @ \ gone].respondent = response[k].respondent
    BY DEF Polls!Answers
  <2> QED
    BY <1>5, <2>1 DEF Polls!PruneQuestions, Polls!WithoutAnswers, Polls!Given
<1>6. CASE Polls!Delete(t)
  BY <1>6 DEF Polls!Delete, Polls!Given
<1> QED
  BY <1>1, <1>2, <1>3, <1>4, <1>5, <1>6, Zenon
     DEF Polls!Submit, Polls!Validate, Polls!EditLoad, Polls!EditSave, Polls!UpsertQuestions,
         Polls!AddQuestion, Polls!Close, Polls!Recall, Polls!LoadDelete, Polls!Wait

LEMMA ResponseStep ==
  ASSUME Polls!SurveyConstants, SurveyInv, ResponseInv, [Polls!Next]_Polls!vars
  PROVE  ResponseInv'
<1>1. CASE UNCHANGED Polls!vars
  BY <1>1 DEF Polls!vars, ResponseInv, Replaced, Polls!OneResponseEach, Polls!OneAtATime, Polls!Given
<1>2. CASE Polls!Next
  <2>1. clients' = clients /\ (Polls!OneAtATime' <=> Polls!OneAtATime)
    BY <1>2, PollsKeepsClients DEF Polls!OneAtATime
  <2>2. PICK t \in Threads :
          /\ \/ Polls!Submit(t) \/ Polls!ClearEarlier(t) \/ Polls!Validate(t) \/ Polls!Persist(t)
             \/ Polls!EditLoad(t) \/ Polls!EditSave(t) \/ Polls!UpsertQuestions(t)
             \/ Polls!PruneQuestions(t) \/ Polls!AddQuestion(t) \/ Polls!Close(t)
             \/ Polls!Recall(t) \/ Polls!LoadDelete(t) \/ Polls!Delete(t) \/ Polls!Wait(t)
          /\ t \in clients.threads
          /\ \A u \in Threads \ {t} : job'[u] = job[u]
          /\ Polls!OneAtATime => \A u \in Threads \ {t} : job[u] = Polls!Idle
    BY <1>2, SurveyAlone
  <2>3. \A u \in Threads : job'[u] # Polls!Idle => u \in clients'.threads
    BY <2>1, <2>2 DEF ResponseInv
  <2>4. ASSUME Polls!OneAtATime, NEW k \in Polls!Given', NEW l \in Polls!Given', k # l,
               response'[k].respondent # Nil
        PROVE  response'[k].respondent # response'[l].respondent
    <3>1. ASSUME NEW u \in Threads, Polls!Persist(u), ~job[u].row.anonymous, NEW m \in Polls!Given
          PROVE  response[m].respondent # job[u].key
      BY <2>4, <3>1 DEF ResponseInv, Replaced, Polls!Persist, Polls!At
    <3>2. CASE k \in Polls!Given /\ l \in Polls!Given
      BY <1>2, <2>4, <3>2, Respondents DEF ResponseInv, Polls!OneResponseEach
    <3>3. CASE k \notin Polls!Given \/ l \notin Polls!Given
      <4>1. \E u \in Threads :
              /\ Polls!Persist(u)
              /\ \E n \in {k, l} \ Polls!Given :
                   /\ response' = [response EXCEPT ![n] = response'[n]]
                   /\ response'[n].respondent = IF job[u].row.anonymous THEN Nil ELSE job[u].key
        BY <1>2, <3>3, Respondents
      <4>2. PICK u \in Threads, n \in {k, l} \ Polls!Given :
              /\ Polls!Persist(u)
              /\ response' = [response EXCEPT ![n] = response'[n]]
              /\ response'[n].respondent = IF job[u].row.anonymous THEN Nil ELSE job[u].key
        BY <4>1
      <4>3. PICK m \in {k, l} : m # n
        BY <2>4
      <4>4. m \in Polls!Given /\ response'[m] = response[m]
        BY <4>2, <4>3 DEF Polls!Given, SurveyInv, Polls!TypeOK
      <4>5. response[m].respondent # Nil \/ ~job[u].row.anonymous
        BY <2>4, <4>2, <4>3, <4>4
      <4> QED
        BY <2>4, <3>1, <4>2, <4>3, <4>4, <4>5
    <3> QED
      BY <3>2, <3>3
  <2>5. ASSUME Polls!OneAtATime
        PROVE  Replaced(job[t])' /\ (job'[t].call = "delete" => Polls!Given' = {})
    <3> USE DEF SurveyInv
    <3>1. CASE Polls!ClearEarlier(t)
      <4>1. job'[t] = [call |-> "validate", key |-> job[t].key, row |-> job[t].row]
        BY <3>1 DEF Polls!ClearEarlier, Polls!Take
      <4>2. ~job[t].row.anonymous => \A k \in Polls!Given' : response'[k].respondent # job[t].key
        BY <3>1 DEF Polls!ClearEarlier, Polls!Earlier, Polls!Given
      <4> QED
        BY <4>1, <4>2 DEF Replaced
    <3>2. CASE Polls!Validate(t)
      <4>1. UNCHANGED response /\ Replaced(job[t]) /\ job[t].call = "validate"
        BY <2>5, <3>2 DEF Polls!Validate, ResponseInv, Polls!At
      <4>2. \/ job'[t] = Polls!Idle
            \/ /\ job'[t].call = "persist" /\ job'[t].key = job[t].key
               /\ job'[t].row.anonymous = job[t].row.anonymous
        BY <3>2 DEF Polls!Validate, Polls!Take, Polls!Done
      <4> QED
        BY <4>1, <4>2 DEF Replaced, Polls!Given, Polls!Idle
    <3>3. CASE Polls!LoadDelete(t)
      BY <3>3 DEF Polls!LoadDelete, Polls!Take, Polls!Given, Replaced
    <3>4. CASE ~(Polls!ClearEarlier(t) \/ Polls!Validate(t) \/ Polls!LoadDelete(t))
      <4>1. \/ \E c \in {"clear", "edit", "upsert", "prune"} : \E k, r : Polls!Take(t, c, k, r)
            \/ Polls!Done(t)
            \/ UNCHANGED job /\ job[t] = Polls!Idle
        BY <2>2, <3>4, Zenon DEF Polls!Submit, Polls!Persist, Polls!EditLoad, Polls!EditSave,
           Polls!UpsertQuestions, Polls!PruneQuestions, Polls!AddQuestion, Polls!Close, Polls!Recall,
           Polls!Delete, Polls!Wait, Polls!Free
      <4>2. job'[t].call \notin {"validate", "persist", "delete"}
        BY <4>1 DEF Polls!Take, Polls!Done, Polls!Idle
      <4> QED
        BY <4>2 DEF Replaced
    <3> QED
      BY <3>1, <3>2, <3>3, <3>4
  <2>6. ASSUME Polls!OneAtATime, NEW u \in Threads
        PROVE  Replaced(job[u])' /\ (job'[u].call = "delete" => Polls!Given' = {})
    <3>1. CASE u # t
      BY <2>2, <2>6, <3>1 DEF Replaced, Polls!Idle
    <3> QED
      BY <2>5, <2>6, <3>1
  <2> QED
    BY <2>1, <2>3, <2>4, <2>6 DEF ResponseInv, Polls!OneResponseEach
<1> QED
  BY <1>1, <1>2

\* Who edits a survey takes away only what answers the questions that go.
LEMMA AnswersStep ==
  ASSUME Polls!SurveyConstants, SurveyInv, Polls!Next, NEW k \in Polls!Given, response'[k] # Nil,
         NEW q \in response[k].answers, question'[q] \in Polls!Kinds
  PROVE  q \in response'[k].answers
<1> USE SurveyRows DEF SurveyInv, Polls!TypeOK
<1>1. k \in Responses /\ q \in Questions
  BY DEF Polls!Answers
<1>2. CASE \E t \in Threads : Polls!PruneQuestions(t)
  <2>1. PICK t \in Threads : Polls!PruneQuestions(t)
    BY <1>2
  <2> DEFINE gone == Polls!Live \ job[t].row
  <2>2. q \notin gone /\ response'[k] = [response[k] EXCEPT !.answers = @ \ gone]
    BY <1>1, <2>1 DEF Polls!PruneQuestions, Polls!WithoutAnswers, Polls!Given
  <2> QED
    BY <2>2 DEF Polls!Answers
<1>3. CASE ~\E t \in Threads : Polls!PruneQuestions(t)
  <2>1. response'[k] = response[k]
    BY <1>1, <1>3, Zenon DEF Polls!Next, Polls!Submit, Polls!ClearEarlier, Polls!Validate, Polls!Persist,
       Polls!EditLoad, Polls!EditSave, Polls!UpsertQuestions, Polls!AddQuestion, Polls!Close,
       Polls!Recall, Polls!LoadDelete, Polls!Delete, Polls!Wait, Polls!Given
  <2> QED
    BY <2>1
<1> QED
  BY <1>2, <1>3

\* Where calls come one at a time nothing but a new submission deletes a response.
LEMMA ReplacedStep ==
  ASSUME Polls!SurveyConstants, SurveyInv, ResponseInv, Polls!Next, Polls!OneAtATime,
         NEW k \in Polls!Given, response'[k] = Nil
  PROVE  \E t \in Threads : Polls!At(t, "clear") /\ job[t].key = response[k].respondent
<1> USE SurveyRows DEF SurveyInv, Polls!TypeOK
<1>1. k \in Responses /\ response[k] # Nil
  BY DEF Polls!Given
<1>2. CASE \E t \in Threads : Polls!ClearEarlier(t)
  BY <1>1, <1>2 DEF Polls!ClearEarlier, Polls!Earlier
<1>3. ~\E t \in Threads : Polls!Delete(t)
  BY DEF Polls!Delete, Polls!At, ResponseInv
<1>4. ~\E t \in Threads : Polls!PruneQuestions(t)
  <2>1. \A gone : [response[k] EXCEPT !.answers = @ \ gone] \in Polls!Answers
    BY DEF Polls!Answers
  <2>2. ASSUME NEW t \in Threads, Polls!PruneQuestions(t)
        PROVE  \E gone : response'[k] = [response[k] EXCEPT !.answers = @ \ gone]
    BY <1>1, <2>2 DEF Polls!PruneQuestions, Polls!WithoutAnswers
  <2> QED
    BY <2>1, <2>2
<1>5. ~\E t \in Threads : Polls!Persist(t)
  BY <1>1 DEF Polls!Persist, Polls!Given
<1> QED
  BY <1>1, <1>2, <1>3, <1>4, <1>5, Zenon DEF Polls!Next, Polls!Submit, Polls!Validate, Polls!EditLoad,
     Polls!EditSave, Polls!UpsertQuestions, Polls!AddQuestion, Polls!Close, Polls!Recall,
     Polls!LoadDelete, Polls!Wait

-----------------------------------------------------------------------------
(* LearningRecords.  RecordInv says of every row, and of what every update *)
(* under way will save, that dates are in order and, of a training, not in *)
(* the future: an update looks at one of the dates only, and at a row that *)
(* others may have changed when it saves its copy.                         *)

RecordFits(r, day) ==
  /\ r \in Learning!Rows
  /\ r.end # Nil => r.kind \in Learning!Ends /\ r.begin <= r.end
  /\ r.kind = "training" =>
       /\ r.end # Nil => r.end <= day
       /\ "ai_create" \notin clients.calls => r.begin <= day

RecordJobFits(j, day) ==
  /\ j.call \in {"save", "answer"} => j.key \in Records /\ j.row.who \in Users
  /\ j.call = "save" => RecordFits(Learning!Merged(j.row.given, j.row.seen), day)

RecordInv ==
  /\ record \in [Records -> Learning!Rows \cup {Nil}]
  /\ status \in {200, 404} /\ date \in Learning!Days
  /\ \A k \in Records : record[k] # Nil => RecordFits(record[k], date)
  /\ DOMAIN job = Threads /\ \A t \in Threads : RecordJobFits(job[t], date)
  /\ clients.kinds \subseteq Learning!Kinds

LEMMA LearningStep ==
  ASSUME [Next]_vars
  PROVE  IF clients.area = "records" THEN [Learning!Next]_Learning!vars ELSE UNCHANGED learning
BY DEF Next, vars, learning, Learning!vars

LEMMA RecordInit ==
  ASSUME Learning!RecordConstants, Init, clients.area = "records"
  PROVE  RecordInv
BY DEF Init, Begin, Learning!Start, RecordInv, RecordJobFits, Idle, Learning!RecordConstants,
       Learning!Days

\* A day later, what was in order still is.
LEMMA FitsLater ==
  ASSUME NEW r, NEW day \in Nat, NEW later \in Nat, day <= later, RecordFits(r, day),
         Learning!RecordConstants
  PROVE  RecordFits(r, later)
<1>1. r.begin \in Nat /\ (r.end # Nil => r.end \in Nat)
  BY DEF RecordFits, Learning!Rows, Learning!Days
<1> QED
  BY <1>1 DEF RecordFits

\* What an update that was found valid will save.
LEMMA MergedFits ==
  ASSUME Learning!RecordConstants, RecordInv, NEW k \in Records, record[k] # Nil,
         NEW g \in Learning!Given(record[k].kind), Learning!Valid(record[k].kind, g, record[k])
  PROVE  RecordFits(Learning!Merged(g, record[k]), date)
<1> DEFINE r == record[k]
           m == Learning!Merged(g, r)
<1>1. RecordFits(r, date) /\ DOMAIN r = {"kind", "owner", "begin", "end"}
  BY DEF RecordInv, RecordFits, Learning!Rows
<1>2. /\ r.kind \in Learning!Kinds /\ r.owner \in Users /\ r.begin \in Learning!Days
      /\ r.end \in Learning!Days \cup {Nil}
  BY <1>1 DEF RecordFits, Learning!Rows
<1>3. m = [f \in {"kind", "owner", "begin", "end"} |-> IF f \in DOMAIN g THEN g[f] ELSE r[f]]
  BY <1>1 DEF Learning!Merged
<1>4. Learning!Days \subseteq Nat /\ date \in Nat /\ Nil \notin Learning!Days
  BY DEF Learning!Days, RecordInv, Learning!RecordConstants
<1>5. CASE \E d \in Learning!Days : g = [begin |-> d]
  <2>1. PICK d \in Learning!Days : g = [begin |-> d]
    BY <1>5
  <2>2. DOMAIN g = {"begin"} /\ g.begin = d /\ d # Nil
    BY <1>4, <2>1
  <2>3. m = [kind |-> r.kind, owner |-> r.owner, begin |-> d, end |-> r.end]
    BY <1>3, <2>2
  <2>4. r.kind \in Learning!Ends /\ r.end # Nil => d <= r.end
    BY <2>2 DEF Learning!Valid, Learning!InOrder, Learning!Value, Learning!Gives
  <2>5. r.kind = "training" => d <= date
    BY <2>2 DEF Learning!Valid, Learning!NotInFuture, Learning!Gives
  <2> QED
    BY <1>1, <1>2, <1>4, <2>3, <2>4, <2>5 DEF RecordFits, Learning!Rows
<1>6. CASE \E d \in Learning!Days \cup {Nil} : g = [end |-> d] /\ "end" \in Learning!Fields(r.kind)
  <2>1. PICK d \in Learning!Days \cup {Nil} : g = [end |-> d]
    BY <1>6
  <2>2. DOMAIN g = {"end"} /\ g.end = d
    BY <2>1
  <2>3. m = [kind |-> r.kind, owner |-> r.owner, begin |-> r.begin, end |-> d]
    BY <1>3, <2>2
  <2>4. r.kind \in Learning!Ends
    BY <1>6 DEF Learning!Fields
  <2>5. d # Nil => r.begin <= d
    BY <2>2, <2>4 DEF Learning!Valid, Learning!InOrder, Learning!Value, Learning!Gives
  <2>6. r.kind = "training" /\ d # Nil => d <= date
    BY <2>2 DEF Learning!Valid, Learning!NotInFuture, Learning!Gives
  <2> QED
    BY <1>1, <1>2, <1>4, <2>3, <2>4, <2>5, <2>6 DEF RecordFits, Learning!Rows
<1>7. CASE \E u \in Users : g = [owner |-> u]
  <2>1. PICK u \in Users : g = [owner |-> u]
    BY <1>7
  <2>2. DOMAIN g = {"owner"} /\ g.owner = u
    BY <2>1
  <2>3. m = [kind |-> r.kind, owner |-> u, begin |-> r.begin, end |-> r.end]
    BY <1>3, <2>2
  <2> QED
    BY <1>1, <1>2, <2>3 DEF RecordFits, Learning!Rows
<1> QED
  BY <1>5, <1>6, <1>7 DEF Learning!Given

\* A step that writes only what fits keeps RecordInv.
LEMMA RecordWritten ==
  ASSUME RecordInv, NEW k, NEW r \in Learning!Rows \cup {Nil}, r # Nil => RecordFits(r, date),
         record' = [record EXCEPT ![k] = r], UNCHANGED <<status, date, job, clients>>
  PROVE  RecordInv'
<1>1. record' \in [Records -> Learning!Rows \cup {Nil}]
  BY DEF RecordInv
<1>2. ASSUME NEW z \in Records, record'[z] # Nil
      PROVE  RecordFits(record[z], date)' 
  BY <1>2 DEF RecordInv, RecordFits, Learning!Rows, Learning!Days, Learning!Kinds, Learning!Ends
<1>3. \A t \in Threads : RecordJobFits(job[t], date)'
  BY DEF RecordInv, RecordJobFits, RecordFits
<1> QED
  BY <1>1, <1>2, <1>3 DEF RecordInv

\* A step that takes a job which fits keeps RecordInv.
LEMMA RecordTaken ==
  ASSUME RecordInv, NEW t, NEW j, RecordJobFits(j, date),
         job' = [job EXCEPT ![t] = j], UNCHANGED <<record, date, clients>>, status' \in {200, 404}
  PROVE  RecordInv'
<1>1. \A k \in Records : record'[k] # Nil => RecordFits(record[k], date)'
  BY DEF RecordInv, RecordFits
<1>2. DOMAIN job' = Threads /\ \A u \in Threads : RecordJobFits(job[u], date)'
  BY DEF RecordInv, RecordJobFits, RecordFits
<1> QED
  BY <1>1, <1>2 DEF RecordInv

LEMMA RecordStep ==
  ASSUME Learning!RecordConstants, RecordInv, [Learning!Next]_Learning!vars
  PROVE  RecordInv'
<1>1. CASE UNCHANGED Learning!vars
  BY <1>1 DEF RecordInv, RecordFits, RecordJobFits, Learning!vars
<1>2. ASSUME NEW t \in Threads, Learning!Create(t)
      PROVE  RecordInv'
  <2>1. PICK r \in Learning!Rows, k \in Records :
          /\ r.kind \in clients.kinds
          /\ r.end # Nil => r.kind \in Learning!Ends
          /\ Learning!Valid(r.kind, r, r)
          /\ record' = [record EXCEPT ![k] = r]
    BY <1>2 DEF Learning!Create
  <2>2. DOMAIN r = {"kind", "owner", "begin", "end"} /\ r.begin \in Learning!Days
    BY DEF Learning!Rows
  <2>3. r.begin # Nil
    BY <2>2 DEF Learning!RecordConstants
  <2>4. RecordFits(r, date)
    BY <2>1, <2>2, <2>3 DEF RecordFits, Learning!Valid, Learning!NotInFuture, Learning!InOrder,
       Learning!Value, Learning!Gives, Learning!Ends
  <2> QED
    BY <1>2, <2>1, <2>4, RecordWritten DEF Learning!Create
<1>3. ASSUME NEW kind \in Learning!Kinds, NEW u \in Users, Learning!Logs(kind, u),
             kind = "training" => "ai_create" \in clients.calls
      PROVE  RecordInv'
  <2>1. PICK d \in Learning!Days, k \in Records :
          record' = [record EXCEPT ![k] = [kind |-> kind, owner |-> u, begin |-> d, end |-> Nil]]
    BY <1>3 DEF Learning!Logs
  <2> DEFINE r == [kind |-> kind, owner |-> u, begin |-> d, end |-> Nil]
  <2>2. RecordFits(r, date)
    BY <1>3 DEF RecordFits, Learning!Rows
  <2>3. r \in Learning!Rows
    BY <2>2 DEF RecordFits
  <2>4. UNCHANGED <<status, date, job, clients>>
    BY <1>3 DEF Learning!Logs
  <2> QED
    BY <2>1, <2>2, <2>3, <2>4, RecordWritten
<1>4. ASSUME NEW t \in Threads, Learning!Load(t)
      PROVE  RecordInv'
  <2>0. PICK u \in Users, k \in Records :
          /\ Learning!Sees(u, k)
          /\ \E g \in Learning!Given(record[k].kind) :
               /\ Learning!Valid(record[k].kind, g, record[k])
               /\ Learning!Take(t, "save", k, [who |-> u, given |-> g, seen |-> record[k]])
    BY <1>4 DEF Learning!Load
  <2>1. PICK g \in Learning!Given(record[k].kind) :
          /\ Learning!Valid(record[k].kind, g, record[k])
          /\ Learning!Take(t, "save", k, [who |-> u, given |-> g, seen |-> record[k]])
    BY <2>0
  <2> DEFINE j == [call |-> "save", key |-> k, row |-> [who |-> u, given |-> g, seen |-> record[k]]]
  <2>2. RecordFits(Learning!Merged(g, record[k]), date)
    BY <2>0, <2>1, MergedFits DEF Learning!Sees, Learning!Live
  <2>3. RecordJobFits(j, date)
    BY <2>0, <2>2 DEF RecordJobFits
  <2>4. job' = [job EXCEPT ![t] = j]
    BY <2>1 DEF Learning!Take
  <2>5. UNCHANGED <<record, status, date, clients>> /\ status \in {200, 404}
    BY <1>4 DEF Learning!Load, RecordInv
  <2> HIDE DEF j
  <2> QED
    BY <2>3, <2>4, <2>5, RecordTaken
<1>5. ASSUME NEW t \in Threads, Learning!Save(t)
      PROVE  RecordInv'
  <2> DEFINE r == Learning!Saved(job[t].row, job[t].key)
             j == IF r.kind = "training" THEN Learning!Idle
                  ELSE [call |-> "answer", key |-> job[t].key, row |-> job[t].row]
  <2>1. RecordFits(r, date) /\ RecordJobFits(job[t], date)
    BY <1>5 DEF Learning!Save, Learning!At, Learning!Saved, RecordInv, RecordJobFits
  <2>2. RecordJobFits(j, date)
    BY <1>5, <2>1 DEF RecordJobFits, Learning!Save, Learning!At, Learning!Idle
  <2>3. /\ record' = [record EXCEPT ![job[t].key] = r]
        /\ job' = [job EXCEPT ![t] = j]
        /\ UNCHANGED <<status, date, clients>>
    BY <1>5 DEF Learning!Save, Learning!Take, Learning!Done
  <2> HIDE DEF r, j
  <2>4. record' \in [Records -> Learning!Rows \cup {Nil}]
    BY <2>1, <2>3 DEF RecordInv, RecordFits
  <2>5. \A z \in Records : record'[z] # Nil => RecordFits(record[z], date)'
    BY <2>1, <2>3 DEF RecordInv, RecordFits, Learning!Rows, Learning!Days, Learning!Kinds,
       Learning!Ends
  <2>6. DOMAIN job' = Threads /\ \A u \in Threads : RecordJobFits(job[u], date)'
    BY <2>2, <2>3 DEF RecordInv, RecordJobFits, RecordFits
  <2> QED
    BY <2>3, <2>4, <2>5, <2>6 DEF RecordInv
<1>6. ASSUME NEW t \in Threads, Learning!Answer(t)
      PROVE  RecordInv'
  <2>1. job' = [job EXCEPT ![t] = Learning!Idle] /\ UNCHANGED <<record, date, clients>>
        /\ status' \in {200, 404}
    BY <1>6 DEF Learning!Answer, Learning!Done
  <2>2. RecordJobFits(Learning!Idle, date)
    BY DEF RecordJobFits, Learning!Idle
  <2> QED
    BY <2>1, <2>2, RecordTaken
<1>7. ASSUME NEW t \in Threads, Learning!Delete(t)
      PROVE  RecordInv'
  BY <1>7, RecordWritten DEF Learning!Delete
<1>8. CASE Learning!NextDay
  <2>1. date \in Nat /\ date' \in Nat /\ date <= date' /\ date' \in Learning!Days
        /\ UNCHANGED <<record, status, job, clients>>
    BY <1>8 DEF Learning!NextDay, RecordInv, Learning!Days, Learning!RecordConstants
  <2>2. ASSUME NEW r, RecordFits(r, date)
        PROVE  RecordFits(r, date)'
    <3>1. RecordFits(r, date')
      BY <2>1, <2>2, FitsLater
    <3> QED
      BY <2>1, <3>1 DEF RecordFits
  <2>3. \A z \in Records : record'[z] # Nil => RecordFits(record[z], date)'
    BY <2>1, <2>2 DEF RecordInv
  <2>4. \A t \in Threads : RecordJobFits(job[t], date)'
    BY <2>1, <2>2 DEF RecordInv, RecordJobFits, Learning!Merged
  <2> QED
    BY <2>1, <2>3, <2>4 DEF RecordInv
<1> QED
  BY <1>1, <1>2, <1>3, <1>4, <1>5, <1>6, <1>7, <1>8 DEF Learning!Next, Learning!LogPeerSession,
     Learning!RegisterForConference, Learning!CreateTrainingEntry, Learning!Logs, Learning!Free,
     Learning!Kinds

\* What RecordInv says of rows, in the words of the promises.
LEMMA RecordsKept ==
  ASSUME Learning!RecordConstants, RecordInv
  PROVE  Learning!TypeOK /\ Learning!DatesInOrder /\ Learning!PlannedByAssistant
<1>1. ASSUME NEW k \in Records, Learning!Live(k)
      PROVE  RecordFits(record[k], date) /\ record[k].begin \in Nat /\ date \in Nat
  BY <1>1 DEF RecordInv, RecordFits, Learning!Live, Learning!Rows, Learning!Days
<1>2. Learning!TypeOK
  BY <1>1 DEF RecordInv, RecordFits, Learning!TypeOK
<1>3. Learning!DatesInOrder
  BY <1>1 DEF RecordFits, Learning!DatesInOrder
<1>4. Learning!PlannedByAssistant
  BY <1>1 DEF RecordFits, Learning!PlannedByAssistant, Learning!Status
<1> QED
  BY <1>2, <1>3, <1>4

\* The lists of the views and of the assistant, of whatever rows there are.
LEMMA ListsKept ==
  ASSUME Learning!RecordConstants, RecordInv
  PROVE  Learning!ListsAgree
<1>1. date \in Nat /\ Learning!Days \subseteq Nat /\ Nil \notin Learning!Days
  BY DEF RecordInv, Learning!Days, Learning!RecordConstants
<1>2. \A k \in Records : Learning!Live(k) => record[k].end \in Nat \cup {Nil} /\ record[k].owner \in Users
  BY <1>1, Zenon DEF RecordInv, Learning!Live, RecordFits, Learning!Rows
<1>3. ASSUME NEW u \in Users, NEW kind \in Learning!Kinds
      PROVE  /\ Learning!AssistantLists(u, kind, u) \subseteq Learning!ViewLists(u, kind)
             /\ u \notin Staff =>
                  Learning!ViewLists(u, kind) = UNION {Learning!AssistantLists(u, kind, z) : z \in Users}
  BY <1>2 DEF Learning!AssistantLists, Learning!ViewLists, Learning!ProfileFor, Learning!Owned,
     Learning!Sees
<1>4. ASSUME NEW u \in Users, NEW n \in 0..1, NEW k \in Learning!AssistantLists(u, "certificate", u)
      PROVE  /\ k \in Learning!Expiring(u, n) <=> Learning!ExpiredOn(record[k], date + n + 1)
             /\ Learning!IsExpired(record[k]) => k \in Learning!Expiring(u, n)
  <2>1. k \in Records /\ Learning!Live(k)
    BY DEF Learning!AssistantLists, Learning!Owned
  <2>2. record[k].end # Nil => record[k].end \in Nat
    BY <1>2, <2>1
  <2> QED
    BY <1>1, <2>2 DEF Learning!Expiring, Learning!ExpiredOn, Learning!IsExpired
<1> QED
  BY <1>3, <1>4 DEF Learning!ListsAgree

-----------------------------------------------------------------------------
(* TrainingBudgets.  What a thread has yet to recompute it owes: UsedInv    *)
(* says that a budget which is wrong is owed by somebody, AlertInv that one *)
(* whose mark is out of date is, and that its use will not change.          *)

YearLists == {<<i>> : i \in Years} \cup {<<i, j>> : i \in Years, j \in Years}
RestOf(s) == IF Len(s) = 1 THEN {} ELSE {s[2]}
Owed(j) ==
  CASE j.call = "recalculate" -> {Head(j.row.years)} \cup RestOf(j.row.years)
    [] j.call \in {"save", "notify"} -> RestOf(j.row.years)
    [] OTHER -> {}

TrainingJobFits(j) ==
  \/ j = Training!Idle
  \/ j.call = "recalculate" /\ j.key = Nil /\ j.row.years \in YearLists
  \/ /\ j.call \in {"save", "notify"} /\ j.row.years \in YearLists
     /\ j.key \in Years /\ j.key = Head(j.row.years)
     /\ j.call = "save" =>
          j.row.budget \in Training!Budgets \cup {Nil} /\ j.row.used \in 0..Training!Most
     /\ j.call = "notify" => j.row.budget \in Training!Budgets
  \/ j.call \in {"edit", "delete"} /\ j.key \in Entries /\ j.row \in Training!Rows
  \/ j.call = "change" /\ j.key \in Years /\ j.row \in Training!Budgets

TrainingInv ==
  /\ Training!TypeOK
  /\ DOMAIN job = Threads
  /\ \A t \in Threads :
       TrainingJobFits(job[t]) /\ (job[t] # Training!Idle => t \in clients.threads)
  /\ clients.allocations \subseteq Training!Allocations

\* The clients of UsedTellsEntries and of AlertedPerCrossing
Counting ==
  /\ Training!Only({"create", "delete", "me", "change"}
       \cup IF Training!OneAtATime THEN Training!BudgetCalls \cup {"edit"} ELSE {})
  /\ clients.faults = {}
Alerting ==
  /\ Training!OneAtATime /\ 0 \notin clients.allocations
  /\ Training!Only(Training!Calls \ {"drop", "late", "ai_create"})
  /\ clients.faults = {}

Saving(t, year) == Training!At(t, "save") /\ job[t].key = year
Notifying(t, year) == Training!At(t, "notify") /\ job[t].key = year
SomeOwe(year) == \E t \in Threads : year \in Owed(job[t])

UsedInv ==
  /\ ~Training!OneAtATime => Nil \notin {budget[i] : i \in Years}
  /\ \A z \in Training!Live : entry[z].training_date = entry[z].completed_at
  /\ \A i \in Training!Budgeted :
       \/ budget[i].used_budget = Training!SumEntryCosts(i)
       \/ SomeOwe(i) \/ \E t \in Threads : Saving(t, i)
  /\ \A t \in Threads :
       /\ Training!At(t, "edit") \/ Training!At(t, "delete") =>
            entry[job[t].key] \in {job[t].row, Nil} /\ job[t].row.training_date = job[t].row.completed_at
       /\ Training!At(t, "edit") => Training!OneAtATime
       /\ Training!At(t, "save") =>
            /\ job[t].row.used = Training!SumEntryCosts(job[t].key) \/ SomeOwe(job[t].key)
            /\ job[t].row.budget = Nil <=> budget[job[t].key] = Nil
            /\ \A u \in Threads : Saving(u, job[t].key) => u = t
       /\ Training!At(t, "notify") => budget[job[t].key] # Nil

AlertInv ==
  /\ \A i \in Years :
       /\ budget[i] # Nil /\ budget[i].allocated_budget # 0
       /\ alerts[i] = IF budget[i].threshold_notified_at /\ Training!Above(budget[i]) THEN 1 ELSE 0
       /\ \/ budget[i].threshold_notified_at = Training!Above(budget[i])
          \/ budget[i].used_budget = Training!SumEntryCosts(i) /\ SomeOwe(i)
          \/ \E t \in Threads : Saving(t, i) /\ budget[i].used_budget = job[t].row.used
          \/ \E t \in Threads : Notifying(t, i)
  /\ \A t \in Threads :
       /\ Training!At(t, "save") => job[t].row.budget = budget[job[t].key] /\ job[t].row.used = Training!SumEntryCosts(job[t].key)
       /\ Training!At(t, "notify") => job[t].row.budget = budget[job[t].key]
       /\ Training!At(t, "change") => job[t].row = budget[job[t].key]


LEMMA TrainingStep ==
  ASSUME [Next]_vars
  PROVE  IF clients.area = "training" THEN [Training!Next]_Training!vars ELSE UNCHANGED training
BY DEF Next, vars, training, Training!vars

LEMMA YearListFacts ==
  ASSUME NEW s \in YearLists
  PROVE  /\ Head(s) \in Years /\ Len(s) \in {1, 2} /\ RestOf(s) \subseteq Years
         /\ Len(s) # 1 => Tail(s) \in YearLists /\ {Head(Tail(s))} \cup RestOf(Tail(s)) = RestOf(s)
<1>1. CASE \E i \in Years : s = <<i>>
  BY <1>1 DEF RestOf
<1>2. CASE \E i \in Years, j \in Years : s = <<i, j>>
  <2>1. PICK i \in Years, j \in Years : s = <<i, j>>
    BY <1>2
  <2>2. Head(s) = i /\ Len(s) = 2 /\ s[2] = j /\ Tail(s) = <<j>>
    BY <2>1
  <2>3. Head(<<j>>) = j /\ Len(<<j>>) = 1
    OBVIOUS
  <2> QED
    BY <2>2, <2>3 DEF RestOf, YearLists
<1> QED
  BY <1>1, <1>2 DEF YearLists

LEMMA TwoYears ==
  ASSUME NEW i \in Years, NEW j \in Years
  PROVE  /\ <<i>> \in YearLists /\ <<i, j>> \in YearLists
         /\ Head(<<i>>) = i /\ RestOf(<<i>>) = {}
         /\ Head(<<i, j>>) = i /\ RestOf(<<i, j>>) = {j}
BY DEF YearLists, RestOf

LEMMA SameCounting ==
  ASSUME NEW S
  PROVE  /\ Training!IsFiniteSet(S) <=> IsFiniteSet(S)
         /\ Training!Cardinality(S) = Cardinality(S)
         /\ Staffing!Cardinality(S) = Cardinality(S)
         /\ Access!IsFiniteSet(S) <=> IsFiniteSet(S)
         /\ Access!Cardinality(S) = Cardinality(S)
<1>1. Training!IsFiniteSet(S) <=> IsFiniteSet(S)
  BY DEF Training!IsFiniteSet, IsFiniteSet
<1>2. Training!Cardinality(S) = Cardinality(S)
  BY DEF Training!Cardinality, Cardinality
<1>3. Staffing!Cardinality(S) = Cardinality(S)
  BY DEF Staffing!Cardinality, Cardinality
<1>4. Access!IsFiniteSet(S) <=> IsFiniteSet(S)
  BY DEF Access!IsFiniteSet, IsFiniteSet
<1>5. Access!Cardinality(S) = Cardinality(S)
  BY DEF Access!Cardinality, Cardinality
<1> QED
  BY <1>1, <1>2, <1>3, <1>4, <1>5

\* The costs of a year are at most what every entry can cost.
LEMMA SumBound ==
  ASSUME Training!TrainingConstants, NEW i
  PROVE  Training!SumEntryCosts(i) \in 0..Training!Most
<1>1. IsFiniteSet(Training!Costs) /\ Cardinality(Training!Costs) = 2
  <2>1. IsFiniteSet({1}) /\ Cardinality({1}) = 1
    BY FS_Singleton
  <2>2. IsFiniteSet({1} \cup {2}) /\ Cardinality({1} \cup {2}) = Cardinality({1}) + 1
    BY <2>1, FS_AddElement
  <2>3. Training!Costs = {1} \cup {2}
    BY DEF Training!Costs
  <2> QED
    BY <2>1, <2>2, <2>3
<1>2. IsFiniteSet(Entries)
  BY SameCounting DEF Training!TrainingConstants
<1>3. Cardinality(Entries) \in Nat
  BY <1>2, FS_CardinalityType
<1>4. /\ IsFiniteSet(Entries \X Training!Costs)
      /\ Cardinality(Entries \X Training!Costs) = Cardinality(Entries) * 2
  BY <1>1, <1>2, FS_Product
<1>5. Training!Units(i) \in SUBSET (Entries \X Training!Costs)
  BY DEF Training!Units
<1>6. /\ Cardinality(Training!Units(i)) <= Cardinality(Entries \X Training!Costs)
      /\ IsFiniteSet(Training!Units(i))
  BY <1>4, <1>5, FS_Subset
<1>7. Cardinality(Training!Units(i)) \in Nat
  BY <1>6, FS_CardinalityType
<1>8. Training!SumEntryCosts(i) = Cardinality(Training!Units(i))
  BY SameCounting DEF Training!SumEntryCosts
<1>9. Training!Most = 2 * Cardinality(Entries)
  BY SameCounting DEF Training!Most
<1> QED
  BY <1>3, <1>4, <1>6, <1>7, <1>8, <1>9

\* An entry that comes, goes or changes leaves the other years' costs.
LEMMA OtherSums ==
  ASSUME Training!TrainingConstants, entry \in [Entries -> Training!Rows \cup {Nil}],
         NEW z \in Entries, NEW r \in Training!Rows \cup {Nil}, entry' = [entry EXCEPT ![z] = r],
         NEW i, entry[z] # Nil => entry[z].completed_at # i, r # Nil => r.completed_at # i
  PROVE  Training!SumEntryCosts(i)' = Training!SumEntryCosts(i)
<1>1. ASSUME NEW w \in Entries
      PROVE  (w \in Training!Live /\ entry[w].completed_at = i)' <=> w \in Training!Live /\ entry[w].completed_at = i
  BY DEF Training!Live
<1>2. ASSUME NEW w \in Entries, w \in Training!Live, entry[w].completed_at = i
      PROVE  entry'[w] = entry[w]
  BY <1>2 DEF Training!Live
<1>3. Training!Units(i)' = Training!Units(i)
  BY <1>1, <1>2 DEF Training!Units
<1> QED
  BY <1>3 DEF Training!SumEntryCosts

LEMMA SameSums ==
  ASSUME UNCHANGED entry, NEW i
  PROVE  Training!SumEntryCosts(i)' = Training!SumEntryCosts(i)
BY DEF Training!SumEntryCosts, Training!Units, Training!Live

\* Which job a thread has next, and what it owes then.
LEMMA LaterJob ==
  ASSUME NEW t, NEW s \in YearLists, Training!Later(t, s)
  PROVE  \E j : /\ job' = [job EXCEPT ![t] = j] /\ TrainingJobFits(j)
                /\ j.call \in {"none", "recalculate"} /\ Owed(j) = RestOf(s)
<1>1. CASE Len(s) = 1
  <2>1. job' = [job EXCEPT ![t] = Training!Idle]
    BY <1>1 DEF Training!Later, Training!Done
  <2>2. TrainingJobFits(Training!Idle) /\ Training!Idle.call = "none"
    BY DEF TrainingJobFits, Training!Idle
  <2>3. Owed(Training!Idle) = RestOf(s)
    BY <1>1, <2>2 DEF Owed, RestOf
  <2> QED
    BY <2>1, <2>2, <2>3
<1>2. CASE Len(s) # 1
  <2> DEFINE j == [call |-> "recalculate", key |-> Nil, row |-> [years |-> Tail(s)]]
  <2>1. job' = [job EXCEPT ![t] = j]
    BY <1>2 DEF Training!Later, Training!Recalculate, Training!Take
  <2>2. Tail(s) \in YearLists /\ {Head(Tail(s))} \cup RestOf(Tail(s)) = RestOf(s)
    BY <1>2, YearListFacts
  <2>3. TrainingJobFits(j)
    BY <2>2 DEF TrainingJobFits
  <2>4. Owed(j) = RestOf(s)
    BY <2>2 DEF Owed
  <2>5. j.call = "recalculate"
    OBVIOUS
  <2> HIDE DEF j
  <2> QED
    BY <2>1, <2>3, <2>4, <2>5
<1> QED
  BY <1>1, <1>2

\* The same of a thread that is to recompute one year or two.
LEMMA RecalculateJob ==
  ASSUME NEW t, NEW s \in YearLists, Training!Recalculate(t, s)
  PROVE  \E j : /\ job' = [job EXCEPT ![t] = j] /\ TrainingJobFits(j)
                /\ j.call = "recalculate" /\ Owed(j) = {Head(s)} \cup RestOf(s)
<1> DEFINE j == [call |-> "recalculate", key |-> Nil, row |-> [years |-> s]]
<1>1. job' = [job EXCEPT ![t] = j]
  BY DEF Training!Recalculate, Training!Take
<1>2. TrainingJobFits(j)
  BY DEF TrainingJobFits
<1>3. Owed(j) = {Head(s)} \cup RestOf(s) /\ j.call = "recalculate"
  BY DEF Owed
<1> HIDE DEF j
<1> QED
  BY <1>1, <1>2, <1>3

LEMMA RecalculateOne ==
  ASSUME NEW t, NEW i \in Years, Training!Recalculate(t, <<i>>)
  PROVE  \E j : job' = [job EXCEPT ![t] = j] /\ j.call = "recalculate" /\ Owed(j) = {i}
<1> DEFINE s == <<i>>
<1>1. s \in YearLists /\ {Head(s)} \cup RestOf(s) = {i}
  BY TwoYears
<1>2. Training!Recalculate(t, s)
  OBVIOUS
<1> HIDE DEF s
<1> QED
  BY <1>1, <1>2, RecalculateJob

LEMMA TrainingInit ==
  ASSUME Training!TrainingConstants, Init, clients.area = "training"
  PROVE  TrainingInv
<1>1. 0 \in 0..Training!Most
  <2>1. IsFiniteSet(Entries)
    BY SameCounting DEF Training!TrainingConstants
  <2>2. Cardinality(Entries) \in Nat
    BY <2>1, FS_CardinalityType
  <2> QED
    BY <2>2, SameCounting DEF Training!Most
<1>2. [allocated_budget |-> 2, used_budget |-> 0, threshold_notified_at |-> FALSE] \in Training!Budgets
  BY <1>1 DEF Training!Budgets, Training!Allocations
<1>3. Training!TypeOK
  BY <1>2 DEF Init, Training!Start, Training!TypeOK
<1>4. /\ DOMAIN job = Threads
      /\ \A t \in Threads : job[t] = Training!Idle
  BY DEF Init, Begin, Idle, Training!Idle
<1>5. clients.allocations \subseteq Training!Allocations
  BY DEF Init, Begin, Training!TrainingConstants
<1> QED
  BY <1>3, <1>4, <1>5 DEF TrainingInv, TrainingJobFits

\* What a thread that is not waiting holds.
LEMMA TrainingJob ==
  ASSUME TrainingInv, NEW t \in Threads
  PROVE  /\ job[t] # Training!Idle => t \in clients.threads
         /\ job[t].call = "recalculate" => job[t].key = Nil /\ job[t].row.years \in YearLists
         /\ job[t].call \in {"save", "notify"} =>
              job[t].row.years \in YearLists /\ job[t].key \in Years /\ job[t].key = Head(job[t].row.years)
         /\ job[t].call = "save" =>
              job[t].row.budget \in Training!Budgets \cup {Nil} /\ job[t].row.used \in 0..Training!Most
         /\ job[t].call = "notify" => job[t].row.budget \in Training!Budgets
         /\ job[t].call \in {"edit", "delete"} => job[t].key \in Entries /\ job[t].row \in Training!Rows
         /\ job[t].call = "change" => job[t].key \in Years /\ job[t].row \in Training!Budgets
         /\ Training!Idle.call = "none"
BY DEF TrainingInv, TrainingJobFits, Training!Idle

LEMMA TrainingTaken ==
  ASSUME TrainingInv, NEW t \in Threads, t \in clients.threads, NEW j, TrainingJobFits(j),
         job' = [job EXCEPT ![t] = j], Training!TypeOK', UNCHANGED clients
  PROVE  TrainingInv'
BY DEF TrainingInv, TrainingJobFits

\* The rows that Change, SaveUsed and MaybeNotifyThreshold write.
LEMMA BudgetRows ==
  ASSUME Training!TrainingConstants, NEW b \in Training!Budgets
  PROVE  /\ b # Nil /\ Training!Above(b) \in BOOLEAN /\ Training!Marked(b) \in BOOLEAN
         /\ \A a \in Training!Allocations : [b EXCEPT !.allocated_budget = a] \in Training!Budgets
         /\ \A n \in 0..Training!Most :
              /\ [b EXCEPT !.used_budget = n] \in Training!Budgets
              /\ [allocated_budget |-> 0, used_budget |-> n, threshold_notified_at |-> FALSE] \in Training!Budgets
         /\ \A m \in BOOLEAN : [b EXCEPT !.threshold_notified_at = m] \in Training!Budgets
BY DEF Training!Budgets, Training!Allocations, Training!Above, Training!Marked,
   Training!TrainingConstants

LEMMA TrainingInvStep ==
  ASSUME Training!TrainingConstants, TrainingInv, [Training!Next]_Training!vars
  PROVE  TrainingInv'
<1>1. CASE UNCHANGED Training!vars
  BY <1>1 DEF TrainingInv, TrainingJobFits, Training!vars, Training!TypeOK
<1>2. ASSUME NEW t \in Threads, Training!Create(t)
      PROVE  TrainingInv'
  <2>1. PICK z \in Entries, r \in Training!Rows :
          /\ t \in clients.threads
          /\ entry' = [entry EXCEPT ![z] = r]
          /\ Training!Recalculate(t, <<r.training_date, r.training_date>>)
    BY <1>2 DEF Training!Create, Training!Free
  <2>2. <<r.training_date, r.training_date>> \in YearLists
    BY TwoYears DEF Training!Rows
  <2>3. Training!TypeOK'
    BY <1>2, <2>1 DEF Training!Create, TrainingInv, Training!TypeOK
  <2> QED
    BY <1>2, <2>1, <2>2, <2>3, RecalculateJob, TrainingTaken DEF Training!Create
<1>3. ASSUME NEW t \in Threads, Training!AssistantCreate(t)
      PROVE  TrainingInv'
  BY <1>3 DEF Training!AssistantCreate, TrainingInv, Training!TypeOK, TrainingJobFits
<1>4. ASSUME NEW t \in Threads, Training!LoadEntry(t)
      PROVE  TrainingInv'
  <2>1. PICK c \in {"edit", "delete"}, z \in Training!Live :
          t \in clients.threads /\ Training!Take(t, c, z, entry[z])
    BY <1>4 DEF Training!LoadEntry, Training!Free
  <2> DEFINE j == [call |-> c, key |-> z, row |-> entry[z]]
  <2>2. z \in Entries /\ entry[z] \in Training!Rows
    BY DEF Training!Live, TrainingInv, Training!TypeOK
  <2>3. TrainingJobFits(j) /\ job' = [job EXCEPT ![t] = j]
    BY <2>1, <2>2 DEF TrainingJobFits, Training!Take
  <2>4. Training!TypeOK' /\ UNCHANGED clients
    BY <1>4 DEF Training!LoadEntry, TrainingInv, Training!TypeOK
  <2> HIDE DEF j
  <2> QED
    BY <2>1, <2>3, <2>4, TrainingTaken
<1>5. ASSUME NEW t \in Threads, Training!Edit(t)
      PROVE  TrainingInv'
  <2>1. t \in clients.threads /\ job[t].key \in Entries /\ job[t].row \in Training!Rows
    BY <1>5, TrainingJob DEF Training!Edit, Training!At
  <2>2. PICK r \in Training!Rows :
          /\ entry' = [entry EXCEPT ![job[t].key] = r]
          /\ Training!Recalculate(t, Training!Touched(job[t].row.training_date, r.training_date))
    BY <1>5 DEF Training!Edit
  <2>3. Training!Touched(job[t].row.training_date, r.training_date) \in YearLists
    BY <2>1, TwoYears DEF Training!Rows, Training!Touched
  <2>4. Training!TypeOK' /\ UNCHANGED clients
    BY <1>5, <2>1, <2>2 DEF Training!Edit, TrainingInv, Training!TypeOK
  <2> QED
    BY <2>1, <2>2, <2>3, <2>4, RecalculateJob, TrainingTaken
<1>6. ASSUME NEW t \in Threads, Training!Delete(t)
      PROVE  TrainingInv'
  <2>1. t \in clients.threads /\ job[t].key \in Entries /\ job[t].row \in Training!Rows
    BY <1>6, TrainingJob DEF Training!Delete, Training!At
  <2>2. <<job[t].row.training_date, job[t].row.training_date>> \in YearLists
    BY <2>1, TwoYears DEF Training!Rows
  <2>3. /\ entry' = [entry EXCEPT ![job[t].key] = Nil]
        /\ Training!Recalculate(t, <<job[t].row.training_date, job[t].row.training_date>>)
    BY <1>6 DEF Training!Delete
  <2>4. Training!TypeOK' /\ UNCHANGED clients
    BY <1>6, <2>1, <2>3 DEF Training!Delete, TrainingInv, Training!TypeOK
  <2> QED
    BY <2>1, <2>2, <2>3, <2>4, RecalculateJob, TrainingTaken
<1>7. ASSUME NEW t \in Threads, Training!Sum(t)
      PROVE  TrainingInv'
  <2> DEFINE s == job[t].row.years
             i == Head(s)
             j == [call |-> "save", key |-> i,
                   row |-> [years |-> s, budget |-> budget[i], used |-> Training!SumEntryCosts(i)]]
  <2>1. t \in clients.threads /\ s \in YearLists /\ i \in Years
    BY <1>7, TrainingJob, YearListFacts DEF Training!Sum, Training!At
  <2>2. Training!TypeOK' /\ UNCHANGED clients
    BY <1>7 DEF Training!Sum, TrainingInv, Training!TypeOK
  <2>3. CASE Training!Later(t, s)
    BY <2>1, <2>2, <2>3, LaterJob, TrainingTaken
  <2>4. CASE job' = [job EXCEPT ![t] = j]
    <3>1. budget[i] \in Training!Budgets \cup {Nil}
      BY <2>1 DEF TrainingInv, Training!TypeOK
    <3>2. TrainingJobFits(j)
      BY <2>1, <3>1, SumBound DEF TrainingJobFits
    <3> HIDE DEF j
    <3> QED
      BY <2>1, <2>2, <2>4, <3>2, TrainingTaken
  <2>5. Training!Later(t, s) \/ job' = [job EXCEPT ![t] = j]
    BY <1>7 DEF Training!Sum, Training!Take
  <2> QED
    BY <2>3, <2>4, <2>5
<1>8. ASSUME NEW t \in Threads, Training!SaveUsed(t)
      PROVE  TrainingInv'
  <2> DEFINE i == job[t].key
             r == job[t].row
             b == IF r.budget = Nil
                  THEN [allocated_budget |-> 0, used_budget |-> r.used, threshold_notified_at |-> FALSE]
                  ELSE [r.budget EXCEPT !.used_budget = r.used]
             j == [call |-> "notify", key |-> i, row |-> [years |-> r.years, budget |-> b]]
  <2>1. /\ t \in clients.threads /\ r.years \in YearLists /\ i \in Years /\ i = Head(r.years)
        /\ r.budget \in Training!Budgets \cup {Nil} /\ r.used \in 0..Training!Most
    BY <1>8, TrainingJob DEF Training!SaveUsed, Training!At
  <2>2. b \in Training!Budgets
    <3>1. CASE r.budget = Nil
      BY <2>1, <3>1 DEF Training!Budgets, Training!Allocations
    <3>2. CASE r.budget # Nil
      BY <2>1, <3>2, BudgetRows
    <3> QED
      BY <3>1, <3>2
  <2>3. UNCHANGED <<entry, clients>>
    BY <1>8 DEF Training!SaveUsed
  <2>4. CASE Training!Done(t) /\ UNCHANGED <<budget, alerts>>
    <3>1. TrainingJobFits(Training!Idle) /\ job' = [job EXCEPT ![t] = Training!Idle]
      BY <2>4 DEF TrainingJobFits, Training!Done
    <3>2. Training!TypeOK'
      BY <2>3, <2>4 DEF TrainingInv, Training!TypeOK
    <3> QED
      BY <2>1, <2>3, <3>1, <3>2, TrainingTaken
  <2>5. CASE /\ budget' = [budget EXCEPT ![i] = IF budget[i] = Nil THEN b ELSE [budget[i] EXCEPT !.used_budget = r.used]]
             /\ alerts' = IF Training!Above(b) THEN alerts ELSE [alerts EXCEPT ![i] = 0]
             /\ job' = [job EXCEPT ![t] = j]
    <3>1. TrainingJobFits(j)
      BY <2>1, <2>2 DEF TrainingJobFits
    <3>2. budget[i] # Nil => [budget[i] EXCEPT !.used_budget = r.used] \in Training!Budgets
      BY <2>1, BudgetRows DEF TrainingInv, Training!TypeOK
    <3> HIDE DEF j, b
    <3>3. Training!TypeOK'
      BY <2>1, <2>2, <2>3, <2>5, <3>2 DEF TrainingInv, Training!TypeOK
    <3> QED
      BY <2>1, <2>3, <2>5, <3>1, <3>3, TrainingTaken
  <2> QED
    BY <1>8, <2>4, <2>5 DEF Training!SaveUsed, Training!Take
<1>9. ASSUME NEW t \in Threads, Training!MaybeNotifyThreshold(t)
      PROVE  TrainingInv'
  <2> DEFINE i == job[t].key
             b == job[t].row.budget
             s == job[t].row.years
  <2>1. t \in clients.threads /\ s \in YearLists /\ i \in Years /\ b \in Training!Budgets
    BY <1>9, TrainingJob DEF Training!MaybeNotifyThreshold, Training!At
  <2>2. /\ UNCHANGED <<entry, clients>>
        /\ alerts' \in {alerts, [alerts EXCEPT ![i] = IF alerts[i] < 2 THEN alerts[i] + 1 ELSE alerts[i]]}
    BY <1>9 DEF Training!MaybeNotifyThreshold
  <2>3. alerts' \in [Years -> 0..2]
    BY <2>1, <2>2 DEF TrainingInv, Training!TypeOK
  <2>4. budget' \in [Years -> Training!Budgets \cup {Nil}]
    <3>1. \/ budget' = budget
          \/ budget[i] # Nil /\ budget' = [budget EXCEPT ![i] = [budget[i] EXCEPT !.threshold_notified_at = Training!Marked(b)]]
      BY <1>9 DEF Training!MaybeNotifyThreshold
    <3>2. budget[i] # Nil => [budget[i] EXCEPT !.threshold_notified_at = Training!Marked(b)] \in Training!Budgets
      BY <2>1, BudgetRows DEF TrainingInv, Training!TypeOK
    <3> QED
      BY <2>1, <3>1, <3>2 DEF TrainingInv, Training!TypeOK
  <2>5. Training!TypeOK'
    BY <2>2, <2>3, <2>4 DEF TrainingInv, Training!TypeOK
  <2>6. CASE Training!Later(t, s)
    BY <2>1, <2>2, <2>5, <2>6, LaterJob, TrainingTaken
  <2>7. CASE Training!Done(t)
    <3>1. TrainingJobFits(Training!Idle) /\ job' = [job EXCEPT ![t] = Training!Idle]
      BY <2>7 DEF TrainingJobFits, Training!Done
    <3> QED
      BY <2>1, <2>2, <2>5, <3>1, TrainingTaken
  <2> QED
    BY <1>9, <2>6, <2>7 DEF Training!MaybeNotifyThreshold
<1>10. ASSUME NEW t \in Threads, Training!Crash(t)
       PROVE  TrainingInv'
  <2>1. t \in clients.threads
    BY <1>10, TrainingJob DEF Training!Crash, Training!At
  <2>2. TrainingJobFits(Training!Idle) /\ job' = [job EXCEPT ![t] = Training!Idle]
    BY <1>10 DEF TrainingJobFits, Training!Done, Training!Crash
  <2>3. Training!TypeOK' /\ UNCHANGED clients
    BY <1>10 DEF Training!Crash, TrainingInv, Training!TypeOK
  <2> QED
    BY <2>1, <2>2, <2>3, TrainingTaken
<1>11. ASSUME NEW t \in Threads, Training!Allocate(t)
       PROVE  TrainingInv'
  <2>1. PICK i \in Years, a \in clients.allocations :
          /\ budget' = [budget EXCEPT ![i] = [allocated_budget |-> a, used_budget |-> 0,
                                              threshold_notified_at |-> FALSE]]
          /\ Training!Recalculate(t, <<i>>)
    BY <1>11 DEF Training!Allocate
  <2>2. [allocated_budget |-> a, used_budget |-> 0, threshold_notified_at |-> FALSE] \in Training!Budgets
    <3>1. IsFiniteSet(Entries)
      BY SameCounting DEF Training!TrainingConstants
    <3>2. Training!Most \in Nat
      BY <3>1, FS_CardinalityType, SameCounting DEF Training!Most
    <3> QED
      BY <3>2 DEF Training!Budgets, TrainingInv
  <2>3. Training!TypeOK'
    BY <1>11, <2>1, <2>2 DEF Training!Allocate, TrainingInv, Training!TypeOK
  <2>4. t \in clients.threads /\ UNCHANGED clients
    BY <1>11 DEF Training!Allocate, Training!Free
  <2> QED
    BY <2>1, <2>3, <2>4, TwoYears, RecalculateJob, TrainingTaken
<1>12. ASSUME NEW t \in Threads, Training!LoadBudget(t)
       PROVE  TrainingInv'
  <2>1. PICK i \in Training!Budgeted : Training!Take(t, "change", i, budget[i])
    BY <1>12 DEF Training!LoadBudget
  <2> DEFINE j == [call |-> "change", key |-> i, row |-> budget[i]]
  <2>2. i \in Years /\ budget[i] \in Training!Budgets
    BY DEF Training!Budgeted, TrainingInv, Training!TypeOK
  <2>3. TrainingJobFits(j) /\ job' = [job EXCEPT ![t] = j]
    BY <2>1, <2>2 DEF TrainingJobFits, Training!Take
  <2>4. Training!TypeOK' /\ UNCHANGED clients /\ t \in clients.threads
    BY <1>12 DEF Training!LoadBudget, TrainingInv, Training!TypeOK, Training!Free
  <2> HIDE DEF j
  <2> QED
    BY <2>3, <2>4, TrainingTaken
<1>13. ASSUME NEW t \in Threads, Training!Change(t)
       PROVE  TrainingInv'
  <2> DEFINE i == job[t].key
  <2>1. t \in clients.threads /\ i \in Years /\ job[t].row \in Training!Budgets
    BY <1>13, TrainingJob DEF Training!Change, Training!At
  <2>2. PICK a \in clients.allocations :
          /\ budget' = [budget EXCEPT ![i] = [job[t].row EXCEPT !.allocated_budget = a]]
          /\ alerts' \in {alerts, [alerts EXCEPT ![i] = 0]}
    BY <1>13 DEF Training!Change
  <2>3. [job[t].row EXCEPT !.allocated_budget = a] \in Training!Budgets
    BY <2>1, BudgetRows DEF TrainingInv
  <2>4. Training!TypeOK'
    BY <1>13, <2>1, <2>2, <2>3 DEF Training!Change, TrainingInv, Training!TypeOK
  <2>5. Training!Recalculate(t, <<i>>) /\ UNCHANGED clients
    BY <1>13 DEF Training!Change
  <2> QED
    BY <2>1, <2>4, <2>5, TwoYears, RecalculateJob, TrainingTaken
<1>14. ASSUME NEW t \in Threads, Training!Drop(t)
       PROVE  TrainingInv'
  <2>1. Training!TypeOK'
    BY <1>14 DEF Training!Drop, TrainingInv, Training!TypeOK, Training!Budgeted
  <2> QED
    BY <1>14, <2>1 DEF Training!Drop, TrainingInv, TrainingJobFits
<1>15. ASSUME NEW t \in Threads, Training!Me(t)
       PROVE  TrainingInv'
  <2>1. Training!TypeOK' /\ UNCHANGED clients /\ t \in clients.threads
    BY <1>15 DEF Training!Me, TrainingInv, Training!TypeOK, Training!Free
  <2> QED
    BY <1>15, <2>1, TwoYears, RecalculateJob, TrainingTaken DEF Training!Me
<1> QED
  BY <1>1, <1>2, <1>3, <1>4, <1>5, <1>6, <1>7, <1>8, <1>9, <1>10, <1>11, <1>12, <1>13, <1>14,
     <1>15 DEF Training!Next

LEMMA TrainingAlone ==
  ASSUME TrainingInv, Training!OneAtATime, NEW t \in Threads, t \in clients.threads,
         NEW u \in Threads, u # t
  PROVE  job[u] = Training!Idle /\ ~Training!At(u, "save") /\ ~Training!At(u, "notify")
         /\ ~Training!At(u, "edit") /\ ~Training!At(u, "delete") /\ ~Training!At(u, "change")
         /\ Owed(job[u]) = {}
<1>1. job[u] = Training!Idle
  BY DEF TrainingInv, Training!OneAtATime
<1> QED
  BY <1>1 DEF Training!Idle, Training!At, Owed

\* A step that changes no costs but of years it will recompute.
LEMMA UsedFrame ==
  ASSUME TrainingInv, UsedInv, NEW t \in Threads, t \in clients.threads, NEW j,
         job'[t] = j, \A u \in Threads : u # t => job'[u] = job[u],
         UNCHANGED clients, ~Training!At(t, "save"), j.call \notin {"save", "notify"},
         j.call \in {"edit", "delete"} =>
           entry'[j.key] \in {j.row, Nil} /\ j.row.training_date = j.row.completed_at,
         j.call = "edit" => Training!OneAtATime,
         Owed(job[t]) \subseteq Owed(j),
         \A i \in Years : i \in Owed(j) \/ Training!SumEntryCosts(i)' = Training!SumEntryCosts(i),
         \A i \in Years : budget'[i] # Nil =>
           i \in Owed(j) \/ (budget[i] # Nil /\ budget'[i].used_budget = budget[i].used_budget),
         Training!OneAtATime \/ \A i \in Years : budget'[i] = Nil <=> budget[i] = Nil,
         \A z \in Training!Live' : entry'[z].training_date = entry'[z].completed_at,
         \A u \in Threads : u # t /\ (Training!At(u, "edit") \/ Training!At(u, "delete")) =>
           entry'[job[u].key] \in {entry[job[u].key], Nil}
  PROVE  UsedInv'
<1>1. Training!OneAtATime' = Training!OneAtATime
  BY DEF Training!OneAtATime
<1>2. \A i : SomeOwe(i) => SomeOwe(i)'
  BY DEF SomeOwe
<1>3. \A i : i \in Owed(j) => SomeOwe(i)'
  BY DEF SomeOwe
<1>4. \A u \in Threads, i \in Years : Saving(u, i)' <=> u # t /\ Saving(u, i)
  BY DEF Saving, Training!At
<1>5. (~Training!OneAtATime => Nil \notin {budget[i] : i \in Years})'
  BY <1>1 DEF UsedInv
<1>6. ASSUME NEW i \in Years, i \in Training!Budgeted'
      PROVE  (\/ budget[i].used_budget = Training!SumEntryCosts(i)
              \/ SomeOwe(i) \/ \E u \in Threads : Saving(u, i))'
  <2>1. CASE i \in Owed(j)
    BY <1>3, <2>1
  <2>2. CASE i \notin Owed(j)
    <3>1. i \in Training!Budgeted /\ budget'[i].used_budget = budget[i].used_budget
      BY <1>6, <2>2 DEF Training!Budgeted
    <3>2. \A u \in Threads : Saving(u, i) => Saving(u, i)'
      BY <1>4 DEF Saving
    <3>3. \/ budget[i].used_budget = Training!SumEntryCosts(i)
          \/ SomeOwe(i) \/ \E u \in Threads : Saving(u, i)
      BY <3>1 DEF UsedInv
    <3> QED
      BY <1>2, <2>2, <3>1, <3>2, <3>3
  <2> QED
    BY <2>1, <2>2
<1>7. ASSUME NEW u \in Threads, u # t, Training!At(u, "edit") \/ Training!At(u, "delete")
      PROVE  /\ entry'[job[u].key] \in {job[u].row, Nil}
             /\ job[u].row.training_date = job[u].row.completed_at
             /\ Training!At(u, "edit") => Training!OneAtATime
  BY <1>7 DEF UsedInv
<1>8. ASSUME NEW u \in Threads, u # t, Training!At(u, "save")
      PROVE  /\ (job[u].row.used = Training!SumEntryCosts(job[u].key) \/ SomeOwe(job[u].key))'
             /\ job[u].row.budget = Nil <=> budget'[job[u].key] = Nil
             /\ \A w \in Threads : Saving(w, job[u].key)' => w = u
  <2>1. job[u].key \in Years
    BY <1>8, TrainingJob DEF Training!At
  <2>2. ~Training!OneAtATime
    BY <1>8, TrainingAlone
  <2>3. job[u].row.used = Training!SumEntryCosts(job[u].key) \/ SomeOwe(job[u].key)
    BY <1>8 DEF UsedInv
  <2>4. job'[u] = job[u]
    BY <1>8
  <2>5. (job[u].row.used = Training!SumEntryCosts(job[u].key) \/ SomeOwe(job[u].key))'
    BY <1>2, <1>3, <2>1, <2>3, <2>4
  <2>6. \A w \in Threads : Saving(w, job[u].key)' => w = u
    BY <1>4, <1>8, <2>1 DEF UsedInv
  <2>7. job[u].row.budget = Nil <=> budget'[job[u].key] = Nil
    BY <1>8, <2>1, <2>2 DEF UsedInv
  <2> QED
    BY <2>5, <2>6, <2>7
<1>9. ASSUME NEW u \in Threads, u # t, Training!At(u, "notify")
      PROVE  budget'[job[u].key] # Nil
  <2>1. job[u].key \in Years /\ ~Training!OneAtATime
    BY <1>9, TrainingJob, TrainingAlone DEF Training!At
  <2> QED
    BY <1>9, <2>1 DEF UsedInv
<1>10. ASSUME NEW u \in Threads
       PROVE  (/\ Training!At(u, "edit") \/ Training!At(u, "delete") =>
                    entry[job[u].key] \in {job[u].row, Nil} /\ job[u].row.training_date = job[u].row.completed_at
               /\ Training!At(u, "edit") => Training!OneAtATime
               /\ Training!At(u, "save") =>
                    /\ job[u].row.used = Training!SumEntryCosts(job[u].key) \/ SomeOwe(job[u].key)
                    /\ job[u].row.budget = Nil <=> budget[job[u].key] = Nil
                    /\ \A w \in Threads : Saving(w, job[u].key) => w = u
               /\ Training!At(u, "notify") => budget[job[u].key] # Nil)'
  <2>1. CASE u = t
    BY <1>1, <2>1 DEF Training!At
  <2>2. CASE u # t
    <3>1. job'[u] = job[u]
      BY <2>2
    <3>2. \A c \in {"edit", "delete", "save", "notify"} : Training!At(u, c)' <=> Training!At(u, c)
      BY <3>1 DEF Training!At
    <3>3. \A w \in Threads : Training!At(u, "save") => (Saving(w, job[u].key)' => w = u)
      BY <1>8, <2>2
    <3> QED
      BY <1>1, <1>7, <1>8, <1>9, <2>2, <3>1, <3>2, <3>3
  <2> QED
    BY <2>1, <2>2
<1>11. (\A z \in Training!Live : entry[z].training_date = entry[z].completed_at)'
  OBVIOUS
<1>12. (\A i \in Training!Budgeted : \/ budget[i].used_budget = Training!SumEntryCosts(i)
                                     \/ SomeOwe(i) \/ \E u \in Threads : Saving(u, i))'
  BY <1>6 DEF Training!Budgeted
<1> QED
  BY <1>5, <1>10, <1>11, <1>12 DEF UsedInv

LEMMA UsedInit ==
  ASSUME Training!TrainingConstants, Init
  PROVE  UsedInv
<1>1. Nil \notin Training!Budgets
  BY DEF Training!TrainingConstants
<1>2. ASSUME NEW i \in Years
      PROVE  budget[i] # Nil /\ budget[i].used_budget = Training!SumEntryCosts(i)
  <2>1. Training!Units(i) = {}
    BY DEF Init, Training!Start, Training!Units, Training!Live
  <2>2. Training!SumEntryCosts(i) = 0
    BY <2>1, SameCounting, FS_EmptySet DEF Training!SumEntryCosts
  <2>3. 0 \in 0..Training!Most
    BY <2>2, SumBound
  <2>4. [allocated_budget |-> 2, used_budget |-> 0, threshold_notified_at |-> FALSE] \in Training!Budgets
    BY <2>3 DEF Training!Budgets, Training!Allocations
  <2> QED
    BY <1>1, <2>2, <2>4 DEF Init, Training!Start
<1>3. \A t \in Threads : job[t].call = "none"
  BY DEF Init, Begin, Idle
<1>4. Training!Live = {}
  BY DEF Init, Training!Start, Training!Live
<1> QED
  BY <1>2, <1>3, <1>4 DEF UsedInv, Training!Budgeted, Training!At

\* Entries that are written, by a thread that recomputes all the years it knows of.
LEMMA UsedWritten ==
  ASSUME Training!TrainingConstants, TrainingInv, UsedInv, NEW t \in Threads,
         t \in clients.threads, job[t].call \in {"none", "edit", "delete"},
         NEW z \in Entries, NEW r \in Training!Rows \cup {Nil},
         entry' = [entry EXCEPT ![z] = r], UNCHANGED <<budget, clients>>,
         r # Nil => r.training_date = r.completed_at,
         NEW s \in YearLists, Training!Recalculate(t, s),
         entry[z] # Nil => entry[z].completed_at \in {Head(s)} \cup RestOf(s),
         r # Nil => r.completed_at \in {Head(s)} \cup RestOf(s),
         \A u \in Threads : u # t /\ (Training!At(u, "edit") \/ Training!At(u, "delete")) =>
           r = Nil \/ job[u].key # z
  PROVE  UsedInv'
<1>1. PICK j : /\ job' = [job EXCEPT ![t] = j] /\ j.call = "recalculate"
               /\ Owed(j) = {Head(s)} \cup RestOf(s)
  BY RecalculateJob
<1>2. entry \in [Entries -> Training!Rows \cup {Nil}] /\ DOMAIN job = Threads
  BY DEF TrainingInv, Training!TypeOK
<1>3. \A i \in Years : i \in Owed(j) \/ Training!SumEntryCosts(i)' = Training!SumEntryCosts(i)
  <2> SUFFICES ASSUME NEW i \in Years, i \notin Owed(j)
               PROVE  Training!SumEntryCosts(i)' = Training!SumEntryCosts(i)
    OBVIOUS
  <2>1. (entry[z] # Nil => entry[z].completed_at # i) /\ (r # Nil => r.completed_at # i)
    BY <1>1
  <2> QED
    BY <1>2, <2>1, OtherSums
<1>4. \A w \in Training!Live' : entry'[w].training_date = entry'[w].completed_at
  BY <1>2 DEF UsedInv, Training!Live
<1>5. Owed(job[t]) = {} /\ ~Training!At(t, "save")
  BY DEF Owed, Training!At
<1>6. ASSUME NEW u \in Threads, u # t, Training!At(u, "edit") \/ Training!At(u, "delete")
      PROVE  entry'[job[u].key] \in {entry[job[u].key], Nil}
  BY <1>2, <1>6, TrainingJob DEF Training!At
<1>7. job'[t] = j /\ \A u \in Threads : u # t => job'[u] = job[u]
  BY <1>1, <1>2
<1> QED
  BY <1>1, <1>3, <1>4, <1>5, <1>6, <1>7, UsedFrame

LEMMA UsedStep ==
  ASSUME Training!TrainingConstants, TrainingInv, UsedInv, Counting, [Training!Next]_Training!vars
  PROVE  UsedInv'
<1> USE DEF Counting, Training!Only
<1>1. CASE UNCHANGED Training!vars
  <2>1. \A i : Training!SumEntryCosts(i)' = Training!SumEntryCosts(i)
    BY <1>1, SameSums DEF Training!vars
  <2> QED
    BY <1>1, <2>1 DEF UsedInv, Training!vars, Training!OneAtATime, Training!Live,
       Training!Budgeted, Training!At, Saving, SomeOwe
<1>2. ASSUME NEW t \in Threads, Training!Create(t)
      PROVE  UsedInv'
  <2>1. PICK z \in Entries, r \in Training!Rows :
          /\ Training!Free(t, "create") /\ r.training_date = r.completed_at
          /\ Training!Unused(z)
          /\ entry' = [entry EXCEPT ![z] = r]
          /\ Training!Recalculate(t, <<r.training_date, r.training_date>>)
    BY <1>2 DEF Training!Create, Training!Free, Training!BudgetCalls
  <2>2. t \in clients.threads /\ job[t].call = "none"
    BY <2>1 DEF Training!Free, Training!Idle
  <2>3. /\ <<r.training_date, r.training_date>> \in YearLists
        /\ Head(<<r.training_date, r.training_date>>) = r.completed_at
    BY <2>1, TwoYears DEF Training!Rows
  <2>4. entry[z] = Nil /\ \A u \in Threads : job[u].key # z
    BY <2>1 DEF Training!Unused
  <2>5. UNCHANGED <<budget, clients>>
    BY <1>2 DEF Training!Create
  <2> DEFINE s == <<r.training_date, r.training_date>>
  <2>6. s \in YearLists /\ Head(s) = r.completed_at /\ Training!Recalculate(t, s)
    BY <2>1, <2>3
  <2> HIDE DEF s
  <2>20. entry[z] # Nil => entry[z].completed_at \in {Head(s)} \cup RestOf(s)
    BY <2>4
  <2>21. r # Nil => r.completed_at \in {Head(s)} \cup RestOf(s)
    BY <2>6
  <2>22. \A u \in Threads : u # t /\ (Training!At(u, "edit") \/ Training!At(u, "delete")) =>
           r = Nil \/ job[u].key # z
    BY <2>4
  <2>23. r # Nil => r.training_date = r.completed_at
    BY <2>1
  <2>24. job[t].call \in {"none", "edit", "delete"} /\ r \in Training!Rows \cup {Nil}
    BY <2>2
  <2> QED
    BY <2>1, <2>2, <2>5, <2>6, <2>20, <2>21, <2>22, <2>23, <2>24, UsedWritten, Zenon
<1>3. ASSUME NEW t \in Threads
      PROVE  /\ ~Training!AssistantCreate(t) /\ ~Training!Crash(t)
             /\ Training!Drop(t) \/ Training!Allocate(t) => Training!OneAtATime
  BY DEF Training!AssistantCreate, Training!Crash, Training!Drop, Training!Allocate,
     Training!Free, Training!Fault, Training!BudgetCalls
<1>4. ASSUME NEW t \in Threads, Training!LoadEntry(t)
      PROVE  UsedInv'
  <2>1. PICK c \in {"edit", "delete"}, z \in Training!Live :
          Training!Free(t, c) /\ Training!Take(t, c, z, entry[z])
    BY <1>4 DEF Training!LoadEntry
  <2> DEFINE j == [call |-> c, key |-> z, row |-> entry[z]]
  <2>2. j.call = c /\ j.key = z /\ j.row = entry[z]
    OBVIOUS
  <2>3. job' = [job EXCEPT ![t] = j]
    BY <2>1 DEF Training!Take
  <2> HIDE DEF j
  <2>4. UNCHANGED <<entry, budget, clients>>
    BY <1>4 DEF Training!LoadEntry
  <2>5. t \in clients.threads /\ job[t].call = "none" /\ (c = "edit" => Training!OneAtATime)
    BY <2>1 DEF Training!Free, Training!Idle, Training!BudgetCalls
  <2>6. job'[t] = j /\ \A u \in Threads : u # t => job'[u] = job[u]
    BY <2>3 DEF TrainingInv
  <2>7. entry[z].training_date = entry[z].completed_at
    BY DEF UsedInv
  <2>8. Owed(job[t]) = {} /\ ~Training!At(t, "save")
    BY <2>5 DEF Owed, Training!At
  <2>9. \A w \in Training!Live' : entry'[w].training_date = entry'[w].completed_at
    BY <2>4 DEF UsedInv, Training!Live
  <2>10. j.call \notin {"save", "notify"} /\ j.call \in {"edit", "delete"}
    BY <2>2
  <2> QED
    BY <2>2, <2>4, <2>5, <2>6, <2>7, <2>8, <2>9, <2>10, SameSums, UsedFrame
<1>5. ASSUME NEW t \in Threads, Training!Edit(t)
      PROVE  UsedInv'
  <2> DEFINE z == job[t].key
             old == job[t].row
  <2>1. /\ job[t].call = "edit" /\ t \in clients.threads /\ z \in Entries /\ old \in Training!Rows
        /\ Training!OneAtATime /\ entry[z] \in {old, Nil} /\ old.training_date = old.completed_at
    BY <1>5, TrainingJob DEF Training!Edit, Training!At, UsedInv
  <2>2. PICK r \in Training!Rows :
          /\ r.training_date = r.completed_at
          /\ entry' = [entry EXCEPT ![z] = r]
          /\ Training!Recalculate(t, Training!Touched(old.training_date, r.training_date))
    BY <1>5 DEF Training!Edit, Training!BudgetCalls
  <2> DEFINE s == Training!Touched(old.training_date, r.training_date)
  <2>3. s \in YearLists /\ r.completed_at \in {Head(s)} \cup RestOf(s)
        /\ old.completed_at \in {Head(s)} \cup RestOf(s)
    BY <2>1, <2>2, TwoYears DEF Training!Touched, Training!Rows
  <2>4. UNCHANGED <<budget, clients>> /\ Training!Recalculate(t, s)
    BY <1>5, <2>2 DEF Training!Edit
  <2>5. \A u \in Threads : u # t => ~Training!At(u, "edit") /\ ~Training!At(u, "delete")
    BY <2>1, TrainingAlone
  <2> HIDE DEF s, z, old
  <2>20. entry[z] # Nil => entry[z].completed_at \in {Head(s)} \cup RestOf(s)
    BY <2>1, <2>3
  <2>21. r # Nil => r.completed_at \in {Head(s)} \cup RestOf(s)
    BY <2>3
  <2>22. \A u \in Threads : u # t /\ (Training!At(u, "edit") \/ Training!At(u, "delete")) =>
           r = Nil \/ job[u].key # z
    BY <2>5
  <2>23. r # Nil => r.training_date = r.completed_at
    BY <2>2
  <2>24. job[t].call \in {"none", "edit", "delete"} /\ r \in Training!Rows \cup {Nil}
    BY <2>1
  <2> QED
    BY <2>1, <2>2, <2>3, <2>4, <2>20, <2>21, <2>22, <2>23, <2>24, UsedWritten, Zenon
<1>6. ASSUME NEW t \in Threads, Training!Delete(t)
      PROVE  UsedInv'
  <2> DEFINE z == job[t].key
             old == job[t].row
             s == <<old.training_date, old.training_date>>
  <2>1. /\ job[t].call = "delete" /\ t \in clients.threads /\ z \in Entries /\ old \in Training!Rows
        /\ entry[z] \in {old, Nil} /\ old.training_date = old.completed_at
    BY <1>6, TrainingJob DEF Training!Delete, Training!At, UsedInv
  <2>2. s \in YearLists /\ Head(s) = old.completed_at
    BY <2>1, TwoYears DEF Training!Rows
  <2>3. /\ UNCHANGED <<budget, clients>> /\ Training!Recalculate(t, s)
        /\ entry' = [entry EXCEPT ![z] = Nil]
    BY <1>6 DEF Training!Delete
  <2> HIDE DEF s, z, old
  <2>4. entry[z] # Nil => entry[z].completed_at \in {Head(s)} \cup RestOf(s)
    BY <2>1, <2>2
  <2>5. job[t].call \in {"none", "edit", "delete"} /\ Nil \in Training!Rows \cup {Nil}
    BY <2>1
  <2> QED
    BY <2>1, <2>2, <2>3, <2>4, <2>5, UsedWritten, Zenon
<1>7. ASSUME NEW t \in Threads, Training!Sum(t)
      PROVE  UsedInv'
  <2>0. PICK s, i : s = job[t].row.years /\ i = Head(s)
    OBVIOUS
  <2> DEFINE
             j == [call |-> "save", key |-> i,
                   row |-> [years |-> s, budget |-> budget[i], used |-> Training!SumEntryCosts(i)]]
  <2>1. /\ job[t].call = "recalculate" /\ t \in clients.threads /\ s \in YearLists /\ i \in Years
        /\ Owed(job[t]) = {i} \cup RestOf(s)
    BY <1>7, <2>0, TrainingJob, YearListFacts DEF Training!Sum, Training!At, Owed
  <2>2. UNCHANGED <<entry, budget, clients>> /\ DOMAIN job = Threads
    BY <1>7 DEF Training!Sum, TrainingInv
  <2>3. \A k : Training!SumEntryCosts(k)' = Training!SumEntryCosts(k)
    BY <2>2, SameSums
  <2>4. \A w \in Training!Live' : entry'[w].training_date = entry'[w].completed_at
    BY <2>2 DEF UsedInv, Training!Live
  <2>5. CASE Training!Later(t, s) /\ budget[i] = Nil
    <3>1. Training!OneAtATime
      BY <2>1, <2>5 DEF UsedInv
    <3>2. PICK l : /\ job' = [job EXCEPT ![t] = l] /\ l.call \in {"none", "recalculate"}
                   /\ Owed(l) = RestOf(s)
      BY <2>1, <2>5, LaterJob
    <3>3. job'[t] = l /\ \A u \in Threads : u # t => job'[u] = job[u]
      BY <2>2, <3>2
    <3>4. ASSUME NEW u \in Threads
          PROVE  ~Training!At(u, "save")' /\ ~Training!At(u, "notify")'
                 /\ ~Training!At(u, "edit")' /\ ~Training!At(u, "delete")'
      BY <2>1, <3>1, <3>2, <3>3, TrainingAlone DEF Training!At
    <3>5. \A k : SomeOwe(k) /\ k # i => SomeOwe(k)'
      BY <2>1, <3>2, <3>3 DEF SomeOwe
    <3>6. \A u \in Threads, k \in Years : ~Saving(u, k)
      BY <2>1, <3>1, TrainingAlone DEF Saving, Training!At
    <3>7. (\A k \in Training!Budgeted :
             \/ budget[k].used_budget = Training!SumEntryCosts(k)
             \/ SomeOwe(k) \/ \E u \in Threads : Saving(u, k))'
      BY <2>2, <2>3, <2>5, <3>5, <3>6 DEF UsedInv, Training!Budgeted
    <3>8. Training!OneAtATime'
      BY <2>2, <3>1 DEF Training!OneAtATime
    <3> QED
      BY <2>4, <3>4, <3>7, <3>8 DEF UsedInv
  <2>6. CASE job' = [job EXCEPT ![t] = j]
    <3>1. j.call = "save" /\ j.key = i /\ j.row.budget = budget[i]
          /\ j.row.used = Training!SumEntryCosts(i) /\ Owed(j) = RestOf(s)
      BY DEF Owed
    <3> HIDE DEF j
    <3>2. job'[t] = j /\ \A u \in Threads : u # t => job'[u] = job[u]
      BY <2>2, <2>6
    <3>3. \A u \in Threads : ~Saving(u, i)
      <4>1. CASE Training!OneAtATime
        BY <2>1, <4>1, TrainingAlone DEF Saving, Training!At
      <4>2. CASE ~Training!OneAtATime
        <5>1. ~Training!Locked(i)
          BY <1>7, <2>0 DEF Training!Sum, Training!WaitsForRow
        <5>2. \A u \in Threads : Saving(u, i) => job[u].row.budget # Nil
          BY <2>1, <4>2 DEF UsedInv, Saving
        <5> QED
          BY <5>1, <5>2 DEF Training!Locked, Saving
      <4> QED
        BY <4>1, <4>2
    <3>4. \A k : SomeOwe(k) /\ k # i => SomeOwe(k)'
      BY <2>1, <3>1, <3>2 DEF SomeOwe
    <3>5. \A u \in Threads, k \in Years : Saving(u, k)' <=> (u = t /\ k = i) \/ (u # t /\ Saving(u, k))
      BY <2>1, <3>1, <3>2 DEF Saving, Training!At
    <3>6. Training!OneAtATime' = Training!OneAtATime
      BY <2>2 DEF Training!OneAtATime
    <3>7. (\A k \in Training!Budgeted :
             \/ budget[k].used_budget = Training!SumEntryCosts(k)
             \/ SomeOwe(k) \/ \E u \in Threads : Saving(u, k))'
      <4> SUFFICES ASSUME NEW k \in Years, budget[k] # Nil
                   PROVE  \/ budget[k].used_budget = Training!SumEntryCosts(k)
                          \/ SomeOwe(k)' \/ \E u \in Threads : Saving(u, k)'
        BY <2>2, <2>3 DEF Training!Budgeted
      <4>1. CASE k = i
        BY <3>5, <4>1
      <4>2. CASE k # i
        <5>1. \A u \in Threads : Saving(u, k) => Saving(u, k)'
          BY <2>1, <3>5 DEF Saving, Training!At
        <5> QED
          BY <3>4, <4>2, <5>1 DEF UsedInv, Training!Budgeted
      <4> QED
        BY <4>1, <4>2
    <3>8. ASSUME NEW u \in Threads, u # t, Training!At(u, "save")
          PROVE  /\ job[u].row.used = Training!SumEntryCosts(job[u].key) \/ SomeOwe(job[u].key)'
                 /\ job[u].row.budget = Nil <=> budget[job[u].key] = Nil
                 /\ \A w \in Threads : Saving(w, job[u].key)' => w = u
      <4>1. job[u].key # i /\ job[u].key \in Years
        BY <3>3, <3>8, TrainingJob DEF Saving, Training!At
      <4> QED
        BY <3>2, <3>4, <3>5, <3>8, <4>1 DEF UsedInv
    <3>9. ASSUME NEW u \in Threads
          PROVE  (/\ Training!At(u, "edit") \/ Training!At(u, "delete") =>
                       entry[job[u].key] \in {job[u].row, Nil} /\ job[u].row.training_date = job[u].row.completed_at
                  /\ Training!At(u, "edit") => Training!OneAtATime
                  /\ Training!At(u, "save") =>
                       /\ job[u].row.used = Training!SumEntryCosts(job[u].key) \/ SomeOwe(job[u].key)
                       /\ job[u].row.budget = Nil <=> budget[job[u].key] = Nil
                       /\ \A w \in Threads : Saving(w, job[u].key) => w = u
                  /\ Training!At(u, "notify") => budget[job[u].key] # Nil)'
      <4>1. CASE u = t
        <5>1. \A w \in Threads : Saving(w, i)' => w = t
          BY <2>1, <3>3, <3>5
        <5> QED
          BY <2>2, <2>3, <3>1, <3>2, <4>1, <5>1 DEF Training!At
      <4>2. CASE u # t
        <5>1. job'[u] = job[u]
          BY <3>2, <4>2
        <5>2. \A c \in {"edit", "delete", "save", "notify"} : Training!At(u, c)' <=> Training!At(u, c)
          BY <5>1 DEF Training!At
        <5>3. (\A w \in Threads : Saving(w, job[u].key) => w = u)' <=>
                (\A w \in Threads : Saving(w, job[u].key)' => w = u)
          BY <5>1 DEF Saving, Training!At
        <5> QED
          BY <2>2, <2>3, <3>6, <3>8, <4>2, <5>1, <5>2, <5>3 DEF UsedInv
      <4> QED
        BY <4>1, <4>2
    <3> QED
      BY <2>2, <2>4, <3>6, <3>7, <3>9 DEF UsedInv
  <2> QED
    BY <1>7, <2>0, <2>5, <2>6 DEF Training!Sum, Training!Take
<1>8. ASSUME NEW t \in Threads, Training!SaveUsed(t)
      PROVE  UsedInv'
  <2>0. PICK i, r : i = job[t].key /\ r = job[t].row
    OBVIOUS
  <2>1. /\ job[t].call = "save" /\ i \in Years /\ Saving(t, i)
        /\ r.budget = Nil <=> budget[i] = Nil
        /\ r.used = Training!SumEntryCosts(i) \/ SomeOwe(i)
        /\ \A u \in Threads : Saving(u, i) => u = t
    BY <1>8, <2>0, TrainingJob DEF Training!SaveUsed, Training!At, UsedInv, Saving
  <2>2. /\ budget' = [budget EXCEPT ![i] = budget'[i]] /\ budget'[i] # Nil
        /\ budget'[i].used_budget = r.used
        /\ \E l : job' = [job EXCEPT ![t] = l] /\ l.call = "notify" /\ l.key = i /\ l.row.years = r.years
        /\ UNCHANGED <<entry, clients>>
    <3> DEFINE b == IF r.budget = Nil
                    THEN [allocated_budget |-> 0, used_budget |-> r.used, threshold_notified_at |-> FALSE]
                    ELSE [r.budget EXCEPT !.used_budget = r.used]
               l == [call |-> "notify", key |-> i, row |-> [years |-> r.years, budget |-> b]]
               w == IF budget[i] = Nil THEN b ELSE [budget[i] EXCEPT !.used_budget = r.used]
    <3>1. budget' = [budget EXCEPT ![i] = w] /\ job' = [job EXCEPT ![t] = l] /\ UNCHANGED <<entry, clients>>
      BY <1>8, <2>0, <2>1 DEF Training!SaveUsed, Training!Take
    <3>2. r.budget \in Training!Budgets \cup {Nil} /\ r.used \in 0..Training!Most
      BY <1>8, <2>0, TrainingJob DEF Training!SaveUsed, Training!At
    <3>3. budget \in [Years -> Training!Budgets \cup {Nil}]
      BY DEF TrainingInv, Training!TypeOK
    <3>4. w \in Training!Budgets /\ w.used_budget = r.used
      <4>1. CASE budget[i] = Nil
        <5>1. w = [allocated_budget |-> 0, used_budget |-> r.used, threshold_notified_at |-> FALSE]
          BY <2>1, <4>1
        <5> QED
          BY <3>2, <5>1 DEF Training!Budgets, Training!Allocations
      <4>2. CASE budget[i] # Nil
        <5>1. w = [budget[i] EXCEPT !.used_budget = r.used] /\ budget[i] \in Training!Budgets
          BY <2>1, <3>3, <4>2
        <5> QED
          BY <3>2, <5>1 DEF Training!Budgets
      <4> QED
        BY <4>1, <4>2
    <3>5. w # Nil
      BY <3>4, BudgetRows
    <3>6. l.call = "notify" /\ l.key = i /\ l.row.years = r.years
      OBVIOUS
    <3> HIDE DEF l, w
    <3> QED
      BY <2>1, <3>1, <3>3, <3>4, <3>5, <3>6
  <2>3. PICK l : job' = [job EXCEPT ![t] = l] /\ l.call = "notify" /\ l.key = i /\ l.row.years = r.years
    BY <2>2
  <2>4. /\ job'[t] = l /\ \A u \in Threads : u # t => job'[u] = job[u]
        /\ \A k \in Years : k # i => budget'[k] = budget[k]
    BY <2>2, <2>3 DEF TrainingInv, Training!TypeOK
  <2>5. Owed(l) = Owed(job[t])
    BY <2>0, <2>1, <2>3 DEF Owed
  <2>6. \A k : SomeOwe(k) => SomeOwe(k)'
    BY <2>4, <2>5 DEF SomeOwe
  <2>7. \A k : Training!SumEntryCosts(k)' = Training!SumEntryCosts(k)
    BY <2>2, SameSums
  <2>8. \A u \in Threads, k \in Years : Saving(u, k)' <=> u # t /\ Saving(u, k)
    BY <2>3, <2>4 DEF Saving, Training!At
  <2>9. Training!OneAtATime' = Training!OneAtATime
    BY <2>2 DEF Training!OneAtATime
  <2>10. (\A k \in Training!Budgeted :
            \/ budget[k].used_budget = Training!SumEntryCosts(k)
            \/ SomeOwe(k) \/ \E u \in Threads : Saving(u, k))'
    <3> SUFFICES ASSUME NEW k \in Years, budget'[k] # Nil
                 PROVE  \/ budget'[k].used_budget = Training!SumEntryCosts(k)
                        \/ SomeOwe(k)' \/ \E u \in Threads : Saving(u, k)'
      BY <2>7 DEF Training!Budgeted
    <3>1. CASE k = i
      BY <2>1, <2>2, <2>6, <3>1
    <3>2. CASE k # i
      <4>1. \A u \in Threads : Saving(u, k) => Saving(u, k)'
        BY <2>1, <2>8, <3>2 DEF Saving
      <4> QED
        BY <2>4, <2>6, <3>2, <4>1 DEF UsedInv, Training!Budgeted
    <3> QED
      BY <3>1, <3>2
  <2>11. ASSUME NEW u \in Threads, u # t, Training!At(u, "save")
         PROVE  /\ job[u].row.used = Training!SumEntryCosts(job[u].key) \/ SomeOwe(job[u].key)'
                /\ job[u].row.budget = Nil <=> budget'[job[u].key] = Nil
                /\ \A w \in Threads : Saving(w, job[u].key)' => w = u
    <3>1. job[u].key # i /\ job[u].key \in Years
      BY <2>1, <2>11, TrainingJob DEF Saving, Training!At
    <3> QED
      BY <2>4, <2>6, <2>8, <2>11, <3>1 DEF UsedInv
  <2>12. ASSUME NEW u \in Threads
         PROVE  (/\ Training!At(u, "edit") \/ Training!At(u, "delete") =>
                      entry[job[u].key] \in {job[u].row, Nil} /\ job[u].row.training_date = job[u].row.completed_at
                 /\ Training!At(u, "edit") => Training!OneAtATime
                 /\ Training!At(u, "save") =>
                      /\ job[u].row.used = Training!SumEntryCosts(job[u].key) \/ SomeOwe(job[u].key)
                      /\ job[u].row.budget = Nil <=> budget[job[u].key] = Nil
                      /\ \A w \in Threads : Saving(w, job[u].key) => w = u
                 /\ Training!At(u, "notify") => budget[job[u].key] # Nil)'
    <3>1. CASE u = t
      BY <2>2, <2>3, <2>4, <3>1 DEF Training!At
    <3>2. CASE u # t
      <4>1. job'[u] = job[u]
        BY <2>4, <3>2
      <4>2. \A c \in {"edit", "delete", "save", "notify"} : Training!At(u, c)' <=> Training!At(u, c)
        BY <4>1 DEF Training!At
      <4>3. (\A w \in Threads : Saving(w, job[u].key) => w = u)' <=>
              (\A w \in Threads : Saving(w, job[u].key)' => w = u)
        BY <4>1 DEF Saving, Training!At
      <4>4. Training!At(u, "notify") => budget'[job[u].key] # Nil
        <5>1. Training!At(u, "notify") => job[u].key \in Years /\ budget[job[u].key] # Nil
          BY TrainingJob DEF Training!At, UsedInv
        <5> QED
          BY <2>2, <2>4, <5>1
      <4> QED
        BY <2>2, <2>7, <2>9, <2>11, <3>2, <4>1, <4>2, <4>3, <4>4 DEF UsedInv
    <3> QED
      BY <3>1, <3>2
  <2>13. \A w \in Training!Live' : entry'[w].training_date = entry'[w].completed_at
    BY <2>2 DEF UsedInv, Training!Live
  <2>14. \A k \in Years : budget[k] # Nil => budget'[k] # Nil
    BY <2>2, <2>4
  <2> QED
    BY <2>2, <2>9, <2>10, <2>12, <2>13, <2>14 DEF UsedInv
<1>9. ASSUME NEW t \in Threads, NEW j,
             t \in clients.threads, job[t].call # "save",
             UNCHANGED <<entry, clients>>, job' = [job EXCEPT ![t] = j],
             j.call \in {"none", "recalculate", "change"}, Owed(job[t]) \subseteq Owed(j),
             Training!OneAtATime \/ \A i \in Years : budget'[i] = Nil <=> budget[i] = Nil,
             \A i \in Years : budget'[i] # Nil =>
               i \in Owed(j) \/ (budget[i] # Nil /\ budget'[i].used_budget = budget[i].used_budget)
      PROVE  UsedInv'
  <2>1. job'[t] = j /\ \A u \in Threads : u # t => job'[u] = job[u]
    BY <1>9 DEF TrainingInv
  <2>2. \A i \in Years : i \in Owed(j) \/ Training!SumEntryCosts(i)' = Training!SumEntryCosts(i)
    BY <1>9, SameSums
  <2>3. \A w \in Training!Live' : entry'[w].training_date = entry'[w].completed_at
    BY <1>9 DEF UsedInv, Training!Live
  <2>4. ~Training!At(t, "save")
    BY <1>9 DEF Training!At
  <2> QED
    BY <1>9, <2>1, <2>2, <2>3, <2>4, UsedFrame
<1>10. ASSUME NEW t \in Threads, Training!MaybeNotifyThreshold(t)
       PROVE  UsedInv'
  <2> DEFINE i == job[t].key
             b == job[t].row.budget
             s == job[t].row.years
  <2>1. /\ t \in clients.threads /\ s \in YearLists /\ i \in Years /\ budget[i] # Nil
        /\ job[t].call = "notify"
    BY <1>10, TrainingJob DEF Training!MaybeNotifyThreshold, Training!At, UsedInv
  <2>2. PICK j : job' = [job EXCEPT ![t] = j] /\ j.call \in {"none", "recalculate"} /\ Owed(j) = RestOf(s)
    <3>1. Training!Later(t, s)
      BY <1>10, <2>1 DEF Training!MaybeNotifyThreshold
    <3> QED
      BY <2>1, <3>1, LaterJob
  <2>3. Owed(job[t]) = RestOf(s)
    BY <2>1 DEF Owed
  <2>4. \A k \in Years : (budget'[k] = Nil <=> budget[k] = Nil)
                         /\ (budget[k] # Nil => budget'[k].used_budget = budget[k].used_budget)
    <3>1. budget \in [Years -> Training!Budgets \cup {Nil}]
      BY DEF TrainingInv, Training!TypeOK
    <3>2. budget' = budget \/ budget' = [budget EXCEPT ![i] = [budget[i] EXCEPT !.threshold_notified_at = Training!Marked(b)]]
      BY <1>10 DEF Training!MaybeNotifyThreshold
    <3>3. /\ [budget[i] EXCEPT !.threshold_notified_at = Training!Marked(b)] # Nil
          /\ [budget[i] EXCEPT !.threshold_notified_at = Training!Marked(b)].used_budget = budget[i].used_budget
      <4>1. budget[i] \in Training!Budgets /\ b \in Training!Budgets
        BY <2>1, <3>1, TrainingJob
      <4>2. Training!Marked(b) \in BOOLEAN
        BY <4>1, BudgetRows
      <4>3. [budget[i] EXCEPT !.threshold_notified_at = Training!Marked(b)] \in Training!Budgets
        BY <4>1, <4>2, BudgetRows
      <4> QED
        BY <4>1, <4>3, BudgetRows DEF Training!Budgets
    <3> QED
      BY <2>1, <3>1, <3>2, <3>3
  <2>5. UNCHANGED <<entry, clients>>
    BY <1>10 DEF Training!MaybeNotifyThreshold
  <2> QED
    BY <1>9, <2>1, <2>2, <2>3, <2>4, <2>5
<1>11. ASSUME NEW t \in Threads, Training!Free(t, "allocate") \/ Training!Free(t, "drop")
              \/ Training!Free(t, "me") \/ Training!Free(t, "change")
       PROVE  job[t].call = "none" /\ Owed(job[t]) = {} /\ t \in clients.threads
  BY <1>11 DEF Training!Free, Training!Idle, Owed
<1>12. ASSUME NEW t \in Threads, Training!Allocate(t)
       PROVE  UsedInv'
  <2>1. PICK i \in Years : /\ Training!Recalculate(t, <<i>>)
                           /\ \E b : budget' = [budget EXCEPT ![i] = b]
    BY <1>12 DEF Training!Allocate
  <2>2. PICK j : /\ job' = [job EXCEPT ![t] = j] /\ j.call = "recalculate"
                 /\ Owed(j) = {i}
    BY <2>1, RecalculateOne
  <2>3. \A k \in Years : k # i => budget'[k] = budget[k]
    BY <2>1 DEF TrainingInv, Training!TypeOK
  <2>4. UNCHANGED <<entry, clients>> /\ Training!Free(t, "allocate") /\ Training!OneAtATime
    BY <1>3, <1>12 DEF Training!Allocate
  <2> QED
    BY <1>9, <1>11, <2>2, <2>3, <2>4
<1>13. ASSUME NEW t \in Threads, Training!LoadBudget(t)
       PROVE  UsedInv'
  <2>1. PICK i \in Years : Training!Free(t, "change") /\ Training!Take(t, "change", i, budget[i])
    BY <1>13 DEF Training!LoadBudget, Training!Budgeted
  <2> DEFINE j == [call |-> "change", key |-> i, row |-> budget[i]]
  <2>2. job' = [job EXCEPT ![t] = j] /\ j.call = "change"
    BY <2>1 DEF Training!Take
  <2>3. UNCHANGED <<entry, budget, clients>>
    BY <1>13 DEF Training!LoadBudget
  <2> HIDE DEF j
  <2> QED
    BY <1>9, <1>11, <2>1, <2>2, <2>3
<1>14. ASSUME NEW t \in Threads, Training!Change(t)
       PROVE  UsedInv'
  <2> DEFINE i == job[t].key
  <2>1. /\ job[t].call = "change" /\ t \in clients.threads /\ i \in Years
        /\ job[t].row \in Training!Budgets /\ Owed(job[t]) = {}
    BY <1>14, TrainingJob DEF Training!Change, Training!At, Owed
  <2>2. PICK a \in clients.allocations :
          budget' = [budget EXCEPT ![i] = [job[t].row EXCEPT !.allocated_budget = a]]
    BY <1>14 DEF Training!Change
  <2>3. [job[t].row EXCEPT !.allocated_budget = a] # Nil
    BY <2>1, BudgetRows DEF TrainingInv
  <2>4. Training!Recalculate(t, <<i>>) /\ UNCHANGED <<entry, clients>>
    BY <1>14 DEF Training!Change
  <2>5. PICK j : /\ job' = [job EXCEPT ![t] = j] /\ j.call = "recalculate" /\ Owed(j) = {i}
    BY <2>1, <2>4, RecalculateOne
  <2>6. \A k \in Years : k # i => budget'[k] = budget[k]
    BY <2>2 DEF TrainingInv, Training!TypeOK
  <2>7. budget'[i] # Nil
    BY <2>1, <2>2, <2>3 DEF TrainingInv, Training!TypeOK
  <2>8. Training!OneAtATime \/ \A k \in Years : budget'[k] = Nil <=> budget[k] = Nil
    BY <2>1, <2>6, <2>7 DEF UsedInv
  <2> QED
    BY <1>9, <2>1, <2>4, <2>5, <2>6, <2>8, ZenonT(30)
<1>15. ASSUME NEW t \in Threads, Training!Drop(t)
       PROVE  UsedInv'
  <2>1. /\ Training!Free(t, "drop") /\ UNCHANGED <<entry, job, clients>> /\ Training!OneAtATime
        /\ \A k \in Years : budget'[k] \in {budget[k], Nil}
    BY <1>3, <1>15 DEF Training!Drop, TrainingInv, Training!TypeOK
  <2>2. job'[t] = job[t] /\ \A u \in Threads : u # t => job'[u] = job[u]
    BY <2>1
  <2>3. \A i \in Years : Training!SumEntryCosts(i)' = Training!SumEntryCosts(i)
    BY <2>1, SameSums
  <2>4. \A w \in Training!Live' : entry'[w].training_date = entry'[w].completed_at
    BY <2>1 DEF UsedInv, Training!Live
  <2>5. job[t].call = "none" /\ ~Training!At(t, "save")
    BY <1>11, <2>1 DEF Training!At
  <2> QED
    BY <1>11, <2>1, <2>2, <2>3, <2>4, <2>5, UsedFrame
<1>16. ASSUME NEW t \in Threads, Training!Me(t)
       PROVE  UsedInv'
  <2>1. PICK i \in Years : Training!Recalculate(t, <<i>>)
    BY <1>16 DEF Training!Me
  <2>2. PICK j : job' = [job EXCEPT ![t] = j] /\ j.call = "recalculate"
    BY <2>1, TwoYears, RecalculateJob
  <2>3. UNCHANGED <<entry, budget, clients>> /\ Training!Free(t, "me")
    BY <1>16 DEF Training!Me
  <2> QED
    BY <1>9, <1>11, <2>2, <2>3
<1> QED
  BY <1>1, <1>2, <1>3, <1>4, <1>5, <1>6, <1>7, <1>8, <1>10, <1>12, <1>13, <1>14, <1>15, <1>16
     DEF Training!Next

LEMMA AlertingCounts == Alerting => Counting
BY DEF Alerting, Counting, Training!Only, Training!Calls, Training!EntryCalls, Training!BudgetCalls

LEMMA AlertInit ==
  ASSUME Training!TrainingConstants, Init
  PROVE  AlertInv
<1>1. UsedInv /\ Nil \notin Training!Budgets
  BY UsedInit DEF Training!TrainingConstants
<1>2. \A i \in Years : budget[i] = [allocated_budget |-> 2, used_budget |-> 0, threshold_notified_at |-> FALSE]
                       /\ alerts[i] = 0
  BY DEF Init, Training!Start
<1>3. 0 \in 0..Training!Most
  <2>1. IsFiniteSet(Entries)
    BY SameCounting DEF Training!TrainingConstants
  <2>2. Cardinality(Entries) \in Nat
    BY <2>1, FS_CardinalityType
  <2> QED
    BY <2>2, SameCounting DEF Training!Most
<1>4. ASSUME NEW i \in Years
      PROVE  /\ budget[i] # Nil /\ budget[i].allocated_budget # 0
             /\ budget[i].threshold_notified_at = FALSE /\ Training!Above(budget[i]) = FALSE
             /\ alerts[i] = 0
  <2>1. /\ budget[i].allocated_budget = 2 /\ budget[i].used_budget = 0
        /\ budget[i].threshold_notified_at = FALSE
    BY <1>2
  <2>2. Training!Above(budget[i]) = FALSE
    BY <2>1 DEF Training!Above
  <2>3. budget[i] \in Training!Budgets
    <3>1. [allocated_budget |-> 2, used_budget |-> 0, threshold_notified_at |-> FALSE] \in Training!Budgets
      BY <1>3 DEF Training!Budgets, Training!Allocations
    <3> QED
      BY <1>2, <3>1
  <2> QED
    BY <1>1, <1>2, <2>1, <2>2, <2>3
<1>5. \A t \in Threads : job[t].call = "none"
  BY DEF Init, Begin, Idle
<1>6. \A t \in Threads : ~Training!At(t, "save") /\ ~Training!At(t, "notify") /\ ~Training!At(t, "change")
  BY <1>5 DEF Training!At
<1> QED
  BY <1>4, <1>6 DEF AlertInv

\* What a change of the allocation, the use or the mark does to being above.
LEMMA AboveFields ==
  ASSUME NEW b \in Training!Budgets, NEW m \in BOOLEAN
  PROVE  /\ Training!Above(b) \in BOOLEAN /\ b.threshold_notified_at \in BOOLEAN
         /\ Training!Above([b EXCEPT !.threshold_notified_at = m]) = Training!Above(b)
         /\ [b EXCEPT !.threshold_notified_at = m].threshold_notified_at = m
         /\ [b EXCEPT !.threshold_notified_at = m].allocated_budget = b.allocated_budget
         /\ b.allocated_budget # 0 => Training!Marked(b) = Training!Above(b)
BY DEF Training!Budgets, Training!Above, Training!Marked

\* Where the thread that takes a step is the only one.
LEMMA AlertFacts ==
  ASSUME TrainingInv, AlertInv, Training!OneAtATime, NEW t \in Threads, t \in clients.threads,
         NEW i \in Years
  PROVE  /\ budget[i] \in Training!Budgets /\ budget[i] # Nil /\ budget[i].allocated_budget # 0
         /\ alerts[i] = IF budget[i].threshold_notified_at /\ Training!Above(budget[i]) THEN 1 ELSE 0
         /\ \/ budget[i].threshold_notified_at = Training!Above(budget[i])
            \/ budget[i].used_budget = Training!SumEntryCosts(i) /\ i \in Owed(job[t])
            \/ Saving(t, i) /\ budget[i].used_budget = job[t].row.used
            \/ Notifying(t, i)
<1>1. \A u \in Threads : u # t => Owed(job[u]) = {} /\ ~Saving(u, i) /\ ~Notifying(u, i)
  BY TrainingAlone DEF Saving, Notifying
<1>2. SomeOwe(i) => i \in Owed(job[t])
  BY <1>1 DEF SomeOwe
<1> QED
  BY <1>1, <1>2 DEF AlertInv, TrainingInv, Training!TypeOK

AlertFits(j) ==
  /\ \A i \in Years :
       /\ budget[i] # Nil /\ budget[i].allocated_budget # 0
       /\ alerts[i] = IF budget[i].threshold_notified_at /\ Training!Above(budget[i]) THEN 1 ELSE 0
       /\ \/ budget[i].threshold_notified_at = Training!Above(budget[i])
          \/ budget[i].used_budget = Training!SumEntryCosts(i) /\ i \in Owed(j)
          \/ j.call = "save" /\ j.key = i /\ budget[i].used_budget = j.row.used
          \/ j.call = "notify" /\ j.key = i
  /\ j.call = "save" =>
       j.row.budget = budget[j.key] /\ \E i \in Years : i = j.key /\ j.row.used = Training!SumEntryCosts(i)
  /\ j.call = "notify" => j.row.budget = budget[j.key]
  /\ j.call = "change" => j.row = budget[j.key]

LEMMA AlertFrame ==
  ASSUME TrainingInv, Training!OneAtATime, NEW t \in Threads, t \in clients.threads, NEW j,
         job' = [job EXCEPT ![t] = j],
         AlertFits(j)'
  PROVE  AlertInv'
<1>1. job'[t] = j /\ \A u \in Threads : u # t => job'[u] = job[u]
  BY DEF TrainingInv
<1>2. \A i : i \in Owed(j) => SomeOwe(i)'
  BY <1>1 DEF SomeOwe
<1>3. \A i \in Years : j.call = "save" /\ j.key = i => Saving(t, i)'
  BY <1>1 DEF Saving, Training!At
<1>4. \A i \in Years : j.call = "notify" /\ j.key = i => Notifying(t, i)'
  BY <1>1 DEF Notifying, Training!At
<1>5. ASSUME NEW u \in Threads
      PROVE  (/\ Training!At(u, "save") => job[u].row.budget = budget[job[u].key] /\ job[u].row.used = Training!SumEntryCosts(job[u].key)
              /\ Training!At(u, "notify") => job[u].row.budget = budget[job[u].key]
              /\ Training!At(u, "change") => job[u].row = budget[job[u].key])'
  <2>1. CASE u # t
    BY <1>1, <2>1, TrainingAlone DEF Training!At
  <2>2. CASE u = t
    <3>1. j.call = "save" => (job[t].row.used = Training!SumEntryCosts(job[t].key))'
      BY <1>1 DEF AlertFits
    <3> QED
      BY <1>1, <2>2, <3>1 DEF Training!At, AlertFits
  <2> QED
    BY <2>1, <2>2
<1>6. ASSUME NEW i \in Years
      PROVE  \/ (budget[i].threshold_notified_at = Training!Above(budget[i]))'
             \/ (budget[i].used_budget = Training!SumEntryCosts(i) /\ SomeOwe(i))'
             \/ \E u \in Threads : (Saving(u, i) /\ budget[i].used_budget = job[u].row.used)'
             \/ \E u \in Threads : Notifying(u, i)'
  <2>1. Training!Above(budget'[i]) = Training!Above(budget[i])'
    BY DEF Training!Above
  <2> QED
    BY <1>1, <1>2, <1>3, <1>4, <2>1 DEF AlertFits
<1>7. \A i \in Years : Training!Above(budget'[i]) = Training!Above(budget[i])'
  BY DEF Training!Above
<1> QED
  BY <1>5, <1>6, <1>7 DEF AlertInv, AlertFits

\* A step between two calls, or of one that has not touched a budget yet.
LEMMA AlertQuiet ==
  ASSUME TrainingInv, AlertInv, Training!OneAtATime, NEW t \in Threads, t \in clients.threads,
         NEW j, job' = [job EXCEPT ![t] = j], UNCHANGED <<budget, alerts>>,
         job[t].call \notin {"recalculate", "save", "notify"},
         j.call \notin {"save", "notify"}, j.call = "change" => j.row = budget[j.key]
  PROVE  AlertInv'
<1>1. Owed(job[t]) = {}
  BY DEF Owed
<1>2. ASSUME NEW i \in Years
      PROVE  /\ budget'[i] # Nil /\ budget'[i].allocated_budget # 0
             /\ alerts'[i] = IF budget'[i].threshold_notified_at /\ Training!Above(budget'[i]) THEN 1 ELSE 0
             /\ budget'[i].threshold_notified_at = Training!Above(budget'[i])
  <2>1. ~Saving(t, i) /\ ~Notifying(t, i)
    BY DEF Saving, Notifying, Training!At
  <2>2. budget'[i] = budget[i] /\ alerts'[i] = alerts[i]
    OBVIOUS
  <2> QED
    BY <1>1, <2>1, <2>2, AlertFacts
<1>3. \A i \in Years : Training!Above(budget'[i]) = Training!Above(budget[i])'
  BY DEF Training!Above
<1>4. AlertFits(j)'
  BY <1>2, <1>3 DEF AlertFits
<1> QED
  BY <1>4, AlertFrame

LEMMA AlertStep ==
  ASSUME Training!TrainingConstants, TrainingInv, UsedInv, AlertInv, Alerting,
         [Training!Next]_Training!vars
  PROVE  AlertInv'
<1>1. Training!OneAtATime /\ 0 \notin clients.allocations /\ clients.faults = {}
  BY DEF Alerting
<1>2. \A c \in {"drop", "late", "ai_create"} : c \notin clients.calls
  BY DEF Alerting, Training!Only, Training!Calls, Training!EntryCalls, Training!BudgetCalls
<1>3. CASE UNCHANGED Training!vars
  <2>1. \A i : Training!SumEntryCosts(i)' = Training!SumEntryCosts(i)
    BY <1>3, SameSums DEF Training!vars
  <2> QED
    BY <1>3, <2>1 DEF AlertInv, Training!vars, Training!At, Training!Above, Saving, Notifying,
       SomeOwe
<1>4. ASSUME NEW t \in Threads
      PROVE  ~Training!AssistantCreate(t) /\ ~Training!Crash(t) /\ ~Training!Drop(t) /\ ~Training!Allocate(t)
  BY <1>1, <1>2 DEF Training!AssistantCreate, Training!Crash, Training!Drop, Training!Allocate,
     Training!Free, Training!Fault, AlertInv
<1>5. ASSUME NEW t \in Threads, t \in clients.threads, UNCHANGED <<budget, alerts>>,
             job[t].call \in {"none", "edit", "delete"}, NEW s \in YearLists, Training!Recalculate(t, s)
      PROVE  AlertInv'
  <2>1. PICK j : job' = [job EXCEPT ![t] = j] /\ j.call = "recalculate"
    BY <1>5, RecalculateJob
  <2> QED
    BY <1>1, <1>5, <2>1, AlertQuiet
<1>6. ASSUME NEW t \in Threads, Training!Create(t) \/ Training!LoadEntry(t) \/ Training!Edit(t)
               \/ Training!Delete(t) \/ Training!LoadBudget(t) \/ Training!Me(t)
      PROVE  AlertInv'
  <2>1. UNCHANGED <<budget, alerts>>
    BY <1>6 DEF Training!Create, Training!LoadEntry, Training!Edit, Training!Delete,
       Training!LoadBudget, Training!Me
  <2>2. t \in clients.threads /\ job[t].call \in {"none", "edit", "delete"}
    BY <1>6, TrainingJob DEF Training!Create, Training!LoadEntry, Training!Edit, Training!Delete,
       Training!LoadBudget, Training!Me, Training!Free, Training!At
  <2>3. CASE Training!Create(t)
    <3>1. PICK r \in Training!Rows : Training!Recalculate(t, <<r.training_date, r.training_date>>)
      BY <2>3 DEF Training!Create
    <3>2. <<r.training_date, r.training_date>> \in YearLists
      BY TwoYears DEF Training!Rows
    <3> QED
      BY <1>5, <2>1, <2>2, <3>1, <3>2
  <2>4. CASE Training!Edit(t)
    <3>1. job[t].row \in Training!Rows
      BY <2>4, TrainingJob DEF Training!Edit, Training!At
    <3>2. PICK r \in Training!Rows :
            Training!Recalculate(t, Training!Touched(job[t].row.training_date, r.training_date))
      BY <2>4 DEF Training!Edit
    <3>3. Training!Touched(job[t].row.training_date, r.training_date) \in YearLists
      BY <3>1, TwoYears DEF Training!Rows, Training!Touched
    <3> QED
      BY <1>5, <2>1, <2>2, <3>2, <3>3
  <2>5. CASE Training!Delete(t)
    <3>1. job[t].row \in Training!Rows
      BY <2>5, TrainingJob DEF Training!Delete, Training!At
    <3>2. Training!Recalculate(t, <<job[t].row.training_date, job[t].row.training_date>>)
      BY <2>5 DEF Training!Delete
    <3>3. <<job[t].row.training_date, job[t].row.training_date>> \in YearLists
      BY <3>1, TwoYears DEF Training!Rows
    <3> QED
      BY <1>5, <2>1, <2>2, <3>2, <3>3
  <2>6. CASE Training!Me(t)
    <3>1. PICK i \in Years : Training!Recalculate(t, <<i>>)
      BY <2>6 DEF Training!Me
    <3> QED
      BY <1>5, <2>1, <2>2, <3>1, TwoYears
  <2>7. CASE Training!LoadEntry(t)
    <3>1. PICK c \in {"edit", "delete"}, z \in Training!Live : Training!Take(t, c, z, entry[z])
      BY <2>7 DEF Training!LoadEntry
    <3> DEFINE j == [call |-> c, key |-> z, row |-> entry[z]]
    <3>2. job' = [job EXCEPT ![t] = j] /\ j.call \in {"edit", "delete"}
      BY <3>1 DEF Training!Take
    <3> HIDE DEF j
    <3> QED
      BY <1>1, <2>1, <2>2, <3>2, AlertQuiet
  <2>8. CASE Training!LoadBudget(t)
    <3>1. PICK i \in Years : Training!Take(t, "change", i, budget[i])
      BY <2>8 DEF Training!LoadBudget, Training!Budgeted
    <3> DEFINE j == [call |-> "change", key |-> i, row |-> budget[i]]
    <3>2. job' = [job EXCEPT ![t] = j] /\ j.call = "change" /\ j.row = budget[j.key]
      BY <3>1 DEF Training!Take
    <3> HIDE DEF j
    <3> QED
      BY <1>1, <2>1, <2>2, <3>2, AlertQuiet
  <2> QED
    BY <1>6, <2>3, <2>4, <2>5, <2>6, <2>7, <2>8
<1>7. ASSUME NEW t \in Threads, Training!Sum(t)
      PROVE  AlertInv'
  <2>0. PICK s, i : s = job[t].row.years /\ i = Head(s)
    OBVIOUS
  <2>00. PICK j : j = [call |-> "save", key |-> i,
                      row |-> [years |-> s, budget |-> budget[i], used |-> Training!SumEntryCosts(i)]]
    OBVIOUS
  <2>1. /\ job[t].call = "recalculate" /\ t \in clients.threads /\ s \in YearLists /\ i \in Years
        /\ Owed(job[t]) = {i} \cup RestOf(s)
    BY <1>7, <2>0, TrainingJob, YearListFacts DEF Training!Sum, Training!At, Owed
  <2>2. job' = [job EXCEPT ![t] = j] /\ UNCHANGED <<entry, budget, alerts>>
    <3>1. budget[i] # Nil
      BY <2>1 DEF AlertInv
    <3> QED
      BY <1>7, <2>0, <2>00, <3>1 DEF Training!Sum, Training!Take
  <2>3. j.call = "save" /\ j.key = i /\ j.row.budget = budget[i]
        /\ j.row.used = Training!SumEntryCosts(i) /\ Owed(j) = RestOf(s)
    BY <2>00 DEF Owed
  <2>4. \A k : Training!SumEntryCosts(k)' = Training!SumEntryCosts(k)
    BY <2>2, SameSums
  <2>5. ASSUME NEW k \in Years
        PROVE  /\ budget'[k] # Nil /\ budget'[k].allocated_budget # 0
               /\ alerts'[k] = IF budget'[k].threshold_notified_at /\ Training!Above(budget'[k]) THEN 1 ELSE 0
               /\ \/ budget'[k].threshold_notified_at = Training!Above(budget'[k])
                  \/ budget'[k].used_budget = Training!SumEntryCosts(k)' /\ k \in Owed(j)
                  \/ j.call = "save" /\ j.key = k /\ budget'[k].used_budget = j.row.used
    <3>1. ~Saving(t, k) /\ ~Notifying(t, k)
      BY <2>1 DEF Saving, Notifying, Training!At
    <3>2. budget'[k] = budget[k] /\ alerts'[k] = alerts[k]
      BY <2>2
    <3> QED
      BY <1>1, <2>1, <2>3, <2>4, <3>1, <3>2, AlertFacts
  <2>6. j.row.budget = budget'[j.key] /\ \E k \in Years : k = j.key /\ j.row.used = Training!SumEntryCosts(k)'
    BY <2>1, <2>2, <2>3, <2>4
  <2>7. j.call # "notify" /\ j.call # "change"
    BY <2>3
  <2>20. \A k \in Years : Training!Above(budget'[k]) = Training!Above(budget[k])'
    BY DEF Training!Above
  <2>21. AlertFits(j)'
    BY <2>5, <2>6, <2>7, <2>20 DEF AlertFits
  <2> QED
    BY <1>1, <2>1, <2>2, <2>21, AlertFrame
<1>8. ASSUME NEW t \in Threads, Training!SaveUsed(t)
      PROVE  AlertInv'
  <2>0. PICK i, r, b :
          /\ i = job[t].key /\ r = job[t].row /\ b = [r.budget EXCEPT !.used_budget = r.used]
    OBVIOUS
  <2>1. /\ job[t].call = "save" /\ t \in clients.threads /\ i \in Years /\ Saving(t, i)
        /\ r.years \in YearLists /\ r.used \in 0..Training!Most
        /\ r.budget = budget[i] /\ r.used = Training!SumEntryCosts(i)
    BY <1>8, <2>0, TrainingJob DEF Training!SaveUsed, Training!At, AlertInv, Saving
  <2>2. /\ budget[i] \in Training!Budgets /\ budget[i] # Nil /\ budget[i].allocated_budget # 0
        /\ b = [budget[i] EXCEPT !.used_budget = r.used] /\ b \in Training!Budgets
    BY <1>1, <2>0, <2>1, AlertFacts, BudgetRows
  <2> DEFINE j == [call |-> "notify", key |-> i, row |-> [years |-> r.years, budget |-> b]]
  <2>3. /\ budget' = [budget EXCEPT ![i] = b]
        /\ alerts' = IF Training!Above(b) THEN alerts ELSE [alerts EXCEPT ![i] = 0]
        /\ job' = [job EXCEPT ![t] = j] /\ UNCHANGED entry
    BY <1>8, <2>0, <2>1, <2>2 DEF Training!SaveUsed, Training!Take
  <2>4. j.call = "notify" /\ j.key = i /\ j.row.budget = b /\ Owed(j) = RestOf(r.years)
    BY DEF Owed
  <2>5. Owed(job[t]) = RestOf(r.years)
    BY <2>0, <2>1 DEF Owed
  <2> HIDE DEF j
  <2>6. budget'[i] = b /\ alerts'[i] = (IF Training!Above(b) THEN alerts[i] ELSE 0)
        /\ \A k \in Years : k # i => budget'[k] = budget[k] /\ alerts'[k] = alerts[k]
    BY <2>1, <2>3 DEF TrainingInv, Training!TypeOK
  <2>7. \A k : Training!SumEntryCosts(k)' = Training!SumEntryCosts(k)
    BY <2>3, SameSums
  <2>8. ASSUME NEW k \in Years, k # i
        PROVE  /\ budget'[k] # Nil /\ budget'[k].allocated_budget # 0
               /\ alerts'[k] = IF budget'[k].threshold_notified_at /\ Training!Above(budget'[k]) THEN 1 ELSE 0
               /\ \/ budget'[k].threshold_notified_at = Training!Above(budget'[k])
                  \/ budget'[k].used_budget = Training!SumEntryCosts(k)' /\ k \in Owed(j)
    <3>1. ~Saving(t, k) /\ ~Notifying(t, k)
      BY <2>0, <2>1, <2>8 DEF Saving, Notifying, Training!At
    <3> QED
      BY <1>1, <2>1, <2>4, <2>5, <2>6, <2>7, <2>8, <3>1, AlertFacts
  <2>9. alerts[i] = IF budget[i].threshold_notified_at /\ Training!Above(budget[i]) THEN 1 ELSE 0
    BY <1>1, <2>1, AlertFacts
  <2>10. budget[i].threshold_notified_at = Training!Above(budget[i]) \/ b = budget[i]
    <3>1. \/ budget[i].threshold_notified_at = Training!Above(budget[i])
          \/ budget[i].used_budget = r.used
      <4>1. ~Notifying(t, i)
        BY <2>1 DEF Notifying, Training!At
      <4> QED
        BY <1>1, <2>0, <2>1, <4>1, AlertFacts
    <3>2. budget[i].used_budget = r.used => b = budget[i]
      BY <2>2 DEF Training!Budgets
    <3> QED
      BY <3>1, <3>2
  <2>11. b # Nil /\ b.allocated_budget # 0 /\ b.threshold_notified_at = budget[i].threshold_notified_at
         /\ b.threshold_notified_at \in BOOLEAN /\ Training!Above(b) \in BOOLEAN
         /\ Training!Above(budget[i]) \in BOOLEAN
    <3>1. b.allocated_budget = budget[i].allocated_budget
          /\ b.threshold_notified_at = budget[i].threshold_notified_at
      BY <2>2 DEF Training!Budgets
    <3>2. b # Nil
      BY <2>2, BudgetRows
    <3> QED
      BY <2>2, <3>1, <3>2, AboveFields
  <2>12. alerts'[i] = IF b.threshold_notified_at /\ Training!Above(b) THEN 1 ELSE 0
    BY <2>6, <2>9, <2>10, <2>11
  <2>13. ASSUME NEW k \in Years
         PROVE  /\ budget'[k] # Nil /\ budget'[k].allocated_budget # 0
                /\ alerts'[k] = IF budget'[k].threshold_notified_at /\ Training!Above(budget'[k]) THEN 1 ELSE 0
                /\ \/ budget'[k].threshold_notified_at = Training!Above(budget'[k])
                   \/ budget'[k].used_budget = Training!SumEntryCosts(k)' /\ k \in Owed(j)
                   \/ j.call = "notify" /\ j.key = k
    BY <2>4, <2>6, <2>8, <2>11, <2>12
  <2>14. j.row.budget = budget'[j.key] /\ j.call # "save" /\ j.call # "change"
    BY <2>4, <2>6
  <2>20. \A k \in Years : Training!Above(budget'[k]) = Training!Above(budget[k])'
    BY DEF Training!Above
  <2>21. AlertFits(j)'
    BY <2>13, <2>14, <2>20 DEF AlertFits
  <2> QED
    BY <1>1, <2>1, <2>3, <2>21, AlertFrame
<1>9. ASSUME NEW t \in Threads, Training!MaybeNotifyThreshold(t)
      PROVE  AlertInv'
  <2>0. PICK i, b, s : i = job[t].key /\ b = job[t].row.budget /\ s = job[t].row.years
    OBVIOUS
  <2>1. /\ job[t].call = "notify" /\ t \in clients.threads /\ i \in Years /\ s \in YearLists
        /\ b = budget[i]
    BY <1>9, <2>0, TrainingJob DEF Training!MaybeNotifyThreshold, Training!At, AlertInv
  <2>2. /\ b \in Training!Budgets /\ b # Nil /\ b.allocated_budget # 0
        /\ alerts[i] = IF b.threshold_notified_at /\ Training!Above(b) THEN 1 ELSE 0
        /\ Training!Marked(b) = Training!Above(b) /\ Training!Above(b) \in BOOLEAN
        /\ b.threshold_notified_at \in BOOLEAN
    BY <1>1, <2>1, AlertFacts, AboveFields
  <2> DEFINE c == [b EXCEPT !.threshold_notified_at = Training!Above(b)]
  <2>3. /\ c \in Training!Budgets /\ c # Nil /\ c.allocated_budget # 0
        /\ c.threshold_notified_at = Training!Above(b) /\ Training!Above(c) = Training!Above(b)
        /\ (b.threshold_notified_at = Training!Above(b) => c = b)
    <3>1. c \in Training!Budgets /\ c # Nil
      BY <2>2, BudgetRows
    <3>2. b.threshold_notified_at = Training!Above(b) => c = b
      BY <2>2 DEF Training!Budgets
    <3> QED
      BY <2>2, <3>1, <3>2, AboveFields
  <2>4. budget' = [budget EXCEPT ![i] = c]
    <3>1. budget' = IF Training!Above(b) = b.threshold_notified_at THEN budget
                    ELSE [budget EXCEPT ![i] = [budget[i] EXCEPT !.threshold_notified_at = Training!Above(b)]]
      BY <1>9, <2>0, <2>1, <2>2 DEF Training!MaybeNotifyThreshold
    <3> HIDE DEF c
    <3>2. Training!Above(b) = b.threshold_notified_at => budget' = [budget EXCEPT ![i] = c]
      BY <2>1, <2>3, <3>1 DEF TrainingInv, Training!TypeOK
    <3>3. Training!Above(b) # b.threshold_notified_at => budget' = [budget EXCEPT ![i] = c]
      BY <2>1, <3>1 DEF c
    <3> QED
      BY <3>2, <3>3
  <2> HIDE DEF c
  <2>5. /\ alerts' = IF Training!Above(b) /\ ~b.threshold_notified_at
                     THEN [alerts EXCEPT ![i] = IF alerts[i] < 2 THEN alerts[i] + 1 ELSE alerts[i]]
                     ELSE alerts
        /\ Training!Later(t, s) /\ UNCHANGED entry
    BY <1>9, <2>0, <2>1, <2>2 DEF Training!MaybeNotifyThreshold
  <2>6. alerts'[i] = (IF Training!Above(b) THEN 1 ELSE 0) /\ budget'[i] = c
        /\ \A k \in Years : k # i => budget'[k] = budget[k] /\ alerts'[k] = alerts[k]
    BY <2>1, <2>2, <2>4, <2>5 DEF TrainingInv, Training!TypeOK
  <2>7. PICK j : job' = [job EXCEPT ![t] = j] /\ j.call \in {"none", "recalculate"} /\ Owed(j) = RestOf(s)
    BY <2>1, <2>5, LaterJob
  <2>8. Owed(job[t]) = RestOf(s)
    BY <2>0, <2>1 DEF Owed
  <2>9. \A k : Training!SumEntryCosts(k)' = Training!SumEntryCosts(k)
    BY <2>5, SameSums
  <2>10. ASSUME NEW k \in Years
         PROVE  /\ budget'[k] # Nil /\ budget'[k].allocated_budget # 0
                /\ alerts'[k] = IF budget'[k].threshold_notified_at /\ Training!Above(budget'[k]) THEN 1 ELSE 0
                /\ \/ budget'[k].threshold_notified_at = Training!Above(budget'[k])
                   \/ budget'[k].used_budget = Training!SumEntryCosts(k)' /\ k \in Owed(j)
    <3>1. CASE k = i
      BY <2>3, <2>6, <3>1
    <3>2. CASE k # i
      <4>1. ~Saving(t, k) /\ ~Notifying(t, k)
        BY <2>0, <2>1, <3>2 DEF Saving, Notifying, Training!At
      <4> QED
        BY <1>1, <2>1, <2>6, <2>7, <2>8, <2>9, <3>2, <4>1, AlertFacts
    <3> QED
      BY <3>1, <3>2
  <2>20. \A k \in Years : Training!Above(budget'[k]) = Training!Above(budget[k])'
    BY DEF Training!Above
  <2>21. AlertFits(j)'
    BY <2>7, <2>10, <2>20 DEF AlertFits
  <2> QED
    BY <1>1, <2>1, <2>7, <2>21, AlertFrame
<1>10. ASSUME NEW t \in Threads, Training!Change(t)
       PROVE  AlertInv'
  <2>0. PICK i, b : i = job[t].key /\ b = job[t].row
    OBVIOUS
  <2>1. /\ job[t].call = "change" /\ t \in clients.threads /\ i \in Years /\ b = budget[i]
        /\ Owed(job[t]) = {}
    BY <1>10, <2>0, TrainingJob DEF Training!Change, Training!At, AlertInv, Owed
  <2>2. PICK a \in clients.allocations :
          /\ budget' = [budget EXCEPT ![i] = [b EXCEPT !.allocated_budget = a]]
          /\ alerts' = IF Training!Above([b EXCEPT !.allocated_budget = a]) THEN alerts
                       ELSE [alerts EXCEPT ![i] = 0]
    BY <1>10, <2>0 DEF Training!Change
  <2>3. a \in Training!Allocations /\ a # 0
    BY <1>1 DEF TrainingInv
  <2> DEFINE c == [b EXCEPT !.allocated_budget = a]
  <2>4. ASSUME NEW k \in Years
        PROVE  /\ budget[k].threshold_notified_at = Training!Above(budget[k])
               /\ budget[k].used_budget = Training!SumEntryCosts(k)
    <3>1. ~Saving(t, k) /\ ~Notifying(t, k)
      BY <2>1 DEF Saving, Notifying, Training!At
    <3>2. \A u \in Threads : ~Saving(u, k) /\ k \notin Owed(job[u])
      BY <1>1, <2>1, <3>1, TrainingAlone DEF Saving
    <3>3. budget[k].used_budget = Training!SumEntryCosts(k)
      BY <3>2, <2>4 DEF UsedInv, SomeOwe, AlertInv, Training!Budgeted
    <3> QED
      BY <1>1, <2>1, <3>1, <3>3, AlertFacts
  <2>5. b \in Training!Budgets /\ alerts[i] = IF b.threshold_notified_at /\ Training!Above(b) THEN 1 ELSE 0
    BY <1>1, <2>1, AlertFacts
  <2>6. /\ c \in Training!Budgets /\ c # Nil /\ c.allocated_budget # 0
        /\ c.threshold_notified_at = b.threshold_notified_at /\ c.used_budget = b.used_budget
        /\ Training!Above(c) \in BOOLEAN /\ b.threshold_notified_at \in BOOLEAN
    <3>1. c \in Training!Budgets /\ c # Nil
      BY <2>3, <2>5, BudgetRows
    <3>2. c.allocated_budget = a /\ c.threshold_notified_at = b.threshold_notified_at
          /\ c.used_budget = b.used_budget
      BY <2>5 DEF Training!Budgets
    <3>3. Training!Above(c) \in BOOLEAN /\ b.threshold_notified_at \in BOOLEAN
      BY <2>5, <3>1, AboveFields
    <3> QED
      BY <2>3, <3>1, <3>2, <3>3
  <2> HIDE DEF c
  <2>7. budget'[i] = c /\ alerts'[i] = (IF Training!Above(c) THEN alerts[i] ELSE 0)
        /\ \A k \in Years : k # i => budget'[k] = budget[k] /\ alerts'[k] = alerts[k]
    BY <2>1, <2>2 DEF TrainingInv, Training!TypeOK, c
  <2>8. alerts'[i] = IF c.threshold_notified_at /\ Training!Above(c) THEN 1 ELSE 0
    BY <2>1, <2>4, <2>5, <2>6, <2>7
  <2>9. Training!Recalculate(t, <<i>>) /\ UNCHANGED entry
    BY <1>10, <2>0 DEF Training!Change
  <2>10. PICK j : job' = [job EXCEPT ![t] = j] /\ j.call = "recalculate" /\ Owed(j) = {i}
    BY <2>1, <2>9, RecalculateOne
  <2>11. \A k : Training!SumEntryCosts(k)' = Training!SumEntryCosts(k)
    BY <2>9, SameSums
  <2>12. ASSUME NEW k \in Years
         PROVE  /\ budget'[k] # Nil /\ budget'[k].allocated_budget # 0
                /\ alerts'[k] = IF budget'[k].threshold_notified_at /\ Training!Above(budget'[k]) THEN 1 ELSE 0
                /\ \/ budget'[k].threshold_notified_at = Training!Above(budget'[k])
                   \/ budget'[k].used_budget = Training!SumEntryCosts(k)' /\ k \in Owed(j)
    <3>1. CASE k = i
      BY <2>1, <2>4, <2>6, <2>7, <2>8, <2>10, <2>11, <3>1
    <3>2. CASE k # i
      BY <1>1, <2>1, <2>4, <2>7, <3>2, AlertFacts
    <3> QED
      BY <3>1, <3>2
  <2>20. \A k \in Years : Training!Above(budget'[k]) = Training!Above(budget[k])'
    BY DEF Training!Above
  <2>21. AlertFits(j)'
    BY <2>10, <2>12, <2>20 DEF AlertFits
  <2> QED
    BY <1>1, <2>1, <2>10, <2>21, AlertFrame
<1> QED
  BY <1>3, <1>4, <1>6, <1>7, <1>8, <1>9, <1>10 DEF Training!Next

\* The promises of budgets, once all calls have ended.
LEMMA BudgetsKept ==
  ASSUME TrainingInv, Counting => UsedInv, Alerting => AlertInv
  PROVE  Training!TypeOK /\ Training!UsedTellsEntries /\ Training!AlertedPerCrossing
<1>1. ASSUME Training!AllIdle, NEW i
      PROVE  /\ \A t \in Threads : ~Saving(t, i) /\ ~Notifying(t, i) /\ Owed(job[t]) = {}
             /\ ~SomeOwe(i)
  <2>1. \A t \in Threads : job[t].call = "none"
    BY <1>1 DEF Training!AllIdle, Training!Idle
  <2> QED
    BY <2>1 DEF Saving, Notifying, Training!At, Owed, SomeOwe
<1>2. Training!UsedTellsEntries
  BY <1>1 DEF Training!UsedTellsEntries, Counting, UsedInv
<1>3. Training!AlertedPerCrossing
  <2> SUFFICES ASSUME Alerting, Training!AllIdle, NEW i \in Training!Budgeted
               PROVE  alerts[i] = IF Training!Above(budget[i]) THEN 1 ELSE 0
    BY DEF Training!AlertedPerCrossing, Alerting
  <2>1. i \in Years
    BY DEF Training!Budgeted
  <2>2. budget[i].threshold_notified_at = Training!Above(budget[i])
    BY <1>1, <2>1 DEF AlertInv
  <2> QED
    BY <2>1, <2>2 DEF AlertInv
<1> QED
  BY <1>2, <1>3 DEF TrainingInv

-----------------------------------------------------------------------------
(* ProjectStaffing.  What is in the columns, and what calls hold of them.  *)

PlanEdit(j) == j.call \in {"patch", "dates", "end", "delete"}

PlanFits(j) ==
  /\ j.call \in {"none", "close", "patch", "dates", "end", "delete"}
  /\ j.call # "none" => j.key \in Assignments
  /\ PlanEdit(j) => j.row \in Staffing!Rows
  /\ j.call = "close" =>
       /\ j.row.new \in Staffing!Rows /\ j.row.new.start_date <= j.row.new.end_date
       /\ j.row.before \subseteq Assignments
       /\ \A b \in j.row.before : j.row.copy[b] \in Staffing!Rows
                                 /\ j.row.copy[b].start_date < j.row.new.start_date

StaffingInv ==
  /\ assignment \in [Assignments -> Staffing!Rows \cup {Nil, Deleted}]
  /\ project \in {"active", "archived", Deleted}
  /\ today \in 1..LastPlanned
  /\ job = [t \in Threads |-> job[t]]
  /\ \A t \in Threads : PlanFits(job[t]) /\ (job[t].call # "none" => t \in clients.threads)

LEMMA StaffingNulls ==
  ASSUME Staffing!StaffingConstants
  PROVE  /\ Nil \notin Staffing!Rows /\ Deleted \notin Staffing!Rows /\ Nil # Deleted
         /\ LastPlanned \in Nat /\ LastPlanned >= 1
BY DEF Staffing!StaffingConstants

LEMMA PlanRow ==
  ASSUME Staffing!StaffingConstants, NEW r \in Staffing!Rows
  PROVE  /\ r.start_date \in Nat /\ r.end_date \in Nat /\ r.start_date <= LastPlanned
         /\ r.end_date <= LastPlanned + 1 /\ r.start_date \in Staffing!Days
         /\ r.end_date \in Staffing!Ends /\ r.weekly_allocation_hours \in Staffing!Hours
         /\ r.status \in {"active", "completed", "on_hold"}
BY StaffingNulls DEF Staffing!Rows, Staffing!Days, Staffing!Ends

\* What a PATCH that does not split, new dates and an end write.
Written(t, r) ==
  /\ assignment' = [assignment EXCEPT ![job[t].key] = r]
  /\ job[t].call # "dates" => r.start_date = job[t].row.start_date
                              /\ r.end_date <= job[t].row.end_date
  /\ job[t].row.start_date <= job[t].row.end_date => r.start_date <= r.end_date
  /\ At(t, "patch") => /\ r.end_date = job[t].row.end_date
                       /\ \/ r.weekly_allocation_hours = job[t].row.weekly_allocation_hours
                          \/ job[t].row.status # "active" \/ job[t].row.start_date >= today
                          \/ today > job[t].row.end_date

\* What a PATCH writes that splits, of its row and of the new one.
Split(t, n, old, new) ==
  /\ n \in Assignments /\ Staffing!Unused(n) /\ job[t].key \in Staffing!Live
  /\ assignment' = [assignment EXCEPT ![job[t].key] = old, ![n] = new]
  /\ job[t].row.start_date < today /\ today <= job[t].row.end_date
  /\ old.start_date = assignment[job[t].key].start_date /\ old.end_date = today - 1
  /\ old.weekly_allocation_hours = assignment[job[t].key].weekly_allocation_hours
  /\ new.start_date = today /\ new.start_date <= new.end_date
  /\ job[t].call # "dates" => new.end_date = job[t].row.end_date

LEMMA PatchShape ==
  ASSUME Staffing!StaffingConstants, StaffingInv, NEW t \in Threads,
         Staffing!Patch(t) \/ Staffing!PatchDates(t)
  PROVE  \/ UNCHANGED assignment /\ job[t].key \notin Staffing!Live
         \/ \E r \in Staffing!Rows : Written(t, r)
         \/ \E n \in Assignments, old \in Staffing!Rows, new \in Staffing!Rows : Split(t, n, old, new)
<1>1. PICK k, row : k = job[t].key /\ row = job[t].row
  OBVIOUS
<1>2. k \in Assignments /\ row \in Staffing!Rows /\ job[t].call \in {"patch", "dates"}
  BY <1>1, Zenon DEF Staffing!Patch, Staffing!PatchDates, Staffing!At, StaffingInv, PlanFits, PlanEdit
<1>3. today \in Nat /\ today >= 1 /\ today <= LastPlanned
  BY StaffingNulls DEF StaffingInv
\* What is asked for: w where the row is split, r where it is not.
<1>4. PICK h \in Staffing!Hours, w \in Staffing!Rows, r \in Staffing!Rows :
        /\ IF Staffing!RequiresSplit(row, h) THEN Staffing!SplitAssignment(k, w)
           ELSE Staffing!Save(k, r)
        /\ r.weekly_allocation_hours = h
        /\ row.start_date <= row.end_date => r.start_date <= r.end_date
        /\ job[t].call # "dates" => /\ w.end_date = row.end_date
                                    /\ r.start_date = row.start_date /\ r.end_date = row.end_date
  <2>1. CASE Staffing!Patch(t)
    <3>1. PICK h \in Staffing!Hours, s \in {"active", "on_hold"} :
            IF Staffing!RequiresSplit(row, h)
            THEN Staffing!SplitAssignment(k, [row EXCEPT !.status = s, !.weekly_allocation_hours = h])
            ELSE Staffing!Save(k, [row EXCEPT !.weekly_allocation_hours = h,
                                   !.status = IF @ = "completed" THEN @ ELSE s])
      BY <1>1, <2>1, Zenon DEF Staffing!Patch
    <3>2. PICK w, r : /\ w = [row EXCEPT !.status = s, !.weekly_allocation_hours = h]
                      /\ r = [row EXCEPT !.weekly_allocation_hours = h,
                                          !.status = IF @ = "completed" THEN @ ELSE s]
      BY Zenon
    <3>3. /\ w \in Staffing!Rows /\ w.end_date = row.end_date
          /\ r \in Staffing!Rows /\ r.weekly_allocation_hours = h
          /\ r.start_date = row.start_date /\ r.end_date = row.end_date
      BY <1>2, <3>2 DEF Staffing!Rows
    <3> QED
      BY <3>1, <3>2, <3>3
  <2>2. CASE Staffing!PatchDates(t)
    <3>1. PICK s \in Staffing!Days, f \in Staffing!Ends, h \in Staffing!Hours :
            LET w == [row EXCEPT !.start_date = s, !.end_date = f, !.weekly_allocation_hours = h]
            IN  /\ s <= IF f = Staffing!Open THEN row.end_date ELSE f
                /\ IF Staffing!RequiresSplit(row, h) THEN Staffing!SplitAssignment(k, w)
                   ELSE Staffing!Save(k, w)
      BY <1>1, <2>2, Zenon DEF Staffing!PatchDates
    <3>2. PICK w : w = [row EXCEPT !.start_date = s, !.end_date = f, !.weekly_allocation_hours = h]
      OBVIOUS
    <3>3. /\ w \in Staffing!Rows /\ w.start_date = s /\ w.end_date = f
          /\ w.weekly_allocation_hours = h
      BY <1>2, <3>2 DEF Staffing!Rows
    <3>4. s <= f
      BY <1>2, <3>1, PlanRow, StaffingNulls DEF Staffing!Open, Staffing!Days, Staffing!Ends
    <3>5. job[t].call = "dates"
      BY <2>2, Zenon DEF Staffing!PatchDates, Staffing!At
    <3>6. IF Staffing!RequiresSplit(row, h) THEN Staffing!SplitAssignment(k, w)
          ELSE Staffing!Save(k, w)
      BY <3>1, <3>2
    <3> QED
      BY <3>3, <3>4, <3>5, <3>6
  <2> QED
    BY <2>1, <2>2
<1>5. CASE ~Staffing!RequiresSplit(row, h)
  <2>1. assignment' = [assignment EXCEPT ![k] = r]
    BY <1>4, <1>5 DEF Staffing!Save
  <2>2. \/ h = row.weekly_allocation_hours \/ row.status # "active" \/ row.start_date >= today
        \/ today > row.end_date
    BY <1>2, <1>3, <1>5, PlanRow DEF Staffing!RequiresSplit
  <2>3. row.end_date <= row.end_date
    BY <1>2, PlanRow
  <2>4. At(t, "patch") => job[t].call # "dates"
    BY DEF At
  <2>5. Written(t, r)
    BY <1>1, <1>2, <1>4, <2>1, <2>2, <2>3, <2>4 DEF Written
  <2> QED
    BY <2>5
<1>6. CASE Staffing!RequiresSplit(row, h) /\ k \in Staffing!Live
  <2>1. PICK n \in Assignments :
          /\ Staffing!Unused(n)
          /\ assignment' = [assignment EXCEPT
                 ![k].end_date = today - 1, ![k].status = "completed",
                 ![n] = [w EXCEPT !.start_date = today,
                                  !.end_date = IF @ < today THEN Staffing!Open ELSE @]]
    BY <1>4, <1>6 DEF Staffing!SplitAssignment
  <2>2. PICK was, old, new : /\ was = assignment[k]
                             /\ old = [was EXCEPT !.end_date = today - 1, !.status = "completed"]
                             /\ new = [w EXCEPT !.start_date = today,
                                         !.end_date = IF @ < today THEN Staffing!Open ELSE @]
    BY Zenon
  <2>3. was \in Staffing!Rows
    BY <1>6, <2>2 DEF Staffing!Live
  <2>4. today - 1 \in Staffing!Ends /\ today \in Staffing!Days
        /\ Staffing!Open \in Staffing!Ends /\ today <= Staffing!Open
    BY <1>3, StaffingNulls DEF Staffing!Ends, Staffing!Days, Staffing!Open
  <2>5. /\ old \in Staffing!Rows /\ old.start_date = was.start_date /\ old.end_date = today - 1
        /\ old.weekly_allocation_hours = was.weekly_allocation_hours
    BY <2>2, <2>3, <2>4 DEF Staffing!Rows
  <2>6. PICK f : f = IF w.end_date < today THEN Staffing!Open ELSE w.end_date
    OBVIOUS
  <2>7. f \in Staffing!Ends /\ today <= f
    BY <1>3, <2>4, <2>6, PlanRow
  <2>8. new \in Staffing!Rows /\ new.start_date = today /\ new.end_date = f
    BY <2>2, <2>4, <2>6, <2>7 DEF Staffing!Rows
  <2>9. assignment' = [assignment EXCEPT ![k] = old, ![n] = new]
    BY <1>2, <2>1, <2>2 DEF StaffingInv
  <2>10. /\ row.start_date < today /\ today <= row.end_date
         /\ job[t].call # "dates" => f = row.end_date
    BY <1>2, <1>3, <1>4, <1>6, <2>6, PlanRow DEF Staffing!RequiresSplit
  <2>11. Split(t, n, old, new)
    BY <1>1, <1>6, <2>1, <2>2, <2>5, <2>7, <2>8, <2>9, <2>10 DEF Split
  <2> QED
    BY <2>5, <2>8, <2>11
<1>7. CASE Staffing!RequiresSplit(row, h) /\ k \notin Staffing!Live
  BY <1>1, <1>4, <1>7 DEF Staffing!SplitAssignment
<1> QED
  BY <1>5, <1>6, <1>7

LEMMA EndShape ==
  ASSUME Staffing!StaffingConstants, StaffingInv, NEW t \in Threads, Staffing!End(t)
  PROVE  \E r \in Staffing!Rows : Written(t, r)
<1>1. PICK k, row : k = job[t].key /\ row = job[t].row
  OBVIOUS
<1>2. k \in Assignments /\ row \in Staffing!Rows /\ job[t].call = "end"
  BY <1>1, Zenon DEF Staffing!End, Staffing!At, StaffingInv, PlanFits, PlanEdit
<1>3. PICK f \in Staffing!Days :
        /\ row.start_date <= f /\ f <= row.end_date
        /\ assignment' = [assignment EXCEPT ![k] = [row EXCEPT !.end_date = f, !.status = "completed"]]
  BY <1>1, Zenon DEF Staffing!End, Staffing!Save
<1>4. PICK r : r = [row EXCEPT !.end_date = f, !.status = "completed"]
  OBVIOUS
<1>5. f \in Staffing!Ends
  BY StaffingNulls DEF Staffing!Days, Staffing!Ends
<1>6. r \in Staffing!Rows /\ r.start_date = row.start_date /\ r.end_date = f
  BY <1>2, <1>4, <1>5 DEF Staffing!Rows
<1>7. Written(t, r)
  BY <1>1, <1>2, <1>3, <1>4, <1>6 DEF Written, At
<1> QED
  BY <1>6, <1>7

\* What the end of an insertion writes.
ClosedBy(t, a) ==
  LET s == job[t].row.new.start_date IN
    IF a = job[t].key THEN assignment'[a] = job[t].row.new
    ELSE IF a \in job[t].row.before
    THEN /\ assignment'[a] \in Staffing!Rows
         /\ assignment'[a].start_date = assignment[a].start_date /\ assignment'[a].end_date = s - 1
    ELSE assignment'[a] = assignment[a]

LEMMA CloseShape ==
  ASSUME Staffing!StaffingConstants, StaffingInv, NEW t \in Threads, Staffing!CloseOverlapping(t)
  PROVE  \/ UNCHANGED assignment
         \/ /\ project # Deleted /\ job[t].row.before \subseteq Staffing!Live
            /\ assignment' = [a \in Assignments |-> assignment'[a]]
            /\ Staffing!Live' = Staffing!Live \cup {job[t].key}
            /\ \A a \in Assignments : ClosedBy(t, a)
<1>1. PICK k, row, s : k = job[t].key /\ row = job[t].row /\ s = row.new.start_date
  OBVIOUS
<1>2. /\ k \in Assignments /\ row.new \in Staffing!Rows /\ row.before \subseteq Assignments
      /\ \A b \in row.before : row.copy[b] \in Staffing!Rows /\ row.copy[b].start_date < s
  BY <1>1, Zenon DEF Staffing!CloseOverlapping, Staffing!At, StaffingInv, PlanFits
<1>3. CASE project = Deleted \/ ~(row.before \subseteq Staffing!Live)
  BY <1>1, <1>3, Zenon DEF Staffing!CloseOverlapping
<1>4. CASE project # Deleted /\ row.before \subseteq Staffing!Live
  <2>1. assignment' =
          [a \in Assignments |->
             IF a = k THEN row.new
             ELSE IF a \in row.before
             THEN [assignment[a] EXCEPT
                     !.end_date = Staffing!Closed(row.copy[a], s).end_date,
                     !.status = Staffing!Closed(row.copy[a], s).status]
             ELSE assignment[a]]
    BY <1>1, <1>4, Zenon DEF Staffing!CloseOverlapping
  <2>2. ASSUME NEW a \in row.before, a # k
        PROVE  /\ assignment'[a] \in Staffing!Rows
               /\ assignment'[a].start_date = assignment[a].start_date /\ assignment'[a].end_date = s - 1
    <3>1. PICK copy, was : copy = row.copy[a] /\ was = assignment[a]
      OBVIOUS
    <3>2. copy \in Staffing!Rows /\ copy.start_date < s /\ was \in Staffing!Rows /\ a \in Assignments
      BY <1>2, <1>4, <3>1 DEF Staffing!Live
    <3>3. s - 1 \in Staffing!Ends
      BY <1>1, <1>2, <3>2, PlanRow, StaffingNulls DEF Staffing!Ends
    <3>4. PICK closed : closed = Staffing!Closed(copy, s)
      OBVIOUS
    <3>5. closed.end_date = s - 1 /\ closed.status \in {"active", "completed", "on_hold"}
      BY <3>2, <3>4, PlanRow DEF Staffing!Closed, Staffing!Rows
    <3>6. assignment'[a] = [was EXCEPT !.end_date = closed.end_date, !.status = closed.status]
      BY <2>1, <2>2, <3>1, <3>2, <3>4, Zenon
    <3>7. PICK f, g : f = closed.end_date /\ g = closed.status
      OBVIOUS
    <3>8. f \in Staffing!Ends /\ g \in {"active", "completed", "on_hold"} /\ f = s - 1
      BY <3>3, <3>5, <3>7
    <3>9. assignment'[a] = [was EXCEPT !.end_date = f, !.status = g]
      BY <3>6, <3>7
    <3>10. PICK new : new = [was EXCEPT !.end_date = f, !.status = g]
      OBVIOUS
    <3>11. new \in Staffing!Rows /\ new.start_date = was.start_date /\ new.end_date = f
      BY <3>2, <3>8, <3>10, Zenon DEF Staffing!Rows
    <3> QED
      BY <3>1, <3>8, <3>9, <3>10, <3>11
  <2>3. \A a \in Assignments : ClosedBy(t, a)
    BY <1>1, <2>1, <2>2, Zenon DEF ClosedBy
  <2>4. Staffing!Live' = Staffing!Live \cup {k}
    <3>1. \A a \in Assignments : assignment'[a] \in Staffing!Rows <=> a = k \/ assignment[a] \in Staffing!Rows
      BY <1>1, <1>2, <1>4, <2>3 DEF ClosedBy, Staffing!Live
    <3> QED
      BY <1>2, <3>1 DEF Staffing!Live
  <2>5. assignment' = [a \in Assignments |-> assignment'[a]]
    BY <2>1, Zenon
  <2> QED
    BY <1>1, <1>4, <2>3, <2>4, <2>5
<1> QED
  BY <1>3, <1>4

LEMMA PlanTaken ==
  ASSUME StaffingInv, NEW t \in Threads, NEW j, job' = [job EXCEPT ![t] = j], PlanFits(j),
         UNCHANGED <<project, clients>>, today' \in 1..LastPlanned,
         assignment' \in [Assignments -> Staffing!Rows \cup {Nil, Deleted}],
         j.call # "none" => t \in clients.threads
  PROVE  /\ StaffingInv' /\ job'[t] = j
         /\ \A u \in Threads : u # t => job'[u] = job[u]
<1>1. job'[t] = j /\ \A u \in Threads : u # t => job'[u] = job[u]
  BY DEF StaffingInv
<1>2. job' = [u \in Threads |-> job'[u]]
  BY DEF StaffingInv
<1>3. ASSUME NEW u \in Threads
      PROVE  PlanFits(job[u])' /\ (job[u].call # "none" => u \in clients.threads)'
  <2>1. PICK i : i = job'[u]
    OBVIOUS
  <2>2. PlanFits(i) /\ (i.call # "none" => u \in clients.threads)
    BY <1>1, <2>1 DEF StaffingInv
  <2>3. PlanFits(i)'
    BY <2>2 DEF PlanFits
  <2> QED
    BY <2>1, <2>2, <2>3
<1> QED
  BY <1>1, <1>2, <1>3 DEF StaffingInv

LEMMA PlanEnded ==
  ASSUME StaffingInv, NEW t \in Threads, Staffing!Done(t),
         UNCHANGED <<project, today, clients>>,
         assignment' \in [Assignments -> Staffing!Rows \cup {Nil, Deleted}]
  PROVE  /\ StaffingInv' /\ job'[t] = Staffing!Idle
         /\ \A u \in Threads : u # t => job'[u] = job[u]
<1>1. PlanFits(Staffing!Idle) /\ Staffing!Idle.call = "none"
  BY DEF PlanFits, PlanEdit, Staffing!Idle
<1>2. today' \in 1..LastPlanned
  BY DEF StaffingInv
<1> QED
  BY <1>1, <1>2, PlanTaken DEF Staffing!Done

LEMMA PlansStay ==
  ASSUME StaffingInv, UNCHANGED <<job, clients>>, today' \in 1..LastPlanned,
         project' \in {"active", "archived", Deleted},
         assignment' \in [Assignments -> Staffing!Rows \cup {Nil, Deleted}]
  PROVE  StaffingInv'
BY DEF StaffingInv, PlanFits, PlanEdit

\* A call begins, with what it has read.
LEMMA InsertShape ==
  ASSUME Staffing!StaffingConstants, StaffingInv, NEW t \in Threads, Staffing!Insert(t)
  PROVE  /\ UNCHANGED <<assignment, project, today, clients>> /\ t \in clients.threads
         /\ job[t] = Staffing!Idle
         /\ \E j : /\ job' = [job EXCEPT ![t] = j] /\ PlanFits(j) /\ j.call = "close"
                   /\ Staffing!Unused(j.key)
                   /\ j.row.before = Staffing!Overlapped(j.row.new)
                   /\ \A b \in j.row.before : j.row.copy[b] = assignment[b]
                   /\ \/ "insert_any" \in clients.calls
                      \/ \A b \in Staffing!Live : assignment[b].start_date < j.row.new.start_date
<1>1. /\ UNCHANGED <<assignment, project, today, clients>> /\ t \in clients.threads
      /\ job[t] = Staffing!Idle
  BY DEF Staffing!Insert, Staffing!Free
<1>2. PICK a \in Assignments, r \in Staffing!Rows :
        /\ Staffing!Unused(a) /\ r.start_date <= r.end_date
        /\ \/ "insert_any" \in clients.calls
           \/ \A b \in Staffing!Live : assignment[b].start_date < r.start_date
        /\ Staffing!Take(t, "close", a,
                          [new |-> r, before |-> Staffing!Overlapped(r),
                           copy |-> [b \in Staffing!Overlapped(r) |-> assignment[b]]])
  BY DEF Staffing!Insert, Staffing!Free
<1>3. PICK row : row = [new |-> r, before |-> Staffing!Overlapped(r),
                         copy |-> [b \in Staffing!Overlapped(r) |-> assignment[b]]]
  OBVIOUS
<1>4. PICK j : j = [call |-> "close", key |-> a, row |-> row]
  OBVIOUS
<1>5. /\ j.call = "close" /\ j.key = a /\ j.row = row
      /\ row.new = r /\ row.before = Staffing!Overlapped(r)
      /\ \A b \in Staffing!Overlapped(r) : row.copy[b] = assignment[b]
  BY <1>3, <1>4
<1>6. \A b \in Staffing!Overlapped(r) :
        b \in Assignments /\ assignment[b] \in Staffing!Rows /\ assignment[b].start_date < r.start_date
  BY DEF Staffing!Overlapped, Staffing!Live
<1>7. PlanFits(j)
  BY <1>2, <1>5, <1>6 DEF PlanFits, PlanEdit
<1>8. job' = [job EXCEPT ![t] = j]
  BY <1>2, <1>3, <1>4 DEF Staffing!Take
<1> QED
  BY <1>1, <1>2, <1>5, <1>7, <1>8

LEMMA LoadShape ==
  ASSUME Staffing!StaffingConstants, StaffingInv, NEW t \in Threads, Staffing!Load(t)
  PROVE  /\ UNCHANGED <<assignment, project, today, clients>> /\ t \in clients.threads
         /\ job[t] = Staffing!Idle
         /\ \E j : /\ job' = [job EXCEPT ![t] = j] /\ PlanFits(j) /\ PlanEdit(j)
                   /\ j.call \in clients.calls
                   /\ j.key \in Staffing!Live /\ j.row = assignment[j.key]
<1>1. PICK c \in {"patch", "dates", "end", "delete"}, a \in Staffing!Live :
        Staffing!Free(t, c) /\ Staffing!Take(t, c, a, assignment[a])
  BY DEF Staffing!Load
<1>2. PICK j : j = [call |-> c, key |-> a, row |-> assignment[a]]
  OBVIOUS
<1>3. a \in Assignments /\ assignment[a] \in Staffing!Rows
  BY DEF Staffing!Live
<1>4. PlanFits(j) /\ PlanEdit(j) /\ j.call = c /\ j.key = a /\ j.row = assignment[a]
  BY <1>2, <1>3 DEF PlanFits, PlanEdit
<1>5. job' = [job EXCEPT ![t] = j]
  BY <1>1, <1>2 DEF Staffing!Take
<1> QED
  BY <1>1, <1>4, <1>5 DEF Staffing!Load, Staffing!Free

LEMMA StaffingInit ==
  ASSUME Staffing!StaffingConstants, Staffing!Start, Begin PROVE StaffingInv
BY StaffingNulls DEF StaffingInv, Staffing!Start, Begin, Idle, PlanFits, PlanEdit

LEMMA StaffingInvStep ==
  ASSUME Staffing!StaffingConstants, StaffingInv, [Staffing!Next]_Staffing!vars
  PROVE  StaffingInv'
<1> DEFINE Typed == assignment' \in [Assignments -> Staffing!Rows \cup {Nil, Deleted}]
<1>1. CASE UNCHANGED Staffing!vars
  BY <1>1, PlansStay DEF StaffingInv, Staffing!vars
<1>2. CASE Staffing!NextDay
  <2>1. today' \in 1..LastPlanned /\ UNCHANGED <<assignment, project, job, clients>>
    BY <1>2, StaffingNulls DEF Staffing!NextDay, StaffingInv
  <2> QED
    BY <2>1, PlansStay DEF StaffingInv
<1>3. ASSUME NEW t \in Threads, Staffing!Insert(t) PROVE StaffingInv'
  <2>1. UNCHANGED <<assignment, project, today, clients>> /\ t \in clients.threads
    BY <1>3, InsertShape
  <2>2. PICK j : job' = [job EXCEPT ![t] = j] /\ PlanFits(j)
    BY <1>3, InsertShape
  <2>3. Typed /\ today' \in 1..LastPlanned
    BY <2>1 DEF StaffingInv
  <2> QED
    BY <2>1, <2>2, <2>3, PlanTaken
<1>4. ASSUME NEW t \in Threads, Staffing!Load(t) PROVE StaffingInv'
  <2>1. UNCHANGED <<assignment, project, today, clients>> /\ t \in clients.threads
    BY <1>4, LoadShape
  <2>2. PICK j : job' = [job EXCEPT ![t] = j] /\ PlanFits(j)
    BY <1>4, LoadShape
  <2>3. Typed /\ today' \in 1..LastPlanned
    BY <2>1 DEF StaffingInv
  <2> QED
    BY <2>1, <2>2, <2>3, PlanTaken
<1>5. ASSUME NEW t \in Threads, Staffing!CloseOverlapping(t) PROVE StaffingInv'
  <2>1. UNCHANGED <<project, today, clients>> /\ Staffing!Done(t)
    BY <1>5, Zenon DEF Staffing!CloseOverlapping
  <2>2. job[t].row.new \in Staffing!Rows
    BY <1>5, Zenon DEF Staffing!CloseOverlapping, Staffing!At, StaffingInv, PlanFits
  <2>3. Typed
    <3>1. CASE UNCHANGED assignment
      BY <3>1 DEF StaffingInv
    <3>2. CASE /\ assignment' = [a \in Assignments |-> assignment'[a]]
              /\ \A a \in Assignments : ClosedBy(t, a)
      <4>1. \A a \in Assignments : assignment'[a] \in Staffing!Rows \cup {Nil, Deleted}
        BY <2>2, <3>2 DEF ClosedBy, StaffingInv
      <4> QED
        BY <3>2, <4>1
    <3> QED
      BY <1>5, <3>1, <3>2, CloseShape
  <2> QED
    BY <2>1, <2>3, PlanEnded
<1>6. ASSUME NEW t \in Threads,
             Staffing!Patch(t) \/ Staffing!PatchDates(t) \/ Staffing!End(t) \/ Staffing!Delete(t)
      PROVE  StaffingInv'
  <2>1. UNCHANGED <<project, today, clients>> /\ Staffing!Done(t)
    BY <1>6, Zenon DEF Staffing!Patch, Staffing!PatchDates, Staffing!End, Staffing!Delete
  <2>2. CASE UNCHANGED assignment
    BY <2>1, <2>2, PlanEnded DEF StaffingInv
  <2>3. ASSUME NEW r \in Staffing!Rows, Written(t, r) PROVE Typed
    BY <2>3 DEF Written, StaffingInv
  <2>4. ASSUME NEW n \in Assignments, NEW old \in Staffing!Rows, NEW new \in Staffing!Rows,
               Split(t, n, old, new)
        PROVE  Typed
    BY <2>4 DEF Split, StaffingInv
  <2>5. CASE Staffing!Delete(t)
    <3>1. Typed
      BY <2>5 DEF Staffing!Delete, StaffingInv
    <3> QED
      BY <2>1, <3>1, PlanEnded
  <2>6. CASE Typed
    BY <2>1, <2>6, PlanEnded
  <2> HIDE DEF Typed
  <2> QED
    BY <1>6, <2>2, <2>3, <2>4, <2>5, <2>6, PatchShape, EndShape
<1>7. ASSUME NEW t \in Threads, Staffing!SetProject(t) \/ Staffing!DeleteProject(t)
      PROVE  StaffingInv'
  <2>1. UNCHANGED <<today, job, clients>> /\ project' \in {"active", "archived", Deleted} /\ Typed
    BY <1>7 DEF Staffing!SetProject, Staffing!DeleteProject, StaffingInv
  <2> QED
    BY <2>1, PlansStay DEF StaffingInv
<1> QED
  BY <1>1, <1>2, <1>3, <1>4, <1>5, <1>6, <1>7 DEF Staffing!Next

\* A new allocation of a copy that is current changes nothing before today.
LEMMA PastStays ==
  ASSUME Staffing!StaffingConstants, StaffingInv, [Staffing!Next]_Staffing!vars, NEW t \in Threads,
         Staffing!At(t, "patch"), job'[t] = Staffing!Idle, job[t].row.status = "active",
         today <= job[t].row.end_date, assignment[job[t].key] = job[t].row,
         NEW d \in 0..today - 1
  PROVE  Staffing!Planned(d)' = Staffing!Planned(d)
<1>1. PICK k, row : k = job[t].key /\ row = job[t].row
  OBVIOUS
<1>2. /\ k \in Assignments /\ row \in Staffing!Rows /\ k \in Staffing!Live /\ assignment[k] = row
      /\ today \in Nat /\ d \in Nat /\ d < today
  BY <1>1, StaffingNulls DEF Staffing!At, StaffingInv, PlanFits, PlanEdit, Staffing!Live
<1>3. CASE UNCHANGED assignment
  BY <1>3 DEF Staffing!Planned, Staffing!Live
<1>4. ASSUME {b \in Staffing!Live' : Staffing!Covers(assignment'[b], d)}
               = {b \in Staffing!Live : Staffing!Covers(assignment[b], d)},
             \A b \in Staffing!Live : Staffing!Covers(assignment[b], d) =>
               assignment'[b].weekly_allocation_hours = assignment[b].weekly_allocation_hours
      PROVE  Staffing!Planned(d)' = Staffing!Planned(d)
  BY <1>4 DEF Staffing!Planned
<1>5. row.start_date \in Nat /\ row.end_date \in Nat /\ today <= row.end_date /\ row.status = "active"
  BY <1>1, <1>2, PlanRow
<1>6. ASSUME NEW r \in Staffing!Rows, Written(t, r)
      PROVE  Staffing!Planned(d)' = Staffing!Planned(d)
  <2>1. /\ assignment'[k] = r /\ \A b \in Assignments : b # k => assignment'[b] = assignment[b]
        /\ Staffing!Live' = Staffing!Live
    BY <1>1, <1>2, <1>6 DEF Written, StaffingInv, Staffing!Live
  <2>2. /\ r.start_date = row.start_date /\ r.end_date = row.end_date
        /\ \/ r.weekly_allocation_hours = row.weekly_allocation_hours
           \/ row.start_date >= today
    BY <1>1, <1>2, <1>5, <1>6 DEF Written, At, Staffing!At
  <2>3. \A b \in Staffing!Live : Staffing!Covers(assignment'[b], d) <=> Staffing!Covers(assignment[b], d)
    BY <1>2, <2>1, <2>2 DEF Staffing!Covers, Staffing!Live
  <2>4. ASSUME NEW b \in Staffing!Live, Staffing!Covers(assignment[b], d)
        PROVE  assignment'[b].weekly_allocation_hours = assignment[b].weekly_allocation_hours
    BY <1>2, <1>5, <2>1, <2>2, <2>4 DEF Staffing!Covers, Staffing!Live
  <2> QED
    BY <1>4, <2>1, <2>3, <2>4
<1>7. ASSUME NEW n \in Assignments, NEW old \in Staffing!Rows, NEW new \in Staffing!Rows,
             Split(t, n, old, new)
      PROVE  Staffing!Planned(d)' = Staffing!Planned(d)
  <2>1. n \notin Staffing!Live /\ n # k
    BY <1>2, <1>7, StaffingNulls DEF Split, Staffing!Unused, Staffing!Live
  <2>2. /\ assignment'[k] = old /\ assignment'[n] = new
        /\ \A b \in Assignments : b # k /\ b # n => assignment'[b] = assignment[b]
    BY <1>1, <1>2, <1>7, <2>1 DEF Split, StaffingInv
  <2>3. Staffing!Live' = Staffing!Live \cup {n}
    BY <1>2, <2>2 DEF Staffing!Live
  <2>4. /\ old.start_date = row.start_date /\ old.end_date = today - 1 /\ new.start_date = today
        /\ old.weekly_allocation_hours = row.weekly_allocation_hours
    BY <1>1, <1>2, <1>7 DEF Split
  <2>5. ~Staffing!Covers(new, d) /\ (Staffing!Covers(old, d) <=> Staffing!Covers(row, d))
    BY <1>2, <1>5, <2>4 DEF Staffing!Covers
  <2>6. \A b \in Staffing!Live : Staffing!Covers(assignment'[b], d) <=> Staffing!Covers(assignment[b], d)
    BY <1>2, <2>1, <2>2, <2>5 DEF Staffing!Live
  <2>7. ASSUME NEW b \in Staffing!Live
        PROVE  assignment'[b].weekly_allocation_hours = assignment[b].weekly_allocation_hours
    BY <1>2, <2>1, <2>2, <2>4 DEF Staffing!Live
  <2> QED
    BY <1>4, <2>2, <2>3, <2>5, <2>6, <2>7
<1>8. CASE Staffing!Patch(t)
  BY <1>3, <1>6, <1>7, <1>8, PatchShape
<1>9. job[t].call = "patch" /\ Staffing!Idle.call = "none"
  BY DEF Staffing!At, Staffing!Idle
<1>10. job'[t] # job[t]
  BY <1>9
<1>11. ASSUME NEW u \in Threads, u # t,
              \/ Staffing!Insert(u) \/ Staffing!CloseOverlapping(u) \/ Staffing!Load(u)
              \/ Staffing!Patch(u) \/ Staffing!PatchDates(u) \/ Staffing!End(u) \/ Staffing!Delete(u)
       PROVE  FALSE
  <2>1. \E j : job' = [job EXCEPT ![u] = j]
    BY <1>11, Zenon DEF Staffing!Insert, Staffing!CloseOverlapping, Staffing!Load, Staffing!Patch,
       Staffing!PatchDates, Staffing!End, Staffing!Delete, Staffing!Take, Staffing!Done
  <2> QED
    BY <1>10, <1>11, <2>1 DEF StaffingInv
<1>12. ASSUME \/ Staffing!Insert(t) \/ Staffing!CloseOverlapping(t) \/ Staffing!Load(t)
              \/ Staffing!PatchDates(t) \/ Staffing!End(t) \/ Staffing!Delete(t)
       PROVE  FALSE
  BY <1>9, <1>12 DEF Staffing!Insert, Staffing!CloseOverlapping, Staffing!Load, Staffing!PatchDates,
     Staffing!End, Staffing!Delete, Staffing!Free, Staffing!At
<1>13. job' # job
  BY <1>10
<1> QED
  BY <1>8, <1>11, <1>12, <1>13 DEF Staffing!Next, Staffing!vars, Staffing!NextDay, Staffing!SetProject,
     Staffing!DeleteProject

(* Dates stay in order if nobody edits them while others work: what holds  *)
(* the start of an assignment, the row or a copy, holds the same one.      *)

JobOrder(j) ==
  /\ j.call = "dates" => "dates" \in clients.calls
  /\ PlanEdit(j) =>
       /\ j.row.start_date <= j.row.end_date /\ assignment[j.key] # Nil
       /\ j.key \in Staffing!Live => assignment[j.key].start_date = j.row.start_date
  /\ j.call = "close" =>
       /\ assignment[j.key] = Nil
       /\ \A b \in j.row.before :
            /\ assignment[b] # Nil
            /\ b \in Staffing!Live => assignment[b].start_date < j.row.new.start_date

\* Of two threads.
JobsOrder(i, j) ==
  /\ PlanEdit(i) /\ PlanEdit(j) /\ i.key = j.key => i.row.start_date = j.row.start_date
  /\ PlanEdit(i) /\ j.call = "close" /\ i.key \in j.row.before =>
       i.row.start_date < j.row.new.start_date
  /\ i.call = "close" /\ j.call # "none" => i.key # j.key

RowsOrder == \A a \in Staffing!Live : assignment[a].start_date <= assignment[a].end_date

OrderInv ==
  /\ RowsOrder
  /\ \A t \in Threads : JobOrder(job[t])
  /\ \A t, u \in Threads : t # u => JobsOrder(job[t], job[u])

Orderly == Staffing!OneAtATime \/ "dates" \notin clients.calls

LEMMA OrderKept ==
  ASSUME OrderInv, NEW t \in Threads, NEW j, j = job'[t],
         \A u \in Threads : u # t => job'[u] = job[u],
         RowsOrder', JobOrder(j)',
         \A i : JobOrder(i) /\ (\E u \in Threads : u # t /\ i = job[u]) => JobOrder(i)',
         \A u \in Threads : u # t => JobsOrder(j, job[u]) /\ JobsOrder(job[u], j)
  PROVE  OrderInv'
<1>1. ASSUME NEW u \in Threads PROVE JobOrder(job[u])'
  <2>1. PICK i : i = job'[u]
    OBVIOUS
  <2>2. JobOrder(i)'
    BY <2>1 DEF OrderInv
  <2> QED
    BY <2>1, <2>2
<1>2. ASSUME NEW u \in Threads, NEW w \in Threads, u # w PROVE JobsOrder(job[u], job[w])'
  <2>1. PICK g, h : g = job'[u] /\ h = job'[w]
    OBVIOUS
  <2>2. JobsOrder(g, h)
    BY <1>2, <2>1 DEF OrderInv
  <2>3. JobsOrder(g, h)'
    BY <2>2 DEF JobsOrder, PlanEdit
  <2> QED
    BY <2>1, <2>3
<1> QED
  BY <1>1, <1>2 DEF OrderInv

LEMMA OrderUntouched ==
  ASSUME OrderInv, NEW t \in Threads, NEW j, j = job'[t],
         \A u \in Threads : u # t => job'[u] = job[u],
         UNCHANGED <<assignment, clients>>, JobOrder(j),
         \A u \in Threads : u # t => JobsOrder(j, job[u]) /\ JobsOrder(job[u], j)
  PROVE  OrderInv'
<1>1. Staffing!Live' = Staffing!Live
  BY DEF Staffing!Live
<1>2. RowsOrder'
  BY <1>1 DEF OrderInv, RowsOrder
<1>3. \A i : JobOrder(i) => JobOrder(i)'
  BY <1>1 DEF JobOrder, PlanEdit
<1> QED
  BY <1>2, <1>3, OrderKept

\* The end of a call.
LEMMA OrderEnded ==
  ASSUME OrderInv, NEW t \in Threads, job'[t] = Staffing!Idle,
         \A u \in Threads : u # t => job'[u] = job[u], RowsOrder',
         \A i : JobOrder(i) /\ (\E u \in Threads : u # t /\ i = job[u]) => JobOrder(i)'
  PROVE  OrderInv'
<1>1. PICK j : j = Staffing!Idle
  OBVIOUS
<1>2. j.call = "none" /\ j = job'[t]
  BY <1>1 DEF Staffing!Idle
<1>3. JobOrder(j)' /\ \A i : JobsOrder(i, j) /\ JobsOrder(j, i)
  BY <1>2 DEF JobOrder, JobsOrder, PlanEdit
<1> QED
  BY <1>2, <1>3, OrderKept

LEMMA OrderStarts ==
  ASSUME Staffing!StaffingConstants, StaffingInv, OrderInv, NEW t \in Threads,
         Staffing!Insert(t) \/ Staffing!Load(t)
  PROVE  OrderInv'
<1>1. UNCHANGED <<assignment, clients>>
  BY InsertShape, LoadShape
<1>2. CASE Staffing!Insert(t)
  <2>1. PICK j : /\ job' = [job EXCEPT ![t] = j] /\ PlanFits(j) /\ j.call = "close"
                 /\ Staffing!Unused(j.key)
                 /\ j.row.before = Staffing!Overlapped(j.row.new)
    BY <1>2, InsertShape
  <2>2. j = job'[t] /\ \A u \in Threads : u # t => job'[u] = job[u]
    BY <2>1 DEF StaffingInv
  <2>3. \A b \in j.row.before : b \in Staffing!Live /\ assignment[b].start_date < j.row.new.start_date
    BY <2>1 DEF Staffing!Overlapped
  <2>4. JobOrder(j)
    BY <2>1, <2>3, StaffingNulls DEF JobOrder, PlanEdit, Staffing!Unused, Staffing!Live
  <2>5. ASSUME NEW u \in Threads, u # t PROVE JobsOrder(j, job[u]) /\ JobsOrder(job[u], j)
    <3>1. j.key # job[u].key
      BY <2>1 DEF Staffing!Unused
    <3>2. JobOrder(job[u])
      BY DEF OrderInv
    <3> QED
      BY <2>1, <2>3, <3>1, <3>2 DEF JobOrder, JobsOrder, PlanEdit
  <2> QED
    BY <1>1, <2>2, <2>4, <2>5, OrderUntouched
<1>3. CASE Staffing!Load(t)
  <2>1. PICK j : /\ job' = [job EXCEPT ![t] = j] /\ PlanFits(j) /\ PlanEdit(j)
                 /\ j.call \in clients.calls
                 /\ j.key \in Staffing!Live /\ j.row = assignment[j.key]
    BY <1>3, LoadShape
  <2>2. j = job'[t] /\ \A u \in Threads : u # t => job'[u] = job[u]
    BY <2>1 DEF StaffingInv
  <2>3. assignment[j.key] # Nil
    BY <2>1, StaffingNulls DEF Staffing!Live
  <2>4. JobOrder(j)
    BY <2>1, <2>3 DEF JobOrder, PlanEdit, OrderInv, RowsOrder
  <2>5. ASSUME NEW u \in Threads, u # t PROVE JobsOrder(j, job[u]) /\ JobsOrder(job[u], j)
    <3>1. JobOrder(job[u])
      BY DEF OrderInv
    <3> QED
      BY <2>1, <2>3, <3>1 DEF JobOrder, JobsOrder, PlanEdit
  <2> QED
    BY <1>1, <2>2, <2>4, <2>5, OrderUntouched
<1> QED
  BY <1>2, <1>3

LEMMA OrderWritten ==
  ASSUME Staffing!StaffingConstants, StaffingInv, OrderInv, Orderly, NEW t \in Threads,
         NEW r \in Staffing!Rows, Written(t, r), PlanEdit(job[t]), UNCHANGED clients,
         job'[t] = Staffing!Idle, \A u \in Threads : u # t => job'[u] = job[u]
  PROVE  OrderInv'
<1>1. PICK old, k : old = job[t] /\ k = old.key
  OBVIOUS
<1>2. /\ JobOrder(old) /\ PlanEdit(old) /\ k \in Assignments /\ t \in clients.threads
      /\ old.call # "none"
  BY <1>1 DEF OrderInv, StaffingInv, PlanFits, PlanEdit
<1>3. /\ assignment'[k] = r /\ \A a \in Assignments : a # k => assignment'[a] = assignment[a]
      /\ Staffing!Live' = Staffing!Live \cup {k}
  BY <1>1, <1>2 DEF Written, StaffingInv, Staffing!Live
<1>4. RowsOrder'
  BY <1>1, <1>2, <1>3 DEF RowsOrder, OrderInv, JobOrder, Written, Staffing!Live
<1>5. ASSUME NEW i, JobOrder(i), NEW u \in Threads, u # t, i = job[u] PROVE JobOrder(i)'
  <2>1. JobsOrder(old, i) /\ JobsOrder(i, old) /\ PlanFits(i)
    BY <1>1, <1>5 DEF OrderInv, StaffingInv
  <2>2. CASE old.call = "dates"
    <3>1. i.call = "none"
      BY <1>2, <1>5, <2>2 DEF JobOrder, Orderly, Staffing!OneAtATime, StaffingInv
    <3> QED
      BY <3>1 DEF JobOrder, PlanEdit
  <2>3. CASE old.call # "dates"
    <3>1. r.start_date = old.row.start_date
      BY <1>1, <2>3 DEF Written
    <3>2. r # Nil /\ assignment[k] # Nil
      BY <1>1, <1>2, StaffingNulls DEF JobOrder
    <3>3. PlanEdit(i) =>
            /\ assignment'[i.key] # Nil
            /\ i.key \in Staffing!Live' => assignment'[i.key].start_date = i.row.start_date
      BY <1>1, <1>2, <1>3, <1>5, <2>1, <3>1, <3>2 DEF JobOrder, JobsOrder, PlanFits, PlanEdit
    <3>4. i.call = "close" =>
            /\ assignment'[i.key] = Nil
            /\ \A b \in i.row.before :
                 /\ assignment'[b] # Nil
                 /\ b \in Staffing!Live' => assignment'[b].start_date < i.row.new.start_date
      BY <1>1, <1>2, <1>3, <1>5, <2>1, <3>1, <3>2 DEF JobOrder, JobsOrder, PlanFits
    <3> QED
      BY <1>5, <3>3, <3>4 DEF JobOrder, PlanEdit
  <2> QED
    BY <2>2, <2>3
<1> QED
  BY <1>4, <1>5, OrderEnded

LEMMA OrderSplit ==
  ASSUME Staffing!StaffingConstants, StaffingInv, OrderInv, NEW t \in Threads,
         NEW n \in Assignments, NEW old \in Staffing!Rows, NEW new \in Staffing!Rows,
         Split(t, n, old, new), PlanEdit(job[t]), UNCHANGED clients,
         job'[t] = Staffing!Idle, \A u \in Threads : u # t => job'[u] = job[u]
  PROVE  OrderInv'
<1>1. PICK was, k : was = job[t] /\ k = was.key
  OBVIOUS
<1>2. /\ JobOrder(was) /\ PlanEdit(was) /\ k \in Assignments /\ k \in Staffing!Live
      /\ assignment[n] = Nil /\ \A u \in Threads : job[u].key # n
  BY <1>1 DEF OrderInv, StaffingInv, PlanFits, PlanEdit, Split, Staffing!Unused
<1>3. n \notin Staffing!Live /\ n # k
  BY <1>2, StaffingNulls DEF Staffing!Live
<1>4. /\ assignment'[k] = old /\ assignment'[n] = new
      /\ \A a \in Assignments : a # k /\ a # n => assignment'[a] = assignment[a]
  BY <1>1, <1>2, <1>3 DEF Split, StaffingInv
<1>5. Staffing!Live' = Staffing!Live \cup {n}
  BY <1>2, <1>4 DEF Staffing!Live
<1>6. /\ old.start_date = assignment[k].start_date /\ old.start_date < today
      /\ old.end_date = today - 1 /\ new.start_date <= new.end_date /\ today \in Nat
      /\ old.start_date \in Nat
  BY <1>1, <1>2, PlanRow, StaffingNulls DEF Split, JobOrder, StaffingInv
<1>7. RowsOrder'
  BY <1>3, <1>4, <1>5, <1>6 DEF RowsOrder, OrderInv, Staffing!Live
<1>8. ASSUME NEW i, JobOrder(i), NEW u \in Threads, u # t, i = job[u] PROVE JobOrder(i)'
  <2>1. i.key # n /\ PlanFits(i)
    BY <1>2, <1>8 DEF StaffingInv
  <2>2. i.call = "close" => n \notin i.row.before /\ i.key # k
    BY <1>2, <1>8, StaffingNulls DEF JobOrder, Staffing!Live
  <2>3. old # Nil
    BY StaffingNulls
  <2> QED
    BY <1>2, <1>4, <1>5, <1>6, <1>8, <2>1, <2>2, <2>3 DEF JobOrder, PlanFits, PlanEdit
<1> QED
  BY <1>7, <1>8, OrderEnded

LEMMA OrderClose ==
  ASSUME Staffing!StaffingConstants, StaffingInv, OrderInv, NEW t \in Threads,
         Staffing!CloseOverlapping(t)
  PROVE  OrderInv'
<1>1. /\ UNCHANGED <<project, today, clients>> /\ job[t].call = "close"
      /\ job'[t] = Staffing!Idle /\ \A u \in Threads : u # t => job'[u] = job[u]
  BY Zenon DEF Staffing!CloseOverlapping, Staffing!At, Staffing!Done, StaffingInv
<1>2. CASE UNCHANGED assignment
  <2>1. Staffing!Live' = Staffing!Live
    BY <1>2 DEF Staffing!Live
  <2>2. RowsOrder'
    BY <1>2, <2>1 DEF OrderInv, RowsOrder
  <2>3. \A i : JobOrder(i) => JobOrder(i)'
    BY <1>1, <1>2, <2>1 DEF JobOrder, PlanEdit
  <2> QED
    BY <1>1, <2>2, <2>3, OrderEnded
<1>3. CASE /\ job[t].row.before \subseteq Staffing!Live
          /\ Staffing!Live' = Staffing!Live \cup {job[t].key}
          /\ \A a \in Assignments : ClosedBy(t, a)
  <2>1. PICK was, k, row, s : was = job[t] /\ k = was.key /\ row = was.row /\ s = row.new.start_date
    OBVIOUS
  <2>2. /\ JobOrder(was) /\ PlanFits(was) /\ was.call = "close" /\ k \in Assignments
        /\ row.new \in Staffing!Rows /\ row.new.start_date <= row.new.end_date
    BY <1>1, <2>1 DEF OrderInv, StaffingInv, PlanFits
  <2>3. /\ k \notin Staffing!Live /\ assignment[k] = Nil /\ k \notin row.before
        /\ row.before \subseteq Staffing!Live
    BY <1>3, <2>1, <2>2, StaffingNulls DEF JobOrder, Staffing!Live
  <2>4. /\ assignment'[k] = row.new
        /\ \A b \in row.before : /\ assignment'[b] \in Staffing!Rows
                                 /\ assignment'[b].start_date = assignment[b].start_date
                                 /\ assignment'[b].end_date = s - 1
        /\ \A a \in Assignments : a # k /\ a \notin row.before => assignment'[a] = assignment[a]
    BY <1>3, <2>1, <2>2, <2>3 DEF ClosedBy, Staffing!Live
  <2>5. \A b \in row.before : assignment[b].start_date < s
    BY <2>1, <2>2, <2>3 DEF JobOrder
  <2>6. RowsOrder'
    <3>1. ASSUME NEW b \in row.before PROVE assignment'[b].start_date <= assignment'[b].end_date
      <4>1. assignment[b].start_date \in Nat /\ s \in Nat
        BY <2>1, <2>2, <2>3, PlanRow DEF Staffing!Live
      <4> QED
        BY <2>4, <2>5, <4>1
    <3> QED
      BY <1>3, <2>1, <2>2, <2>4, <3>1 DEF RowsOrder, OrderInv, Staffing!Live
  <2>7. ASSUME NEW i, JobOrder(i), NEW u \in Threads, u # t, i = job[u] PROVE JobOrder(i)'
    <3>1. JobsOrder(was, i) /\ PlanFits(i)
      BY <2>1, <2>7 DEF OrderInv, StaffingInv
    <3>2. i.call # "none" => i.key # k
      BY <2>1, <2>2, <3>1 DEF JobsOrder
    <3>3. i.call = "close" => k \notin i.row.before /\ i.key \notin row.before
      BY <2>3, <2>7, StaffingNulls DEF JobOrder, Staffing!Live
    <3>4. PlanEdit(i) =>
            /\ assignment'[i.key] # Nil
            /\ i.key \in Staffing!Live' => assignment'[i.key].start_date = i.row.start_date
      BY <1>3, <2>1, <2>3, <2>4, <2>7, <3>1, <3>2, StaffingNulls DEF JobOrder, PlanFits, PlanEdit
    <3>5. i.call = "close" =>
            /\ assignment'[i.key] = Nil
            /\ \A b \in i.row.before :
                 /\ assignment'[b] # Nil
                 /\ b \in Staffing!Live' => assignment'[b].start_date < i.row.new.start_date
      BY <1>3, <2>1, <2>3, <2>4, <2>7, <3>1, <3>2, <3>3, StaffingNulls DEF JobOrder, PlanFits
    <3> QED
      BY <1>1, <2>7, <3>4, <3>5 DEF JobOrder, PlanEdit
  <2> QED
    BY <1>1, <2>6, <2>7, OrderEnded
<1> QED
  BY <1>2, <1>3, CloseShape

LEMMA OrderStep ==
  ASSUME Staffing!StaffingConstants, StaffingInv, OrderInv, Orderly, [Staffing!Next]_Staffing!vars
  PROVE  OrderInv'
<1>1. ASSUME UNCHANGED <<job, clients>>,
             \A a \in Assignments : assignment'[a] = assignment[a]
                                    \/ (a \in Staffing!Live /\ assignment'[a] = Deleted)
      PROVE  OrderInv'
  <2>1. /\ Staffing!Live' \subseteq Staffing!Live
        /\ \A a \in Staffing!Live' : assignment'[a] = assignment[a]
        /\ \A a \in Assignments : assignment'[a] = Nil <=> assignment[a] = Nil
    BY <1>1, StaffingNulls DEF Staffing!Live
  <2>2. RowsOrder'
    BY <2>1 DEF OrderInv, RowsOrder
  <2>3. ASSUME NEW t \in Threads PROVE JobOrder(job[t])'
    <3>1. PICK i : i = job[t]
      OBVIOUS
    <3>2. JobOrder(i) /\ PlanFits(i)
      BY <3>1 DEF OrderInv, StaffingInv
    <3>3. JobOrder(i)'
      BY <1>1, <2>1, <3>2 DEF JobOrder, PlanFits, PlanEdit
    <3> QED
      BY <1>1, <3>1, <3>3
  <2> QED
    BY <1>1, <2>2, <2>3 DEF OrderInv, JobsOrder, PlanEdit
<1>2. ASSUME NEW t \in Threads,
             Staffing!Patch(t) \/ Staffing!PatchDates(t) \/ Staffing!End(t) \/ Staffing!Delete(t)
      PROVE  OrderInv'
  <2>1. /\ UNCHANGED clients /\ PlanEdit(job[t]) /\ job'[t] = Staffing!Idle
        /\ \A u \in Threads : u # t => job'[u] = job[u]
    BY <1>2, Zenon DEF Staffing!Patch, Staffing!PatchDates, Staffing!End, Staffing!Delete, Staffing!Done,
       Staffing!At, PlanEdit, StaffingInv
  <2>2. ASSUME \A a \in Assignments : assignment'[a] = assignment[a]
                                      \/ (assignment[a] # Nil /\ assignment'[a] = Deleted)
        PROVE  OrderInv'
    <3>1. /\ Staffing!Live' \subseteq Staffing!Live
          /\ \A a \in Staffing!Live' : assignment'[a] = assignment[a]
          /\ \A a \in Assignments : assignment'[a] = Nil <=> assignment[a] = Nil
      BY <2>2, StaffingNulls DEF Staffing!Live
    <3>2. RowsOrder'
      BY <3>1 DEF OrderInv, RowsOrder
    <3>3. ASSUME NEW i, JobOrder(i), NEW u \in Threads, i = job[u] PROVE JobOrder(i)'
      <4>1. PlanFits(i)
        BY <3>3 DEF StaffingInv
      <4> QED
        BY <2>1, <3>1, <3>3, <4>1 DEF JobOrder, PlanFits, PlanEdit
    <3> QED
      BY <2>1, <3>2, <3>3, OrderEnded
  <2>3. CASE UNCHANGED assignment
    BY <2>2, <2>3
  <2>4. CASE Staffing!Delete(t)
    <3>1. job[t].key \in Assignments /\ assignment[job[t].key] # Nil
      BY <2>1 DEF OrderInv, JobOrder, StaffingInv, PlanFits, PlanEdit
    <3> QED
      BY <2>2, <2>4, <3>1 DEF Staffing!Delete, StaffingInv
  <2> QED
    BY <1>2, <2>1, <2>3, <2>4, PatchShape, EndShape, OrderWritten, OrderSplit
<1>3. ASSUME NEW t \in Threads, Staffing!DeleteProject(t) PROVE OrderInv'
  BY <1>1, <1>3 DEF Staffing!DeleteProject
<1>4. CASE UNCHANGED <<assignment, job, clients>>
  BY <1>1, <1>4
<1> QED
  BY <1>2, <1>3, <1>4, OrderStarts, OrderClose
  DEF Staffing!Next, Staffing!vars, Staffing!NextDay, Staffing!SetProject

(* One call at a time, in the order of starts: one assignment ends before  *)
(* another starts, and a call holds what is stored.                        *)

Apart ==
  \A a, b \in Staffing!Live : a # b =>
    \/ assignment[a].end_date < assignment[b].start_date
    \/ assignment[b].end_date < assignment[a].start_date

PlanCurrent(j) ==
  /\ PlanEdit(j) => /\ j.call \in clients.calls
                   /\ j.key \in Staffing!Live /\ assignment[j.key] = j.row
  /\ j.call = "close" =>
       /\ j.row.before = Staffing!Overlapped(j.row.new)
       /\ \A b \in Staffing!Live : assignment[b].start_date < j.row.new.start_date

ApartInv == Apart /\ \A t \in Threads : PlanCurrent(job[t])

InOrder == Staffing!OneAtATime /\ clients.calls \cap {"insert_any", "dates"} = {}

LEMMA PlannerAlone ==
  ASSUME StaffingInv, Staffing!OneAtATime, NEW t \in Threads, t \in clients.threads
  PROVE  \A u \in Threads : u # t => job[u].call = "none"
BY DEF Staffing!OneAtATime, StaffingInv

LEMMA ApartKept ==
  ASSUME NEW t \in Threads, \A u \in Threads : u # t => job'[u].call = "none",
         NEW j, j = job'[t], PlanCurrent(j)', Apart'
  PROVE  ApartInv'
<1>1. ASSUME NEW u \in Threads PROVE PlanCurrent(job[u])'
  <2>1. PICK i : i = job'[u]
    OBVIOUS
  <2>2. PlanCurrent(i)'
    <3>1. CASE u = t
      BY <2>1, <3>1
    <3>2. CASE u # t
      BY <2>1, <3>2 DEF PlanCurrent, PlanEdit
    <3> QED
      BY <3>1, <3>2
  <2> QED
    BY <2>1, <2>2
<1> QED
  BY <1>1 DEF ApartInv

LEMMA ApartEnded ==
  ASSUME NEW t \in Threads, \A u \in Threads : u # t => job'[u].call = "none",
         job'[t] = Staffing!Idle, Apart'
  PROVE  ApartInv'
<1>1. PlanCurrent(Staffing!Idle)'
  BY DEF PlanCurrent, PlanEdit, Staffing!Idle
<1> QED
  BY <1>1, ApartKept

LEMMA ApartFewer ==
  ASSUME Apart, Staffing!Live' \subseteq Staffing!Live,
         \A a \in Staffing!Live' : assignment'[a] = assignment[a]
  PROVE  Apart'
BY DEF Apart

LEMMA ApartStarts ==
  ASSUME Staffing!StaffingConstants, StaffingInv, ApartInv, InOrder, NEW t \in Threads,
         Staffing!Insert(t) \/ Staffing!Load(t)
  PROVE  ApartInv'
<1>1. UNCHANGED <<assignment, clients>> /\ t \in clients.threads
  BY InsertShape, LoadShape
<1>2. \A u \in Threads : u # t => job[u].call = "none"
  BY <1>1, PlannerAlone DEF InOrder
<1>3. Staffing!Live' = Staffing!Live
  BY <1>1 DEF Staffing!Live
<1>4. Apart'
  BY <1>1, <1>3, ApartFewer DEF ApartInv
<1>5. ASSUME NEW j, job' = [job EXCEPT ![t] = j], PlanCurrent(j) PROVE ApartInv'
  <2>1. j = job'[t] /\ \A u \in Threads : u # t => job'[u].call = "none"
    BY <1>2, <1>5 DEF StaffingInv
  <2>2. PlanCurrent(j)'
    BY <1>1, <1>3, <1>5 DEF PlanCurrent, PlanEdit, Staffing!Overlapped
  <2> QED
    BY <1>4, <2>1, <2>2, ApartKept
<1>6. CASE Staffing!Insert(t)
  <2>1. PICK j : /\ job' = [job EXCEPT ![t] = j] /\ j.call = "close"
                 /\ j.row.before = Staffing!Overlapped(j.row.new)
                 /\ \/ "insert_any" \in clients.calls
                    \/ \A b \in Staffing!Live : assignment[b].start_date < j.row.new.start_date
    BY <1>6, InsertShape
  <2>2. PlanCurrent(j)
    BY <2>1 DEF PlanCurrent, PlanEdit, InOrder
  <2> QED
    BY <1>5, <2>1, <2>2
<1>7. CASE Staffing!Load(t)
  <2>1. PICK j : /\ job' = [job EXCEPT ![t] = j] /\ PlanEdit(j) /\ j.call \in clients.calls
                 /\ j.key \in Staffing!Live /\ j.row = assignment[j.key]
    BY <1>7, LoadShape
  <2>2. PlanCurrent(j)
    BY <2>1 DEF PlanCurrent, PlanEdit
  <2> QED
    BY <1>5, <2>1, <2>2
<1> QED
  BY <1>6, <1>7

LEMMA ApartClose ==
  ASSUME Staffing!StaffingConstants, StaffingInv, OrderInv, ApartInv, InOrder, NEW t \in Threads,
         Staffing!CloseOverlapping(t)
  PROVE  ApartInv'
<1>1. /\ job[t].call = "close" /\ t \in clients.threads
      /\ job'[t] = Staffing!Idle /\ \A u \in Threads : u # t => job'[u] = job[u]
  BY Zenon DEF Staffing!CloseOverlapping, Staffing!At, Staffing!Done, StaffingInv
<1>2. \A u \in Threads : u # t => job'[u].call = "none"
  BY <1>1, PlannerAlone DEF InOrder
<1>3. CASE UNCHANGED assignment
  <2>1. Staffing!Live' = Staffing!Live
    BY <1>3 DEF Staffing!Live
  <2> QED
    BY <1>1, <1>2, <1>3, <2>1, ApartFewer, ApartEnded DEF ApartInv
<1>4. CASE /\ Staffing!Live' = Staffing!Live \cup {job[t].key}
          /\ \A a \in Assignments : ClosedBy(t, a)
  <2>1. PICK was, k, row, s : was = job[t] /\ k = was.key /\ row = was.row /\ s = row.new.start_date
    OBVIOUS
  <2>2. /\ JobOrder(was) /\ PlanFits(was) /\ PlanCurrent(was) /\ was.call = "close"
        /\ k \in Assignments /\ row.new \in Staffing!Rows
    BY <1>1, <2>1 DEF OrderInv, StaffingInv, ApartInv, PlanFits
  <2>3. k \notin Staffing!Live /\ s \in Nat
    BY <2>1, <2>2, PlanRow, StaffingNulls DEF JobOrder, Staffing!Live
  <2>4. /\ row.before = Staffing!Overlapped(row.new)
        /\ \A b \in Staffing!Live : assignment[b].start_date < s
    BY <2>1, <2>2 DEF PlanCurrent
  <2>5. assignment'[k] = row.new
    BY <1>4, <2>1, <2>2 DEF ClosedBy
  <2>6. ASSUME NEW b \in Staffing!Live
        PROVE  /\ assignment'[b].start_date = assignment[b].start_date
               /\ assignment'[b].end_date <= assignment[b].end_date /\ assignment'[b].end_date < s
               /\ assignment'[b].end_date \in Int /\ assignment[b].end_date \in Int
               /\ assignment[b].start_date \in Int
    <3>1. b \in Assignments /\ assignment[b] \in Staffing!Rows /\ b # k
      BY <2>3 DEF Staffing!Live
    <3>2. assignment[b].end_date \in Nat /\ assignment[b].start_date \in Nat
      BY <3>1, PlanRow
    <3>3. CASE b \in row.before
      <4>1. s <= assignment[b].end_date
        BY <2>1, <2>4, <3>3 DEF Staffing!Overlapped
      <4>2. assignment'[b].start_date = assignment[b].start_date /\ assignment'[b].end_date = s - 1
        BY <1>4, <2>1, <3>1, <3>3 DEF ClosedBy
      <4> QED
        BY <2>3, <3>2, <4>1, <4>2
    <3>4. CASE b \notin row.before
      <4>1. assignment'[b] = assignment[b]
        BY <1>4, <2>1, <3>1, <3>4 DEF ClosedBy
      <4>2. assignment[b].end_date < s
        BY <2>1, <2>3, <2>4, <3>2, <3>4 DEF Staffing!Overlapped
      <4> QED
        BY <3>2, <4>1, <4>2
    <3> QED
      BY <3>3, <3>4
  <2>7. ASSUME NEW a \in Staffing!Live', NEW b \in Staffing!Live', a # b
        PROVE  \/ assignment'[a].end_date < assignment'[b].start_date
               \/ assignment'[b].end_date < assignment'[a].start_date
    <3>1. CASE a = k
      BY <1>4, <2>1, <2>5, <2>6, <2>7, <3>1
    <3>2. CASE b = k
      BY <1>4, <2>1, <2>5, <2>6, <2>7, <3>2
    <3>3. CASE a # k /\ b # k
      <4>1. a \in Staffing!Live /\ b \in Staffing!Live
        BY <1>4, <2>1, <3>3
      <4>2. \/ assignment[a].end_date < assignment[b].start_date
            \/ assignment[b].end_date < assignment[a].start_date
        BY <2>7, <4>1 DEF ApartInv, Apart
      <4> QED
        BY <2>6, <4>1, <4>2
    <3> QED
      BY <3>1, <3>2, <3>3
  <2>8. Apart'
    BY <2>7 DEF Apart
  <2> QED
    BY <1>1, <1>2, <2>8, ApartEnded
<1> QED
  BY <1>3, <1>4, CloseShape

LEMMA ApartEdit ==
  ASSUME Staffing!StaffingConstants, StaffingInv, ApartInv, InOrder, NEW t \in Threads,
         Staffing!Patch(t) \/ Staffing!PatchDates(t) \/ Staffing!End(t) \/ Staffing!Delete(t)
  PROVE  ApartInv'
<1>1. PICK was, k : was = job[t] /\ k = was.key
  OBVIOUS
<1>2. /\ PlanEdit(was) /\ t \in clients.threads
      /\ job'[t] = Staffing!Idle /\ \A u \in Threads : u # t => job'[u] = job[u]
  BY <1>1, Zenon DEF Staffing!Patch, Staffing!PatchDates, Staffing!End, Staffing!Delete, Staffing!Done,
     Staffing!At, PlanEdit, StaffingInv
<1>3. \A u \in Threads : u # t => job'[u].call = "none"
  BY <1>2, PlannerAlone DEF InOrder
<1>4. /\ k \in Assignments /\ k \in Staffing!Live /\ assignment[k] = was.row /\ was.call # "dates"
      /\ was.row \in Staffing!Rows
  BY <1>1, <1>2 DEF ApartInv, PlanCurrent, InOrder, PlanEdit, Staffing!Live
<1>5. ASSUME NEW r \in Staffing!Rows, Written(t, r) PROVE Apart'
  <2>1. /\ assignment'[k] = r /\ \A a \in Assignments : a # k => assignment'[a] = assignment[a]
        /\ Staffing!Live' = Staffing!Live
    BY <1>1, <1>4, <1>5 DEF Written, StaffingInv, Staffing!Live
  <2>2. r.start_date = assignment[k].start_date /\ r.end_date <= assignment[k].end_date
    BY <1>1, <1>4, <1>5 DEF Written
  <2>3. /\ r.end_date \in Nat /\ r.start_date \in Nat
        /\ \A a \in Staffing!Live : /\ a \in Assignments /\ assignment[a].start_date \in Nat
                                   /\ assignment[a].end_date \in Nat
    BY <1>5, PlanRow DEF Staffing!Live
  <2> QED
    BY <1>4, <2>1, <2>2, <2>3 DEF ApartInv, Apart
<1>6. ASSUME NEW n \in Assignments, NEW old \in Staffing!Rows, NEW new \in Staffing!Rows,
             Split(t, n, old, new)
      PROVE  Apart'
  <2>1. n \notin Staffing!Live /\ n # k
    BY <1>4, <1>6, StaffingNulls DEF Split, Staffing!Unused, Staffing!Live
  <2>2. /\ assignment'[k] = old /\ assignment'[n] = new
        /\ \A a \in Assignments : a # k /\ a # n => assignment'[a] = assignment[a]
    BY <1>1, <1>4, <1>6, <2>1 DEF Split, StaffingInv
  <2>3. Staffing!Live' = Staffing!Live \cup {n}
    BY <1>4, <2>2 DEF Staffing!Live
  <2>4. /\ old.start_date = assignment[k].start_date /\ old.end_date = today - 1
        /\ new.start_date = today /\ new.end_date = assignment[k].end_date
        /\ assignment[k].start_date < today /\ today <= assignment[k].end_date /\ today \in Nat
    BY <1>1, <1>4, <1>6, StaffingNulls DEF Split, StaffingInv
  <2>5. \A a \in Staffing!Live : /\ a \in Assignments /\ assignment[a].start_date \in Nat
                                /\ assignment[a].end_date \in Nat
    BY PlanRow DEF Staffing!Live
  <2>6. ASSUME NEW a \in Staffing!Live, a # k
        PROVE  /\ \/ assignment'[a].end_date < old.start_date
                  \/ old.end_date < assignment'[a].start_date
               /\ \/ assignment'[a].end_date < new.start_date
                  \/ new.end_date < assignment'[a].start_date
    <3>1. \/ assignment[a].end_date < assignment[k].start_date
          \/ assignment[k].end_date < assignment[a].start_date
      BY <1>4, <2>6 DEF ApartInv, Apart
    <3>2. assignment'[a] = assignment[a]
      BY <2>1, <2>2, <2>5, <2>6
    <3> QED
      BY <1>4, <2>4, <2>5, <3>1, <3>2
  <2>7. old.end_date < new.start_date
    BY <2>4
  <2>8. ASSUME NEW a \in Staffing!Live', NEW b \in Staffing!Live', a # b
        PROVE  \/ assignment'[a].end_date < assignment'[b].start_date
               \/ assignment'[b].end_date < assignment'[a].start_date
    <3>1. CASE a \in {k, n} \/ b \in {k, n}
      BY <1>4, <2>2, <2>3, <2>6, <2>7, <2>8, <3>1
    <3>2. CASE a \notin {k, n} /\ b \notin {k, n}
      BY <2>2, <2>3, <2>5, <2>8, <3>2 DEF ApartInv, Apart
    <3> QED
      BY <3>1, <3>2
  <2> QED
    BY <2>8 DEF Apart
<1>7. (\A a \in Assignments : assignment'[a] \in {assignment[a], Deleted}) => Apart'
  <2> SUFFICES ASSUME \A a \in Assignments : assignment'[a] \in {assignment[a], Deleted}
               PROVE  Apart'
    OBVIOUS
  <2>1. Staffing!Live' \subseteq Staffing!Live /\ \A a \in Staffing!Live' : assignment'[a] = assignment[a]
    BY StaffingNulls DEF Staffing!Live
  <2> QED
    BY <2>1, ApartFewer DEF ApartInv
<1>8. Staffing!Delete(t) => Apart'
  <2> SUFFICES ASSUME Staffing!Delete(t) PROVE Apart'
    OBVIOUS
  <2>1. \A a \in Assignments : assignment'[a] \in {assignment[a], Deleted}
    BY DEF Staffing!Delete, StaffingInv
  <2> QED
    BY <1>7, <2>1
<1>9. UNCHANGED assignment => Apart'
  <2> SUFFICES ASSUME UNCHANGED assignment PROVE Apart'
    OBVIOUS
  <2>1. \A a \in Assignments : assignment'[a] \in {assignment[a], Deleted}
    OBVIOUS
  <2> QED
    BY <1>7, <2>1
<1>10. Apart'
  <2>1. CASE Staffing!Patch(t)
    BY <1>5, <1>6, <1>9, <2>1, PatchShape
  <2>2. CASE Staffing!PatchDates(t)
    BY <1>1, <1>4, <2>2, Zenon DEF Staffing!PatchDates, Staffing!At
  <2>3. CASE Staffing!End(t)
    BY <1>5, <2>3, EndShape
  <2> QED
    BY <1>8, <2>1, <2>2, <2>3
<1> QED
  BY <1>2, <1>3, <1>10, ApartEnded

LEMMA ApartStep ==
  ASSUME Staffing!StaffingConstants, StaffingInv, OrderInv, ApartInv, InOrder,
         [Staffing!Next]_Staffing!vars
  PROVE  ApartInv'
<1>1. CASE UNCHANGED <<assignment, job, clients>>
  <2>1. Staffing!Live' = Staffing!Live
    BY <1>1 DEF Staffing!Live
  <2>2. Apart'
    BY <1>1, <2>1, ApartFewer DEF ApartInv
  <2>3. ASSUME NEW t \in Threads PROVE PlanCurrent(job[t])'
    <3>1. PICK j : j = job[t]
      OBVIOUS
    <3>2. PlanCurrent(j)
      BY <3>1 DEF ApartInv
    <3>3. PlanCurrent(j)'
      BY <1>1, <2>1, <3>2 DEF PlanCurrent, PlanEdit, Staffing!Overlapped
    <3> QED
      BY <1>1, <3>1, <3>3
  <2> QED
    BY <2>2, <2>3 DEF ApartInv
<1>2. ASSUME NEW t \in Threads, Staffing!DeleteProject(t) PROVE ApartInv'
  <2>1. t \in clients.threads /\ job[t] = Staffing!Idle /\ UNCHANGED job
    BY <1>2 DEF Staffing!DeleteProject, Staffing!Free
  <2>2. \A u \in Threads : u # t => job'[u].call = "none"
    BY <2>1, PlannerAlone DEF InOrder
  <2>3. Staffing!Live' \subseteq Staffing!Live /\ \A a \in Staffing!Live' : assignment'[a] = assignment[a]
    BY <1>2, StaffingNulls DEF Staffing!DeleteProject, Staffing!Live
  <2> QED
    BY <2>1, <2>2, <2>3, ApartFewer, ApartEnded DEF ApartInv
<1> QED
  BY <1>1, <1>2, ApartStarts, ApartClose, ApartEdit
  DEF Staffing!Next, Staffing!vars, Staffing!NextDay, Staffing!SetProject

PlansInv ==
  /\ StaffingInv
  /\ Orderly => OrderInv
  /\ InOrder => ApartInv

LEMMA PlansInit ==
  ASSUME Staffing!StaffingConstants, Staffing!Start, Begin PROVE PlansInv
<1>1. Staffing!Live = {} /\ \A t \in Threads : job[t].call = "none"
  BY StaffingNulls DEF Staffing!Live, Staffing!Start, Begin, Idle
<1>2. OrderInv /\ ApartInv
  BY <1>1 DEF OrderInv, RowsOrder, JobOrder, JobsOrder, PlanEdit, ApartInv, Apart, PlanCurrent
<1> QED
  BY <1>2, StaffingInit DEF PlansInv

LEMMA PlansStep ==
  ASSUME Staffing!StaffingConstants, PlansInv, [Staffing!Next]_Staffing!vars, UNCHANGED clients
  PROVE  PlansInv'
<1>1. (Orderly' <=> Orderly) /\ (InOrder' <=> InOrder) /\ (InOrder => Orderly)
  BY DEF Orderly, InOrder, Staffing!OneAtATime
<1> QED
  BY <1>1, StaffingInvStep, OrderStep, ApartStep DEF PlansInv

LEMMA PlansKept ==
  ASSUME Staffing!StaffingConstants, PlansInv, Orderly
  PROVE  Staffing!TypeOK /\ Staffing!PlannedOnce
<1>1. Staffing!TypeOK
  <2>1. today \in Staffing!Days
    BY StaffingNulls DEF PlansInv, StaffingInv, Staffing!Days
  <2> QED
    BY <2>1 DEF Staffing!TypeOK, PlansInv, StaffingInv, OrderInv, RowsOrder
<1>2. ASSUME InOrder, NEW d \in Staffing!Days
      PROVE  Staffing!Cardinality({a \in Staffing!Live : Staffing!Covers(assignment[a], d)}) <= 1
  <2>1. PICK S : S = {a \in Staffing!Live : Staffing!Covers(assignment[a], d)}
    OBVIOUS
  <2>2. ASSUME NEW a \in S, NEW b \in S PROVE a = b
    <3>1. /\ a \in Staffing!Live /\ b \in Staffing!Live /\ d \in Nat
          /\ assignment[a].start_date <= d /\ d <= assignment[a].end_date
          /\ assignment[b].start_date <= d /\ d <= assignment[b].end_date
      BY <2>1 DEF Staffing!Covers, Staffing!Days
    <3>2. /\ assignment[a].start_date \in Nat /\ assignment[a].end_date \in Nat
          /\ assignment[b].start_date \in Nat /\ assignment[b].end_date \in Nat
      BY <3>1, PlanRow DEF Staffing!Live
    <3> QED
      BY <1>2, <3>1, <3>2 DEF PlansInv, ApartInv, Apart
  <2>3. CASE S = {}
    BY <2>1, <2>3, SameCounting, FS_EmptySet
  <2>4. CASE S # {}
    <3>1. PICK a : a \in S
      BY <2>4
    <3>2. S = {a}
      BY <2>2, <3>1
    <3>3. Cardinality(S) = 1
      BY <3>2, FS_Singleton
    <3>4. Staffing!Cardinality(S) = Cardinality(S)
      BY SameCounting
    <3> QED
      BY <2>1, <3>3, <3>4
  <2> QED
    BY <2>3, <2>4
<1> QED
  BY <1>1, <1>2 DEF Staffing!PlannedOnce, InOrder

\* A finite set of numbers that is not empty has a largest.
LEMMA Largest ==
  ASSUME NEW S \in SUBSET Int, IsFiniteSet(S), S # {}
  PROVE  \E n \in S : \A i \in S : n >= i
<1> DEFINE Above(n) == {i \in S : i > n}
           All == {Above(n) : n \in S}
<1>1. IsWellFoundedOn(StrictSubsetOrdering(S), FiniteSubsetsOf(S))
  BY FS_StrictSubsetOrderingWellFounded
<1>2. All \subseteq FiniteSubsetsOf(S) /\ All # {}
  <2>1. FiniteSubsetsOf(S) = SUBSET S
    BY FS_FiniteSubsetsOfFinite
  <2>2. All \subseteq SUBSET S
    OBVIOUS
  <2>3. All # {}
    OBVIOUS
  <2> QED
    BY <2>1, <2>2, <2>3
<1>3. PICK T \in All : \A U \in All : <<U, T>> \notin StrictSubsetOrdering(S)
  <2> HIDE DEF All
  <2> QED
    BY <1>1, <1>2, WFMin
<1>4. PICK n \in S : T = Above(n)
  OBVIOUS
<1>5. ASSUME NEW i \in S, i > n PROVE FALSE
  <2>1. Above(i) \in All
    OBVIOUS
  <2>2. \A j \in Above(i) : j \in Above(n)
    BY <1>5
  <2>3. i \in Above(n) /\ i \notin Above(i)
    BY <1>5
  <2>4. Above(i) \in SUBSET S /\ Above(n) \in SUBSET S
    OBVIOUS
  <2>5. <<Above(i), Above(n)>> \in StrictSubsetOrdering(S)
    <3> HIDE DEF Above
    <3> QED
      BY <2>2, <2>3, <2>4 DEF StrictSubsetOrdering
  <2> QED
    BY <2>1, <2>5, <1>3, <1>4
<1> QED
  BY <1>5

-----------------------------------------------------------------------------
(* EmployeeCVs.  No number is left out as long as nothing is deleted, so   *)
(* that an upload whose number is still free has seen the current one.     *)

\* The rows that an insertion will update are there: nothing deletes what is locked.
CVFits(j) ==
  /\ j.call \in {"none", "replace", "insert"}
  /\ j.call # "none" => j.key \in CVs!Versions
  /\ j.call = "insert" => j.row \in SUBSET CVs!Live

CVTypes ==
  /\ CVs!TypeOK /\ job = [t \in Threads |-> job[t]]
  /\ \A t \in Threads : CVFits(job[t]) /\ (job[t].call # "none" => t \in clients.threads)

Last(v) == v \in CVs!Live /\ \A w \in CVs!Live : w <= v
LastIsCurrent == CVs!Current = {v \in CVs!Live : Last(v)}
Reached(v) == \A w \in CVs!Versions : w < v => w \in CVs!Live

\* Nothing is deleted.
NumberedInv ==
  /\ LastIsCurrent
  /\ \A v \in CVs!Live : Reached(v)
  /\ \A t \in Threads :
       /\ job[t].call # "none" => Reached(job[t].key)
       /\ job[t].call = "insert" /\ job[t].key \notin CVs!Live => job[t].row = CVs!Current

\* One call at a time.
UploadInv ==
  /\ \A v \in CVs!Current : Last(v)
  /\ \A t \in Threads :
       /\ job[t].call # "none" => \A v \in CVs!Live : v < job[t].key
       /\ job[t].call = "insert" => job[t].row = CVs!Current

CVInv ==
  /\ CVTypes
  /\ "delete" \notin clients.calls => NumberedInv
  /\ CVs!OneAtATime => UploadInv

LEMMA LatestFacts ==
  ASSUME CVs!CVConstants
  PROVE  /\ MaxVersion \in Nat /\ CVs!Latest \in Nat
         /\ CVs!Live = {} => CVs!Latest = 0
         /\ CVs!Live # {} => CVs!Latest \in CVs!Live
         /\ \A v \in CVs!Live : v <= CVs!Latest
<1>1. MaxVersion \in Nat /\ CVs!Live \in SUBSET (1..MaxVersion)
  BY DEF CVs!CVConstants, CVs!Live, CVs!Versions
<1>2. IsFiniteSet(CVs!Live) /\ CVs!Live \in SUBSET Int
  <2>1. IsFiniteSet(1..MaxVersion)
    BY <1>1, FS_Interval
  <2>2. IsFiniteSet(CVs!Live)
    BY <1>1, <2>1, FS_Subset
  <2>3. 1..MaxVersion \subseteq Int
    BY <1>1
  <2> QED
    BY <1>1, <2>2, <2>3
<1>3. ASSUME CVs!Live # {}
      PROVE  CVs!Max(CVs!Live) \in CVs!Live /\ \A v \in CVs!Live : CVs!Max(CVs!Live) >= v
  BY <1>2, <1>3, Largest DEF CVs!Max
<1>4. CVs!Latest = IF CVs!Live = {} THEN 0 ELSE CVs!Max(CVs!Live)
  BY DEF CVs!Latest
<1>5. \A v \in CVs!Live : v \in Nat
  BY <1>1
<1> QED
  BY <1>1, <1>3, <1>4, <1>5

LEMMA LastIsLatest ==
  ASSUME CVs!CVConstants
  PROVE  {v \in CVs!Live : Last(v)} = {v \in CVs!Live : v = CVs!Latest}
<1>1. CVs!Live \in SUBSET Int
  BY DEF CVs!Live, CVs!Versions
<1>2. \A v \in CVs!Live : Last(v) <=> v = CVs!Latest
  BY <1>1, LatestFacts DEF Last
<1> QED
  BY <1>2

LEMMA CVInit == ASSUME CVs!CVConstants, CVs!Start, Begin PROVE CVInv
<1>1. CVs!Live = {} /\ CVs!Current = {}
  BY DEF CVs!Start, CVs!Live, CVs!Current
<1>2. CVTypes
  BY DEF CVTypes, CVFits, CVs!TypeOK, CVs!Start, Begin, Idle
<1>3. NumberedInv /\ UploadInv
  BY <1>1 DEF NumberedInv, UploadInv, LastIsCurrent, Begin, Idle
<1> QED
  BY <1>2, <1>3 DEF CVInv

\* An insertion that is not refused.
LEMMA CVInserted ==
  ASSUME CVs!CVConstants, CVTypes, NEW t \in Threads, CVs!Insert(t), job[t].key \notin CVs!Live
  PROVE  /\ CVs!Live' = CVs!Live \cup {job[t].key} /\ job[t].key \in CVs!Versions
         /\ CVs!Current' = (CVs!Current \ job[t].row) \cup {job[t].key}
<1>1. PICK k, row : k = job[t].key /\ row = job[t].row
  OBVIOUS
<1>2. k \in CVs!Versions /\ row \in SUBSET CVs!Live /\ k \notin CVs!Live
  BY <1>1 DEF CVTypes, CVFits, CVs!Insert, CVs!At
<1>3. Nil \notin BOOLEAN /\ cv[k] = Nil /\ cv \in [CVs!Versions -> BOOLEAN \cup {Nil}]
  BY <1>2 DEF CVs!CVConstants, CVs!Live, CVTypes, CVs!TypeOK
<1>4. cv' = [v \in CVs!Versions |-> IF v = k THEN TRUE ELSE IF v \in row THEN FALSE ELSE cv[v]]
  BY <1>1, <1>3 DEF CVs!Insert, CVs!Taken
<1>5. CVs!Live' = CVs!Live \cup {k}
  BY <1>2, <1>3, <1>4 DEF CVs!Live
<1>6. \A v \in CVs!Versions : v \in CVs!Current' <=> v = k \/ (v \in CVs!Current /\ v \notin row)
  <2>1. ASSUME NEW v \in CVs!Versions
        PROVE  v \in CVs!Current' <=> v = k \/ (v \in CVs!Current /\ v \notin row)
    <3>1. CASE v = k
      BY <1>2, <1>4, <1>5, <3>1 DEF CVs!Current
    <3>2. CASE v # k /\ v \in row
      BY <1>2, <1>4, <1>5, <3>2 DEF CVs!Current
    <3>3. CASE v # k /\ v \notin row
      BY <1>2, <1>4, <1>5, <3>3 DEF CVs!Current
    <3> QED
      BY <3>1, <3>2, <3>3
  <2> QED
    BY <2>1
<1>7. CVs!Current' \subseteq CVs!Versions /\ CVs!Current \subseteq CVs!Versions
  BY DEF CVs!Current, CVs!Live
<1> QED
  BY <1>1, <1>2, <1>5, <1>6, <1>7

LEMMA CVTypesStep ==
  ASSUME CVs!CVConstants, CVTypes, [CVs!Next]_CVs!vars
  PROVE  CVTypes'
<1> USE DEF CVTypes, CVs!TypeOK
<1>1. CASE UNCHANGED CVs!vars
  BY <1>1 DEF CVs!vars, CVFits, CVs!Live
<1>2. ASSUME NEW t \in Threads, NEW j, job' = [job EXCEPT ![t] = j],
             j.call # "none" => t \in clients.threads, UNCHANGED <<cv, clients>>, CVFits(j)
      PROVE  CVTypes'
  BY <1>2 DEF CVFits, CVs!Live
<1>3. CVFits(CVs!Idle)
  BY DEF CVFits, CVs!Idle
<1>4. ASSUME NEW t \in Threads, CVs!Upload(t) PROVE CVTypes'
  <2>1. PICK j : j = [call |-> "replace", key |-> CVs!Latest + 1, row |-> Nil]
    OBVIOUS
  <2>2. CVFits(j) /\ job' = [job EXCEPT ![t] = j] /\ t \in clients.threads
    BY <1>4, <2>1, LatestFacts DEF CVs!Upload, CVs!Free, CVs!Take, CVFits, CVs!Versions
  <2> QED
    BY <1>2, <1>4, <2>2 DEF CVs!Upload
<1>5. ASSUME NEW t \in Threads, CVs!ReplaceCurrent(t) PROVE CVTypes'
  <2>1. PICK j : j = [call |-> "insert", key |-> job[t].key, row |-> CVs!Current]
    OBVIOUS
  <2>2. CVFits(j) /\ job' = [job EXCEPT ![t] = j] /\ t \in clients.threads
    BY <1>5, <2>1 DEF CVs!ReplaceCurrent, CVs!At, CVs!Take, CVFits, CVs!Current
  <2> QED
    BY <1>2, <1>5, <2>2 DEF CVs!ReplaceCurrent
<1>6. ASSUME NEW t \in Threads, CVs!Insert(t) PROVE CVTypes'
  <2>1. CVs!Live \subseteq CVs!Live'
    <3>1. CASE job[t].key \in CVs!Live
      BY <1>6, <3>1 DEF CVs!Insert, CVs!Taken, CVs!Live
    <3>2. CASE job[t].key \notin CVs!Live
      BY <1>6, <3>2, CVInserted
    <3> QED
      BY <3>1, <3>2
  <2>2. cv' \in [CVs!Versions -> BOOLEAN \cup {Nil}]
    BY <1>6 DEF CVs!Insert
  <2>3. /\ job' = [job EXCEPT ![t] = CVs!Idle] /\ UNCHANGED clients
    BY <1>6 DEF CVs!Insert, CVs!Done
  <2>4. ASSUME NEW u \in Threads
        PROVE  CVFits(job[u])' /\ (job'[u].call # "none" => u \in clients'.threads)
    <3>1. job'[u] = CVs!Idle \/ job'[u] = job[u]
      BY <2>3
    <3> QED
      BY <2>1, <2>3, <3>1 DEF CVFits, CVs!Idle
  <2> QED
    BY <2>2, <2>3, <2>4
<1>7. ASSUME NEW t \in Threads, CVs!Delete(t) PROVE CVTypes'
  <2>1. PICK v \in CVs!Live \ CVs!Locked : cv' = [cv EXCEPT ![v] = Nil]
    BY <1>7 DEF CVs!Delete
  <2>2. CVs!Live' = CVs!Live \ {v} /\ UNCHANGED <<job, clients>>
    BY <1>7, <2>1 DEF CVs!Delete, CVs!Live
  <2>3. \A u \in Threads : CVs!At(u, "insert") => job[u].row \subseteq CVs!Locked
    BY DEF CVs!Locked
  <2>4. \A u \in Threads : CVFits(job[u])'
    BY <2>1, <2>2, <2>3 DEF CVFits, CVs!At
  <2> QED
    BY <2>1, <2>2, <2>4
<1>8. ASSUME NEW t \in Threads, CVs!Crash(t) PROVE CVTypes'
  BY <1>2, <1>3, <1>8 DEF CVs!Crash, CVs!Done, CVs!Idle
<1> QED
  BY <1>1, <1>4, <1>5, <1>6, <1>7, <1>8 DEF CVs!Next

LEMMA NumberedStep ==
  ASSUME CVs!CVConstants, CVTypes, "delete" \notin clients.calls, NumberedInv,
         [CVs!Next]_CVs!vars
  PROVE  NumberedInv'
<1> USE DEF NumberedInv
<1>1. CASE UNCHANGED CVs!vars
  BY <1>1 DEF CVs!vars, CVs!Live, CVs!Current, LastIsCurrent, Last, Reached
<1>2. ASSUME NEW t \in Threads, NEW j, job' = [job EXCEPT ![t] = j], UNCHANGED cv,
             j.call # "none" => Reached(j.key), j.call = "insert" => j.row = CVs!Current
      PROVE  NumberedInv'
  <2>1. /\ UNCHANGED <<CVs!Live, CVs!Current>> /\ LastIsCurrent'
        /\ \A v \in CVs!Versions \cup {job[u].key : u \in Threads} \cup {j.key} : Reached(v)' <=> Reached(v)
    BY <1>2 DEF CVs!Live, CVs!Current, LastIsCurrent, Last, Reached
  <2>2. ASSUME NEW u \in Threads
        PROVE  /\ job'[u].call # "none" => Reached(job'[u].key)
               /\ job'[u].call = "insert" /\ job'[u].key \notin CVs!Live => job'[u].row = CVs!Current
    <3>1. job'[u] = IF u = t THEN j ELSE job[u]
      BY <1>2 DEF CVTypes
    <3> QED
      BY <1>2, <3>1
  <2>3. \A v : Reached(v)' <=> Reached(v)
    BY <1>2 DEF CVs!Live, Reached
  <2>4. \A v \in CVs!Live' : Reached(v)'
    BY <2>1, <2>3
  <2> QED
    BY <2>1, <2>2, <2>3, <2>4
<1>3. ASSUME NEW t \in Threads, CVs!Upload(t) PROVE NumberedInv'
  <2>1. PICK j : j = [call |-> "replace", key |-> CVs!Latest + 1, row |-> Nil]
    OBVIOUS
  <2>2. Reached(CVs!Latest + 1)
    <3>1. ASSUME NEW w \in CVs!Versions, w < CVs!Latest + 1 PROVE w \in CVs!Live
      <4>1. w \in Nat /\ w >= 1 /\ w <= CVs!Latest /\ CVs!Latest \in CVs!Live
        <5>1. w \in Nat /\ w >= 1 /\ MaxVersion \in Nat /\ CVs!Latest \in Nat
          BY LatestFacts DEF CVs!Versions
        <5>2. CVs!Live # {}
          BY <3>1, <5>1, LatestFacts
        <5> QED
          BY <3>1, <5>1, <5>2, LatestFacts
      <4>2. Reached(CVs!Latest) /\ CVs!Latest \in Nat
        BY <4>1, LatestFacts
      <4> QED
        BY <3>1, <4>1, <4>2 DEF Reached
    <3> QED
      BY <3>1 DEF Reached
  <2>3. job' = [job EXCEPT ![t] = j] /\ UNCHANGED cv
    BY <1>3, <2>1 DEF CVs!Upload, CVs!Take
  <2> QED
    BY <1>2, <2>1, <2>2, <2>3
<1>4. ASSUME NEW t \in Threads, CVs!ReplaceCurrent(t) PROVE NumberedInv'
  <2>1. PICK j : j = [call |-> "insert", key |-> job[t].key, row |-> CVs!Current]
    OBVIOUS
  <2>2. job' = [job EXCEPT ![t] = j] /\ UNCHANGED cv /\ Reached(j.key)
    BY <1>4, <2>1 DEF CVs!ReplaceCurrent, CVs!Take, CVs!At
  <2> QED
    BY <1>2, <2>1, <2>2
<1>5. ASSUME NEW t \in Threads, CVs!Insert(t), job[t].key \in CVs!Live PROVE NumberedInv'
  <2>1. job' = [job EXCEPT ![t] = CVs!Idle] /\ UNCHANGED cv
    BY <1>5 DEF CVs!Insert, CVs!Taken, CVs!Live, CVs!Done
  <2> QED
    BY <1>2, <2>1 DEF CVs!Idle
<1>6. ASSUME NEW t \in Threads, CVs!Insert(t), job[t].key \notin CVs!Live PROVE NumberedInv'
  <2>1. PICK k : k = job[t].key
    OBVIOUS
  <2>2. k \in CVs!Versions /\ Reached(k) /\ job[t].row = CVs!Current /\ k \notin CVs!Live
    BY <1>6, <2>1 DEF CVs!Insert, CVs!At, CVTypes, CVFits
  <2>3. CVs!Live' = CVs!Live \cup {k} /\ CVs!Current' = {k}
    BY <1>6, <2>1, <2>2, CVInserted
  <2>4. \A v \in CVs!Live : v \in CVs!Versions /\ v < k
    <3>1. ASSUME NEW v \in CVs!Live PROVE v \in CVs!Versions /\ v < k
      <4>1. v \in CVs!Versions /\ v # k /\ Reached(v)
        BY <2>2 DEF CVs!Live
      <4> QED
        BY <2>2, <4>1 DEF Reached, CVs!Versions
    <3> QED
      BY <3>1
  <2>5. {v \in CVs!Live' : Last(v)'} = {k}
    BY <2>2, <2>3, <2>4 DEF Last, CVs!Versions
  <2>6. \A v : Reached(v) => Reached(v)'
    BY <2>3 DEF Reached
  <2>7. \A v \in CVs!Live' : Reached(v)'
    BY <2>2, <2>3, <2>6
  <2>8. ASSUME NEW u \in Threads
        PROVE  (/\ job[u].call # "none" => Reached(job[u].key)
                /\ job[u].call = "insert" => job[u].key \in CVs!Live)'
    <3>1. job'[u] = IF u = t THEN CVs!Idle ELSE job[u]
      BY <1>6 DEF CVs!Insert, CVs!Done, CVTypes
    <3>2. CASE u = t
      BY <3>1, <3>2 DEF CVs!Idle
    <3>3. CASE u # t
      <4>1. job[u].call = "insert" => Reached(job[u].key) /\ job[u].key \in CVs!Versions
        BY DEF CVTypes, CVFits
      <4>2. job[u].call = "insert" => job[u].key \in CVs!Live \cup {k}
        BY <2>2, <4>1 DEF Reached, CVs!Versions
      <4>3. PICK j : j = job[u]
        OBVIOUS
      <4>4. (j.call # "none" => Reached(j.key)') /\ (j.call = "insert" => j.key \in CVs!Live')
        BY <2>3, <2>6, <4>2, <4>3
      <4>5. job'[u] = j
        BY <3>1, <3>3, <4>3
      <4> QED
        BY <4>4, <4>5
    <3> QED
      BY <3>2, <3>3
  <2> QED
    BY <2>3, <2>5, <2>7, <2>8 DEF LastIsCurrent
<1>7. ASSUME NEW t \in Threads, CVs!Crash(t) PROVE NumberedInv'
  BY <1>2, <1>7 DEF CVs!Crash, CVs!Done, CVs!Idle
<1> QED
  BY <1>1, <1>3, <1>4, <1>5, <1>6, <1>7 DEF CVs!Next, CVs!Delete, CVs!Free

LEMMA UploaderAlone ==
  ASSUME CVTypes, CVs!OneAtATime, NEW t \in Threads, t \in clients.threads
  PROVE  \A u \in Threads : u # t => job[u].call = "none"
BY DEF CVs!OneAtATime, CVTypes

LEMMA UploadStep ==
  ASSUME CVs!CVConstants, CVTypes, CVs!OneAtATime, UploadInv, [CVs!Next]_CVs!vars
  PROVE  UploadInv'
<1> USE DEF UploadInv
<1>1. CASE UNCHANGED CVs!vars
  BY <1>1 DEF CVs!vars, CVs!Live, CVs!Current, Last
<1>2. ASSUME NEW t \in Threads, NEW j, job' = [job EXCEPT ![t] = j], UNCHANGED cv,
             j.call # "none" => \A v \in CVs!Live : v < j.key,
             j.call = "insert" => j.row = CVs!Current
      PROVE  UploadInv'
  <2>1. UNCHANGED <<CVs!Live, CVs!Current>> /\ \A v \in CVs!Current' : Last(v)'
    BY <1>2 DEF CVs!Live, CVs!Current, Last
  <2>2. ASSUME NEW u \in Threads
        PROVE  /\ job'[u].call # "none" => \A v \in CVs!Live : v < job'[u].key
               /\ job'[u].call = "insert" => job'[u].row = CVs!Current
    <3>1. job'[u] = IF u = t THEN j ELSE job[u]
      BY <1>2 DEF CVTypes
    <3> QED
      BY <1>2, <3>1
  <2> QED
    BY <2>1, <2>2
<1>3. ASSUME NEW t \in Threads, CVs!Upload(t) PROVE UploadInv'
  <2>1. PICK j : j = [call |-> "replace", key |-> CVs!Latest + 1, row |-> Nil]
    OBVIOUS
  <2>2. \A v \in CVs!Live : v \in Nat
    BY DEF CVs!Live, CVs!Versions
  <2>3. \A v \in CVs!Live : v < CVs!Latest + 1
    BY <2>2, LatestFacts
  <2>4. job' = [job EXCEPT ![t] = j] /\ UNCHANGED cv
    BY <1>3, <2>1 DEF CVs!Upload, CVs!Take
  <2> QED
    BY <1>2, <2>1, <2>3, <2>4
<1>4. ASSUME NEW t \in Threads, CVs!ReplaceCurrent(t) PROVE UploadInv'
  <2>1. PICK j : j = [call |-> "insert", key |-> job[t].key, row |-> CVs!Current]
    OBVIOUS
  <2>2. job' = [job EXCEPT ![t] = j] /\ UNCHANGED cv /\ \A v \in CVs!Live : v < j.key
    BY <1>4, <2>1 DEF CVs!ReplaceCurrent, CVs!Take, CVs!At
  <2> QED
    BY <1>2, <2>1, <2>2
<1>5. ASSUME NEW t \in Threads, CVs!Insert(t) PROVE UploadInv'
  <2>1. PICK k : k = job[t].key
    OBVIOUS
  <2>2. /\ k \in CVs!Versions /\ job[t].row = CVs!Current /\ t \in clients.threads
        /\ \A v \in CVs!Live : v < k
    BY <1>5, <2>1 DEF CVs!Insert, CVs!At, CVTypes, CVFits
  <2>3. k \notin CVs!Live
    BY <2>2 DEF CVs!Versions
  <2>4. CVs!Live' = CVs!Live \cup {k} /\ CVs!Current' = {k}
    BY <1>5, <2>1, <2>2, <2>3, CVInserted
  <2>5. \A v \in CVs!Live : v \in Nat
    BY DEF CVs!Live, CVs!Versions
  <2>6. \A v \in CVs!Current' : Last(v)'
    BY <2>2, <2>4, <2>5 DEF Last, CVs!Versions
  <2>7. \A u \in Threads : job'[u].call = "none"
    <3>1. \A u \in Threads : u # t => job[u].call = "none"
      BY <2>2, UploaderAlone
    <3>2. \A u \in Threads : job'[u] = IF u = t THEN CVs!Idle ELSE job[u]
      BY <1>5 DEF CVs!Insert, CVs!Done, CVTypes
    <3> QED
      BY <3>1, <3>2 DEF CVs!Idle
  <2> QED
    BY <2>6, <2>7
<1>6. ASSUME NEW t \in Threads, CVs!Delete(t) PROVE UploadInv'
  <2>1. PICK v \in CVs!Live \ CVs!Locked : cv' = [cv EXCEPT ![v] = Nil]
    BY <1>6 DEF CVs!Delete
  <2>2. /\ CVs!Live' = CVs!Live \ {v} /\ CVs!Current' = CVs!Current \ {v}
        /\ UNCHANGED job
    BY <1>6, <2>1 DEF CVs!Delete, CVs!Live, CVs!Current, CVTypes, CVs!TypeOK
  <2>3. \A w \in CVs!Current' : Last(w)'
    BY <2>2 DEF Last, CVs!Current
  <2>4. \A u \in Threads : job[u].call = "none"
    BY <1>6, UploaderAlone DEF CVs!Delete, CVs!Free, CVs!Idle
  <2> QED
    BY <2>2, <2>3, <2>4
<1>7. ASSUME NEW t \in Threads, CVs!Crash(t) PROVE UploadInv'
  BY <1>2, <1>7 DEF CVs!Crash, CVs!Done, CVs!Idle
<1> QED
  BY <1>1, <1>3, <1>4, <1>5, <1>6, <1>7 DEF CVs!Next

LEMMA CVInvStep ==
  ASSUME CVs!CVConstants, CVInv, [CVs!Next]_CVs!vars, UNCHANGED clients
  PROVE  CVInv'
BY CVTypesStep, NumberedStep, UploadStep DEF CVInv, CVs!OneAtATime

LEMMA CVKept ==
  ASSUME CVs!CVConstants, CVInv
  PROVE  CVs!TypeOK /\ CVs!LatestIsCurrent
<1>1. CVs!TypeOK
  BY DEF CVInv, CVTypes
<1>2. CVs!Current \subseteq CVs!Live
  BY DEF CVs!Current
<1>3. "delete" \notin clients.calls => CVs!Current = {v \in CVs!Live : v = CVs!Latest}
  BY LastIsLatest DEF CVInv, NumberedInv, LastIsCurrent
<1>4. CVs!OneAtATime => CVs!Current \subseteq {v \in CVs!Live : v = CVs!Latest}
  <2>1. CVs!OneAtATime => CVs!Current \subseteq {v \in CVs!Live : Last(v)}
    BY <1>2 DEF CVInv, UploadInv
  <2> QED
    BY <2>1, LastIsLatest
<1> QED
  BY <1>1, <1>3, <1>4 DEF CVs!LatestIsCurrent

-----------------------------------------------------------------------------
(* CareerLevels.  What calls that are under way owe to the profile, and    *)
(* what their copies tell.                                                 *)

CareerEdits == {"profile", "role", "permissions"} \cup Careers!AssistantCalls

CareerFits(j) ==
  /\ j.call \in {"none", "sync", "cascade"} \cup CareerEdits
  /\ j.call # "none" => j.row \in Careers!Profiles
  /\ j.call = "cascade" => j.key \in CareerNames \cup {Nil}
  /\ j.call \in CareerEdits => j.call \in clients.calls
  /\ j.call = "cascade" => "define" \in clients.calls
  /\ j.call = "sync" => \E c \in Careers!ChangeCalls : c \in clients.calls

CareerTypes ==
  /\ Careers!TypeOK /\ job = [t \in Threads |-> job[t]]
  /\ \A t \in Threads : CareerFits(job[t]) /\ (job[t].call # "none" => t \in clients.threads)

\* The permissions are those of the role, in copies too.
RoleRow(r) == r.permissions = r.role
RolesRuled == Careers!Only(Careers!Calls \ (Careers!AssistantCalls \cup {"permissions"}))
RoleInv == RoleRow(profile) /\ \A t \in Threads : job[t].call # "none" => RoleRow(job[t].row)

\* A copy of one call at a time is the profile.
ProfileCurrent == \A t \in Threads : job[t].call # "none" => job[t].row = profile

Logging == Careers!Only(Careers!Calls \ (Careers!AssistantCalls \cup {"command"}))
Defining == Careers!NoFaults /\ Careers!Only({"profile", "role", "permissions", "define"})
Changing ==
  Careers!NoFaults /\ Careers!Only(Careers!ChangeCalls \cup {"role", "permissions", "define"})

\* The career level is that of the level or written by hand, or what the cascade under
\* way will write.
FollowsInv ==
  LET career == Careers!Career(profile.cpf_level) IN
    \/ /\ profile.by_hand \/ profile.career_level = career
       /\ \A t \in Threads : job[t].call # "cascade"
    \/ \E t \in Threads : job[t].call = "cascade" /\ job[t].key = career

\* The level is that of the latest change, as soon as it is told.
LatestInv ==
  \/ Careers!Live = {} \/ Careers!AtLatest(profile.cpf_level)
  \/ \E t \in Threads : job[t].call = "sync"

CareerInv ==
  /\ CareerTypes
  /\ RolesRuled => RoleInv
  /\ Careers!OneAtATime =>
       /\ ProfileCurrent
       /\ Logging => logged = profile.cpf_level
       /\ Defining => FollowsInv
       /\ Changing => LatestInv

LEMMA LatestChange ==
  ASSUME Careers!CareerConstants, Careers!TypeOK, Careers!Live # {}
  PROVE  Careers!AtLatest(Careers!LatestLevel) /\ Careers!LatestLevel \in Levels
<1> DEFINE L == Careers!Live
           Dates == {change[i].effective_date : i \in L}
<1>1. /\ L \subseteq 1..MaxChanges /\ MaxChanges \in Nat /\ LastEffective \in Nat /\ L # {}
      /\ \A i \in L : /\ change[i].effective_date \in 0..LastEffective
                     /\ change[i].new_level \in Levels
  BY DEF Careers!CareerConstants, Careers!TypeOK, Careers!Live, Careers!Keys, Careers!Changes
<1>2. IsFiniteSet(1..MaxChanges) /\ IsFiniteSet(0..LastEffective)
  <2>1. MaxChanges \in Int /\ LastEffective \in Int /\ 0 \in Int /\ 1 \in Int
    BY <1>1
  <2>2. IsFiniteSet(1..MaxChanges)
    BY <2>1, FS_Interval
  <2> QED
    BY <2>1, <2>2, FS_Interval
<1>3. IsFiniteSet(L) /\ Dates \in SUBSET Int /\ IsFiniteSet(Dates) /\ Dates # {}
  <2>1. Dates \subseteq 0..LastEffective
    BY <1>1
  <2>2. Dates # {}
    BY <1>1
  <2>3. 0..LastEffective \subseteq Int
    BY <1>1
  <2>4. IsFiniteSet(L) /\ IsFiniteSet(Dates)
    <3> HIDE DEF L, Dates
    <3> QED
      BY <1>1, <1>2, <2>1, FS_Subset
  <2> QED
    BY <2>1, <2>2, <2>3, <2>4
<1>4. PICK d \in Dates : \A i \in Dates : d >= i
  <2> HIDE DEF L, Dates
  <2> QED
    BY <1>3, Largest
<1>5. PICK K : K = {i \in L : change[i].effective_date = d}
  OBVIOUS
<1>6. K \in SUBSET Int /\ IsFiniteSet(K) /\ K # {}
  <2>1. K \subseteq L /\ K # {}
    BY <1>4, <1>5
  <2>2. L \subseteq Int
    BY <1>1
  <2>3. IsFiniteSet(K)
    <3> HIDE DEF L
    <3> QED
      BY <1>3, <2>1, FS_Subset
  <2> QED
    BY <2>1, <2>2, <2>3
<1>7. PICK k \in K : \A i \in K : k >= i
  BY <1>6, Largest
<1>8. k \in L /\ Careers!Latest(k)
  <2>1. ASSUME NEW i \in L
        PROVE  \/ change[i].effective_date < change[k].effective_date
               \/ change[i].effective_date = change[k].effective_date /\ i <= k
    <3>1. change[i].effective_date \in Dates /\ change[k].effective_date = d /\ k \in L
      BY <1>5
    <3>2. d >= change[i].effective_date
      BY <1>4, <3>1
    <3>3. change[i].effective_date \in Int /\ d \in Int
      BY <1>1, <3>1
    <3>4. CASE change[i].effective_date = d
      <4>1. i \in K
        BY <1>5, <3>4
      <4>2. k >= i /\ i \in Int /\ k \in Int
        BY <1>6, <1>7, <4>1
      <4> QED
        BY <3>1, <3>4, <4>2
    <3> QED
      BY <3>1, <3>2, <3>3, <3>4
  <2> QED
    BY <1>5, <2>1 DEF Careers!Latest
<1>9. PICK m : m = CHOOSE i \in Careers!Live : Careers!Latest(i)
  OBVIOUS
<1>10. m \in L /\ Careers!Latest(m) /\ Careers!LatestLevel = change[m].new_level
  BY <1>8, <1>9 DEF Careers!LatestLevel
<1>11. \A i \in L \ {m} :
         \/ change[i].effective_date < change[m].effective_date
         \/ change[m].effective_date = change[i].effective_date /\ i < m
  BY <1>1, <1>10 DEF Careers!Latest
<1> QED
  BY <1>1, <1>10, <1>11 DEF Careers!AtLatest

LEMMA CareerInit == ASSUME Careers!CareerConstants, Careers!Start, Begin PROVE CareerInv
<1>1. \A t \in Threads : job[t].call = "none"
  BY DEF Begin, Idle
<1>2. Careers!Live = {}
  BY DEF Careers!Start, Careers!Live
<1>3. CareerTypes
  BY <1>1 DEF CareerTypes, CareerFits, CareerEdits, Careers!AssistantCalls, Careers!TypeOK, Careers!Profiles,
     Careers!Start, Begin
<1>4. /\ RoleInv /\ ProfileCurrent /\ LatestInv /\ logged = profile.cpf_level
      /\ FollowsInv
  BY <1>1, <1>2 DEF Careers!Start, RoleInv, RoleRow, ProfileCurrent, LatestInv, FollowsInv,
     Careers!Career
<1> QED
  BY <1>3, <1>4 DEF CareerInv

\* What every action is, of the jobs.
LEMMA CareerJob ==
  ASSUME Careers!CareerConstants, CareerTypes, Careers!Next
  PROVE  \/ UNCHANGED job
         \/ \E t \in Threads : \E j :
              /\ job' = [job EXCEPT ![t] = j] /\ t \in clients.threads
              /\ CareerFits(j) /\ (j.call # "none" => j.row = profile /\ UNCHANGED profile)
<1>1. ASSUME NEW t \in Threads, t \in clients.threads, job' = [job EXCEPT ![t] = Careers!Idle]
      PROVE  \E j : /\ job' = [job EXCEPT ![t] = j] /\ CareerFits(j)
                    /\ (j.call # "none" => j.row = profile /\ UNCHANGED profile)
  <2>1. PICK j : j = Careers!Idle
    OBVIOUS
  <2>2. j.call = "none" /\ CareerFits(j)
    BY <2>1 DEF CareerFits, Careers!Idle, CareerEdits, Careers!AssistantCalls
  <2> QED
    BY <1>1, <2>1, <2>2
<1>2. ASSUME NEW t \in Threads, NEW c, NEW k, Careers!Take(t, c, k, profile), UNCHANGED profile,
             c \in {"sync", "cascade"} \cup CareerEdits, c = "cascade" => k \in CareerNames \cup {Nil},
             c \in CareerEdits => c \in clients.calls, c = "cascade" => "define" \in clients.calls,
             c = "sync" => \E d \in Careers!ChangeCalls : d \in clients.calls
      PROVE  \E j : /\ job' = [job EXCEPT ![t] = j] /\ CareerFits(j)
                    /\ (j.call # "none" => j.row = profile /\ UNCHANGED profile)
  <2>1. PICK j : j = [call |-> c, key |-> k, row |-> profile]
    OBVIOUS
  <2>2. CareerFits(j) /\ j.row = profile
    BY <1>2, <2>1 DEF CareerFits, CareerTypes, Careers!TypeOK
  <2>3. job' = [job EXCEPT ![t] = j]
    BY <1>2, <2>1 DEF Careers!Take
  <2> QED
    BY <1>2, <2>2, <2>3
<1>3. ASSUME NEW t \in Threads, Careers!WriteChange(t)
      PROVE  /\ t \in clients.threads
             /\ \E j : /\ job' = [job EXCEPT ![t] = j] /\ CareerFits(j)
                       /\ (j.call # "none" => j.row = profile /\ UNCHANGED profile)
  BY <1>2, <1>3 DEF Careers!WriteChange, Careers!Free, Careers!ChangeCalls, CareerEdits,
     Careers!AssistantCalls
<1>4. ASSUME NEW t \in Threads, Careers!Load(t)
      PROVE  /\ t \in clients.threads
             /\ \E j : /\ job' = [job EXCEPT ![t] = j] /\ CareerFits(j)
                       /\ (j.call # "none" => j.row = profile /\ UNCHANGED profile)
  BY <1>2, <1>4 DEF Careers!Load, Careers!Free, CareerEdits, Careers!AssistantCalls
<1>5. ASSUME NEW t \in Threads, Careers!Define(t)
      PROVE  /\ t \in clients.threads
             /\ \/ UNCHANGED job
                \/ \E j : /\ job' = [job EXCEPT ![t] = j] /\ CareerFits(j)
                          /\ (j.call # "none" => j.row = profile /\ UNCHANGED profile)
  BY <1>2, <1>5 DEF Careers!Define, Careers!Free, CareerEdits, Careers!AssistantCalls
<1>6. ASSUME NEW t \in Threads,
             Careers!Sync(t) \/ Careers!Crash(t) \/ Careers!SaveProfile(t) \/ Careers!UpdateRole(t)
             \/ Careers!UpdatePermissions(t) \/ Careers!Cascade(t) \/ Careers!Record(t)
      PROVE  t \in clients.threads /\ job' = [job EXCEPT ![t] = Careers!Idle]
  BY <1>6, Zenon DEF Careers!Sync, Careers!Crash, Careers!SaveProfile, Careers!UpdateRole, Careers!At,
     Careers!UpdatePermissions, Careers!Cascade, Careers!Record, Careers!Done, CareerTypes
<1> QED
  BY <1>1, <1>3, <1>4, <1>5, <1>6 DEF Careers!Next, Careers!Command

\* What every action is, of the profile and the level that was told.
LEMMA ProfileTypes ==
  ASSUME Careers!CareerConstants, CareerTypes, Careers!Next
  PROVE  profile' \in Careers!Profiles /\ logged' \in Levels \cup {Nil}
<1> USE DEF Careers!Profiles
<1>1. profile \in Careers!Profiles /\ logged \in Levels \cup {Nil}
  BY DEF CareerTypes, Careers!TypeOK
<1>2. \A l \in Levels \cup {Nil} : Careers!Career(l) \in CareerNames \cup {Nil}
  BY DEF Careers!Career, CareerTypes, Careers!TypeOK
<1>3. \A t \in Threads : job[t].call # "none" => job[t].row \in Careers!Profiles
  BY DEF CareerTypes, CareerFits
<1>4. ASSUME NEW t \in Threads, Careers!Sync(t)
      PROVE  profile' \in Careers!Profiles /\ logged' \in Levels \cup {Nil}
  <2>1. Careers!Live # {} => Careers!LatestLevel \in Levels
    BY LatestChange DEF CareerTypes
  <2> QED
    BY <1>1, <1>4, <2>1 DEF Careers!Sync, Careers!LogLevel
<1>5. ASSUME NEW t \in Threads, Careers!SaveProfile(t)
      PROVE  profile' \in Careers!Profiles /\ logged' \in Levels \cup {Nil}
  <2>1. job[t].row \in Careers!Profiles
    BY <1>3, <1>5, Zenon DEF Careers!SaveProfile, Careers!At
  <2>2. ASSUME NEW l \in Levels \cup {Nil},
               profile' = [job[t].row EXCEPT !.cpf_level = l, !.career_level = Careers!Career(l),
                                             !.by_hand = FALSE],
               logged' = IF job[t].row.cpf_level = l THEN logged ELSE l
        PROVE  profile' \in Careers!Profiles /\ logged' \in Levels \cup {Nil}
    BY <1>1, <1>2, <2>1, <2>2
  <2>3. ASSUME NEW c \in CareerNames \cup {Nil}, UNCHANGED logged,
               profile' = [job[t].row EXCEPT !.career_level = c, !.by_hand = TRUE]
        PROVE  profile' \in Careers!Profiles /\ logged' \in Levels \cup {Nil}
    BY <1>1, <2>1, <2>3
  <2>4. ASSUME NEW r \in RoleNames \cup {Nil}, UNCHANGED logged,
               profile' = [job[t].row EXCEPT !.role = r, !.permissions = r]
        PROVE  profile' \in Careers!Profiles /\ logged' \in Levels \cup {Nil}
    BY <1>1, <2>1, <2>4
  <2> QED
    BY <1>5, <2>2, <2>3, <2>4, Zenon
       DEF Careers!SaveProfile, Careers!WithRole, Careers!LogLevel
<1>6. ASSUME NEW t \in Threads, Careers!UpdateRole(t) \/ Careers!UpdatePermissions(t)
      PROVE  profile' \in Careers!Profiles /\ logged' \in Levels \cup {Nil}
  <2>1. job[t].row \in Careers!Profiles
    BY <1>3, <1>6 DEF Careers!UpdateRole, Careers!UpdatePermissions, Careers!At
  <2> QED
    BY <1>1, <1>6, <2>1, Zenon DEF Careers!UpdateRole, Careers!UpdatePermissions, Careers!WithRole
<1>7. ASSUME NEW t \in Threads, Careers!Cascade(t)
      PROVE  profile' \in Careers!Profiles /\ logged' \in Levels \cup {Nil}
  <2>1. job[t].row \in Careers!Profiles /\ job[t].key \in CareerNames \cup {Nil}
    BY <1>3, <1>7 DEF Careers!Cascade, Careers!At, CareerTypes, CareerFits
  <2> QED
    BY <1>1, <1>7, <2>1 DEF Careers!Cascade, Careers!Cascaded
<1>8. ASSUME NEW t \in Threads, Careers!Record(t)
      PROVE  profile' \in Careers!Profiles /\ logged' \in Levels \cup {Nil}
  <2>1. PICK m, n : /\ profile' = [profile EXCEPT !.cpf_level = m, !.role = n] /\ UNCHANGED logged
                    /\ m \in Levels \cup {profile.cpf_level} /\ n \in RoleNames \cup {Nil, profile.role}
    BY <1>8, Zenon DEF Careers!Record
  <2>2. m \in Levels \cup {Nil} /\ n \in RoleNames \cup {Nil}
    BY <1>1, <2>1
  <2> QED
    BY <1>1, <2>1, <2>2
<1>9. ASSUME NEW t \in Threads, Careers!Command(t)
      PROVE  profile' \in Careers!Profiles /\ logged' \in Levels \cup {Nil}
  BY <1>1, <1>9 DEF Careers!Command
<1> QED
  BY <1>1, <1>4, <1>5, <1>6, <1>7, <1>8, <1>9 DEF Careers!Next, Careers!WriteChange, Careers!Crash,
     Careers!Load, Careers!Define

LEMMA CareerTypesStep ==
  ASSUME Careers!CareerConstants, CareerTypes, Careers!Next, UNCHANGED clients
  PROVE  CareerTypes'
<1>1. change' \in [Careers!Keys -> Careers!Changes \cup {Nil}]
  <2>1. CASE UNCHANGED change
    BY <2>1 DEF CareerTypes, Careers!TypeOK
  <2>2. ASSUME NEW k \in Careers!Keys, NEW r \in Careers!Changes \cup {Nil},
               change' = [change EXCEPT ![k] = r]
        PROVE  change' \in [Careers!Keys -> Careers!Changes \cup {Nil}]
    BY <2>2 DEF CareerTypes, Careers!TypeOK
  <2>3. ASSUME NEW t \in Threads, Careers!WriteChange(t)
        PROVE  \E k \in Careers!Keys, r \in Careers!Changes \cup {Nil} : change' = [change EXCEPT ![k] = r]
    BY <2>3 DEF Careers!WriteChange, Careers!NextKey, Careers!Live
  <2>4. ASSUME NEW t \in Threads, Careers!Record(t)
        PROVE  \/ UNCHANGED change
               \/ \E k \in Careers!Keys, r \in Careers!Changes \cup {Nil} : change' = [change EXCEPT ![k] = r]
    <3>1. PICK l \in Levels, d \in 0..LastEffective, k \in Careers!NextKey :
            \/ UNCHANGED change
            \/ change' = [change EXCEPT ![k] = [effective_date |-> d, new_level |-> l]]
      BY <2>4 DEF Careers!Record
    <3>2. k \in Careers!Keys /\ [effective_date |-> d, new_level |-> l] \in Careers!Changes
      BY DEF Careers!NextKey, Careers!Changes
    <3> QED
      BY <3>1, <3>2
  <2> QED
    BY <2>1, <2>2, <2>3, <2>4, Zenon DEF Careers!Next, Careers!Sync, Careers!Crash, Careers!Load,
       Careers!SaveProfile, Careers!UpdateRole, Careers!UpdatePermissions, Careers!Define,
       Careers!Cascade, Careers!Command
<1>2. definition' \in [Levels -> CareerNames \cup {Nil}]
  <2>1. CASE UNCHANGED definition
    BY <2>1 DEF CareerTypes, Careers!TypeOK
  <2>2. ASSUME NEW t \in Threads, Careers!Define(t)
        PROVE  definition' \in [Levels -> CareerNames \cup {Nil}]
    BY <2>2 DEF Careers!Define, CareerTypes, Careers!TypeOK
  <2> QED
    BY <2>1, <2>2, Zenon DEF Careers!Next, Careers!Sync, Careers!Crash, Careers!Load, Careers!WriteChange,
       Careers!SaveProfile, Careers!UpdateRole, Careers!UpdatePermissions, Careers!Record,
       Careers!Cascade, Careers!Command
<1>3. Careers!TypeOK'
  BY <1>1, <1>2, ProfileTypes DEF Careers!TypeOK
<1>4. \A j : CareerFits(j) <=> CareerFits(j)'
  BY DEF CareerFits
<1>5. CASE UNCHANGED job
  BY <1>3, <1>4, <1>5 DEF CareerTypes
<1>6. ASSUME NEW t \in Threads, NEW j, job' = [job EXCEPT ![t] = j], t \in clients.threads, CareerFits(j)
      PROVE  CareerTypes'
  <2>1. job' = [u \in Threads |-> job'[u]]
    BY <1>6 DEF CareerTypes
  <2>2. ASSUME NEW u \in Threads
        PROVE  CareerFits(job[u])' /\ (job'[u].call # "none" => u \in clients'.threads)
    <3>1. PICK i : i = job'[u]
      OBVIOUS
    <3>2. i = IF u = t THEN j ELSE job[u]
      BY <1>6, <3>1 DEF CareerTypes
    <3>3. CareerFits(i) /\ (i.call # "none" => u \in clients.threads)
      BY <1>6, <3>2 DEF CareerTypes
    <3> QED
      BY <1>4, <3>1, <3>3
  <2> QED
    BY <1>3, <2>1, <2>2 DEF CareerTypes
<1> QED
  BY <1>5, <1>6, CareerJob

LEMMA RoleStep ==
  ASSUME Careers!CareerConstants, CareerTypes, RolesRuled, RoleInv, Careers!Next, UNCHANGED clients
  PROVE  RoleInv'
<1> USE DEF RoleRow
<1>1. /\ "permissions" \notin clients.calls
      /\ "ai_promotion" \notin clients.calls /\ "ai_change" \notin clients.calls
  BY DEF RolesRuled, Careers!Only, Careers!AssistantCalls
<1>2. \A t \in Threads : job[t].call # "none" => /\ job[t].row \in Careers!Profiles
                                                /\ RoleRow(job[t].row)
  BY DEF CareerTypes, CareerFits, RoleInv
<1>3. \A t \in Threads : ~Careers!At(t, "permissions") /\ ~Careers!At(t, "ai_promotion")
                         /\ ~Careers!At(t, "ai_change")
  BY <1>1 DEF CareerTypes, CareerFits, CareerEdits, Careers!At, Careers!AssistantCalls
<1>4. profile \in Careers!Profiles /\ RoleRow(profile)
  BY DEF CareerTypes, Careers!TypeOK, RoleInv
<1>5. ASSUME NEW t \in Threads, Careers!Sync(t) \/ Careers!Command(t) PROVE RoleRow(profile')
  BY <1>4, <1>5 DEF Careers!Sync, Careers!Command, Careers!Profiles
<1>6. ASSUME NEW t \in Threads,
             Careers!SaveProfile(t) \/ Careers!UpdateRole(t) \/ Careers!Cascade(t)
      PROVE  RoleRow(profile')
  <2>1. job[t].row \in Careers!Profiles /\ RoleRow(job[t].row)
    BY <1>2, <1>6, Zenon DEF Careers!SaveProfile, Careers!UpdateRole, Careers!Cascade, Careers!At
  <2> QED
    BY <1>4, <1>6, <2>1, Zenon DEF Careers!SaveProfile, Careers!UpdateRole, Careers!Cascade, Careers!WithRole,
       Careers!Cascaded, Careers!Profiles
<1>7. RoleRow(profile')
  BY <1>3, <1>4, <1>5, <1>6, Zenon DEF Careers!Next, Careers!WriteChange, Careers!Crash, Careers!Load,
     Careers!UpdatePermissions, Careers!Define, Careers!Record
<1>8. ASSUME NEW u \in Threads, job'[u].call # "none" PROVE RoleRow(job'[u].row)
  <2>1. CASE UNCHANGED job
    BY <1>2, <1>8, <2>1
  <2>2. ASSUME NEW t \in Threads, NEW j, job' = [job EXCEPT ![t] = j],
               j.call # "none" => j.row = profile /\ UNCHANGED profile
        PROVE  RoleRow(job'[u].row)
    <3>1. job'[u] = IF u = t THEN j ELSE job[u]
      BY <2>2 DEF CareerTypes
    <3> QED
      BY <1>2, <1>4, <1>8, <2>2, <3>1
  <2> QED
    BY <2>1, <2>2, CareerJob
<1> QED
  BY <1>7, <1>8 DEF RoleInv

LEMMA CareerAlone ==
  ASSUME CareerTypes, Careers!OneAtATime, NEW t \in Threads, t \in clients.threads
  PROVE  \A u \in Threads : u # t => job[u].call = "none"
BY DEF Careers!OneAtATime, CareerTypes

LEMMA CareerWorker ==
  ASSUME CareerTypes, Careers!OneAtATime, NEW t \in Threads, NEW c, Careers!At(t, c) \/ Careers!Free(t, c),
         c # "none"
  PROVE  \A u \in Threads : u # t => job[u].call = "none"
<1>1. t \in clients.threads
  BY DEF CareerTypes, Careers!At, Careers!Free
<1> QED
  BY <1>1, CareerAlone

LEMMA CurrentStep ==
  ASSUME Careers!CareerConstants, CareerTypes, Careers!OneAtATime, ProfileCurrent, Careers!Next
  PROVE  ProfileCurrent'
<1>1. ASSUME UNCHANGED job PROVE ProfileCurrent'
  <2>1. ASSUME NEW t \in Threads, Careers!Command(t) PROVE ProfileCurrent'
    <3>1. \A u \in Threads : job[u].call = "none"
      BY <2>1, CareerWorker DEF Careers!Command, Careers!Free, Careers!Idle
    <3> QED
      BY <1>1, <3>1 DEF ProfileCurrent
  <2>2. ASSUME UNCHANGED profile PROVE ProfileCurrent'
    BY <1>1, <2>2 DEF ProfileCurrent
  <2>3. ASSUME NEW t \in Threads, NEW c, c # "none", Careers!At(t, c), Careers!Done(t) PROVE FALSE
    BY <1>1, <2>3 DEF Careers!At, Careers!Done, Careers!Idle, CareerTypes
  <2>4. ASSUME NEW t \in Threads,
               Careers!Sync(t) \/ Careers!SaveProfile(t) \/ Careers!UpdateRole(t)
               \/ Careers!UpdatePermissions(t) \/ Careers!Cascade(t) \/ Careers!Record(t)
        PROVE  FALSE
    BY <2>3, <2>4, Zenon DEF Careers!Sync, Careers!SaveProfile, Careers!UpdateRole,
       Careers!UpdatePermissions, Careers!Cascade, Careers!Record
  <2> QED
    BY <2>1, <2>2, <2>4 DEF Careers!Next, Careers!WriteChange, Careers!Crash, Careers!Load, Careers!Define
<1>2. ASSUME NEW t \in Threads, NEW j, job' = [job EXCEPT ![t] = j], t \in clients.threads,
             j.call # "none" => j.row = profile /\ UNCHANGED profile
      PROVE  ProfileCurrent'
  <2>1. \A u \in Threads : job'[u] = IF u = t THEN j ELSE job[u]
    BY <1>2 DEF CareerTypes
  <2> QED
    BY <1>2, <2>1, CareerAlone DEF ProfileCurrent
<1> QED
  BY <1>1, <1>2, CareerJob

LEMMA LoggedStep ==
  ASSUME Careers!CareerConstants, CareerTypes, ProfileCurrent, Logging, logged = profile.cpf_level,
         Careers!Next
  PROVE  logged' = profile'.cpf_level
<1> USE DEF Careers!Profiles
<1>1. /\ "ai_promotion" \notin clients.calls /\ "ai_change" \notin clients.calls
      /\ "command" \notin clients.calls
  BY DEF Logging, Careers!Only, Careers!AssistantCalls
<1>2. \A t \in Threads : ~Careers!At(t, "ai_promotion") /\ ~Careers!At(t, "ai_change")
  BY <1>1 DEF CareerTypes, CareerFits, CareerEdits, Careers!At, Careers!AssistantCalls
<1>3. profile \in Careers!Profiles
  BY DEF CareerTypes, Careers!TypeOK
<1>4. ASSUME NEW t \in Threads, Careers!Sync(t) PROVE logged' = profile'.cpf_level
  <2>1. job[t].row = profile
    BY <1>4 DEF Careers!Sync, Careers!At, ProfileCurrent
  <2> QED
    BY <1>3, <1>4, <2>1 DEF Careers!Sync, Careers!LogLevel
<1>5. ASSUME NEW t \in Threads,
             Careers!SaveProfile(t) \/ Careers!UpdateRole(t) \/ Careers!UpdatePermissions(t)
             \/ Careers!Cascade(t)
      PROVE  logged' = profile'.cpf_level
  <2>1. job[t].row = profile
    BY <1>5, Zenon DEF Careers!SaveProfile, Careers!UpdateRole, Careers!UpdatePermissions, Careers!Cascade,
       Careers!At, ProfileCurrent
  <2>2. CASE Careers!SaveProfile(t)
    <3>1. ASSUME NEW l, profile' = [profile EXCEPT !.cpf_level = l, !.career_level = Careers!Career(l),
                                                   !.by_hand = FALSE],
                 logged' = IF profile.cpf_level = l THEN logged ELSE l
          PROVE  logged' = profile'.cpf_level
      BY <1>3, <3>1
    <3>2. ASSUME NEW q, profile' = [profile EXCEPT !.role = q, !.permissions = q], UNCHANGED logged
          PROVE  logged' = profile'.cpf_level
      BY <1>3, <3>2
    <3>3. ASSUME NEW c, profile' = [profile EXCEPT !.career_level = c, !.by_hand = TRUE],
                 UNCHANGED logged
          PROVE  logged' = profile'.cpf_level
      BY <1>3, <3>3
    <3> QED
      BY <2>1, <2>2, <3>1, <3>2, <3>3, Zenon DEF Careers!SaveProfile, Careers!LogLevel, Careers!WithRole
  <2>3. CASE Careers!UpdateRole(t) \/ Careers!UpdatePermissions(t) \/ Careers!Cascade(t)
    BY <1>3, <2>1, <2>3, Zenon DEF Careers!UpdateRole, Careers!UpdatePermissions,
       Careers!Cascade, Careers!WithRole, Careers!Cascaded
  <2> QED
    BY <1>5, <2>2, <2>3
<1>6. \A t \in Threads : ~Careers!Record(t) /\ ~Careers!Command(t)
  BY <1>1, <1>2, Zenon DEF Careers!Record, Careers!Command, Careers!Free
<1> QED
  BY <1>4, <1>5, <1>6 DEF Careers!Next, Careers!WriteChange, Careers!Crash, Careers!Load, Careers!Define

LEMMA FollowsStep ==
  ASSUME Careers!CareerConstants, CareerTypes, Careers!OneAtATime, ProfileCurrent, Defining, FollowsInv,
         Careers!Next
  PROVE  FollowsInv'
<1> DEFINE career == Careers!Career(profile.cpf_level)
           Told == profile.by_hand \/ profile.career_level = career
<1> USE DEF Careers!Profiles
<1>1. /\ clients.faults = {} /\ "command" \notin clients.calls
      /\ \A t \in Threads : job[t].call \in {"none", "profile", "role", "permissions", "cascade"}
      /\ \A c \in Careers!ChangeCalls : c \notin clients.calls
  BY DEF Defining, Careers!NoFaults, Careers!Only, CareerTypes, CareerFits, CareerEdits,
     Careers!AssistantCalls, Careers!ChangeCalls
<1>2. profile \in Careers!Profiles /\ definition \in [Levels -> CareerNames \cup {Nil}] /\ Nil \notin Levels
  BY DEF CareerTypes, Careers!TypeOK, Careers!CareerConstants
<1>3. ASSUME NEW t \in Threads, NEW c, Careers!At(t, c) \/ Careers!Free(t, c), c # "none", c # "cascade"
      PROVE  Told /\ \A u \in Threads : job[u].call # "cascade"
  <2>1. \A u \in Threads : u # t => job[u].call = "none"
    BY <1>3, CareerWorker
  <2>2. job[t].call # "cascade"
    BY <1>3 DEF Careers!At, Careers!Free, Careers!Idle
  <2> QED
    BY <2>1, <2>2 DEF FollowsInv
<1>4. ASSUME NEW t \in Threads, job' = [job EXCEPT ![t] = Careers!Idle],
             \A u \in Threads : u # t => job[u].call # "cascade",
             Told',
             UNCHANGED definition
      PROVE  FollowsInv'
  BY <1>4 DEF FollowsInv, CareerTypes, Careers!Idle
<1>5. ASSUME NEW t \in Threads, Careers!Load(t) PROVE FollowsInv'
  <2>1. PICK c \in CareerEdits : Careers!Free(t, c) /\ Careers!Take(t, c, Nil, profile)
    BY <1>5 DEF Careers!Load, CareerEdits
  <2>2. c # "none" /\ c # "cascade"
    BY DEF CareerEdits, Careers!AssistantCalls
  <2>3. Told /\ \A u \in Threads : job[u].call # "cascade"
    BY <1>3, <2>1, <2>2
  <2>4. \A u \in Threads : job'[u].call # "cascade"
    BY <2>1, <2>2, <2>3 DEF Careers!Take, CareerTypes
  <2>5. UNCHANGED <<profile, definition>>
    BY <1>5 DEF Careers!Load
  <2> QED
    BY <2>3, <2>4, <2>5 DEF FollowsInv, Careers!Career
<1>6. ASSUME NEW t \in Threads,
             Careers!SaveProfile(t) \/ Careers!UpdateRole(t) \/ Careers!UpdatePermissions(t)
      PROVE  FollowsInv'
  <2>1. PICK c \in {"profile", "role", "permissions"} : Careers!At(t, c)
    BY <1>6, Zenon DEF Careers!SaveProfile, Careers!UpdateRole, Careers!UpdatePermissions
  <2>2. Told /\ \A u \in Threads : job[u].call # "cascade"
    BY <1>3, <2>1
  <2>3. job[t].row = profile /\ job' = [job EXCEPT ![t] = Careers!Idle] /\ UNCHANGED definition
    BY <1>6, <2>1, Zenon DEF Careers!SaveProfile, Careers!UpdateRole, Careers!UpdatePermissions, Careers!At,
       ProfileCurrent, Careers!Done
  <2>4. ASSUME NEW l, profile' = [profile EXCEPT !.cpf_level = l, !.career_level = Careers!Career(l),
                                              !.by_hand = FALSE]
        PROVE  Told'
    BY <1>2, <2>3, <2>4 DEF Careers!Career
  <2>5. ASSUME NEW q, NEW p, profile' = [profile EXCEPT !.role = q, !.permissions = p]
        PROVE  Told'
    BY <1>2, <2>2, <2>3, <2>5 DEF Careers!Career
  <2>6. ASSUME NEW p, profile' = [profile EXCEPT !.permissions = p]
        PROVE  Told'
    BY <1>2, <2>2, <2>3, <2>6 DEF Careers!Career
  <2>7. ASSUME NEW k, profile' = [profile EXCEPT !.career_level = k, !.by_hand = TRUE]
        PROVE  Told'
    BY <1>2, <2>7
  <2> HIDE DEF Told
  <2>8. Told'
    BY <1>6, <2>3, <2>4, <2>5, <2>6, <2>7, Zenon DEF Careers!SaveProfile, Careers!UpdateRole,
       Careers!UpdatePermissions, Careers!WithRole
  <2> QED
    BY <1>4, <2>2, <2>3, <2>8
<1>7. ASSUME NEW t \in Threads, Careers!Define(t) PROVE FollowsInv'
  <2>1. Told /\ \A u \in Threads : job[u].call # "cascade"
    BY <1>3, <1>7 DEF Careers!Define
  <2>2. PICK l \in Levels, c \in CareerNames \cup {Nil} :
          /\ definition' = [definition EXCEPT ![l] = c]
          /\ IF profile.cpf_level = l THEN Careers!Take(t, "cascade", c, profile) ELSE UNCHANGED job
    BY <1>7 DEF Careers!Define
  <2>3. UNCHANGED profile
    BY <1>7 DEF Careers!Define
  <2>4. CASE profile.cpf_level = l
    <3>1. Careers!Career(profile.cpf_level)' = c
      BY <1>2, <2>2, <2>3, <2>4 DEF Careers!Career
    <3>2. job'[t].call = "cascade" /\ job'[t].key = c
      BY <2>2, <2>4 DEF Careers!Take, CareerTypes
    <3> QED
      BY <3>1, <3>2 DEF FollowsInv
  <2>5. CASE profile.cpf_level # l
    <3>1. Careers!Career(profile.cpf_level)' = career
      BY <1>2, <2>2, <2>3, <2>5 DEF Careers!Career
    <3> QED
      BY <2>1, <2>2, <2>3, <2>5, <3>1 DEF FollowsInv
  <2> QED
    BY <2>4, <2>5
<1>8. ASSUME NEW t \in Threads, Careers!Cascade(t) PROVE FollowsInv'
  <2>1. \A u \in Threads : u # t => job[u].call = "none"
    BY <1>8, CareerWorker DEF Careers!Cascade
  <2>2. job[t].call = "cascade" /\ job[t].key = career /\ job[t].row = profile
    BY <1>8, <2>1 DEF Careers!Cascade, Careers!At, FollowsInv, ProfileCurrent
  <2>3. job' = [job EXCEPT ![t] = Careers!Idle] /\ UNCHANGED definition
    BY <1>8 DEF Careers!Cascade, Careers!Done
  <2>4. profile'.career_level = career /\ profile'.cpf_level = profile.cpf_level
    BY <1>2, <1>8, <2>2 DEF Careers!Cascade, Careers!Cascaded
  <2>5. Careers!Career(profile.cpf_level)' = career
    BY <2>3, <2>4 DEF Careers!Career
  <2> QED
    BY <1>4, <2>1, <2>3, <2>4, <2>5
<1>9. \A t \in Threads :
        /\ ~Careers!WriteChange(t) /\ ~Careers!Sync(t) /\ ~Careers!Crash(t)
        /\ ~Careers!Record(t) /\ ~Careers!Command(t)
  BY <1>1, Zenon DEF Careers!WriteChange, Careers!Sync, Careers!Crash, Careers!Record, Careers!Command,
     Careers!Free, Careers!At, Careers!Fault, Careers!ChangeCalls
<1> QED
  BY <1>5, <1>6, <1>7, <1>8, <1>9 DEF Careers!Next

LEMMA LatestStep ==
  ASSUME Careers!CareerConstants, CareerTypes, Careers!OneAtATime, ProfileCurrent, Changing, LatestInv,
         Careers!Next
  PROVE  LatestInv'
<1> USE DEF Careers!Profiles
<1>1. /\ clients.faults = {} /\ "command" \notin clients.calls
      /\ \A t \in Threads : job[t].call \in {"none", "sync", "role", "permissions", "cascade"}
      /\ "profile" \notin clients.calls
  BY DEF Changing, Careers!NoFaults, Careers!Only, CareerTypes, CareerFits, CareerEdits,
     Careers!AssistantCalls, Careers!ChangeCalls
<1>2. profile \in Careers!Profiles
  BY DEF CareerTypes, Careers!TypeOK
<1>3. ASSUME NEW t \in Threads, NEW c, Careers!At(t, c) \/ Careers!Free(t, c), c # "none", c # "sync"
      PROVE  Careers!Live = {} \/ Careers!AtLatest(profile.cpf_level)
  <2>1. \A u \in Threads : u # t => job[u].call = "none"
    BY <1>3, CareerWorker
  <2>2. job[t].call # "sync"
    BY <1>3 DEF Careers!At, Careers!Free, Careers!Idle
  <2> QED
    BY <2>1, <2>2 DEF LatestInv
<1>4. ASSUME UNCHANGED change,
             Careers!Live = {} \/ Careers!AtLatest(profile.cpf_level),
             profile'.cpf_level = profile.cpf_level
      PROVE  LatestInv'
  BY <1>4 DEF LatestInv, Careers!Live, Careers!AtLatest
<1>5. ASSUME NEW t \in Threads, Careers!WriteChange(t) PROVE LatestInv'
  <2>1. job'[t].call = "sync"
    BY <1>5 DEF Careers!WriteChange, Careers!Take, CareerTypes
  <2> QED
    BY <2>1 DEF LatestInv
<1>6. ASSUME NEW t \in Threads, Careers!Sync(t) PROVE LatestInv'
  <2>1. job[t].row = profile /\ UNCHANGED change
    BY <1>6 DEF Careers!Sync, Careers!At, ProfileCurrent
  <2>2. CASE Careers!Live = {}
    BY <2>1, <2>2 DEF LatestInv, Careers!Live
  <2>3. CASE Careers!Live # {}
    <3>1. profile'.cpf_level = Careers!LatestLevel
      BY <1>2, <1>6, <2>1, <2>3 DEF Careers!Sync
    <3>2. PICK l : l = Careers!LatestLevel
      OBVIOUS
    <3>3. Careers!AtLatest(l)
      BY <2>3, <3>2, LatestChange DEF CareerTypes
    <3>4. Careers!AtLatest(l)'
      BY <2>1, <3>3 DEF Careers!AtLatest, Careers!Live
    <3> QED
      BY <3>1, <3>2, <3>4 DEF LatestInv
  <2> QED
    BY <2>2, <2>3
<1>7. ASSUME NEW t \in Threads, Careers!Load(t) PROVE LatestInv'
  <2>1. PICK c \in CareerEdits : Careers!Free(t, c)
    BY <1>7 DEF Careers!Load, CareerEdits
  <2>2. c # "none" /\ c # "sync"
    BY DEF CareerEdits, Careers!AssistantCalls
  <2> QED
    BY <1>3, <1>4, <1>7, <2>1, <2>2 DEF Careers!Load
<1>8. ASSUME NEW t \in Threads,
             Careers!UpdateRole(t) \/ Careers!UpdatePermissions(t) \/ Careers!Cascade(t)
      PROVE  LatestInv'
  <2>1. PICK c \in {"role", "permissions", "cascade"} : Careers!At(t, c)
    BY <1>8 DEF Careers!UpdateRole, Careers!UpdatePermissions, Careers!Cascade
  <2>2. job[t].row = profile
    BY <2>1 DEF ProfileCurrent, Careers!At
  <2>3. UNCHANGED change /\ profile'.cpf_level = profile.cpf_level
    BY <1>2, <1>8, <2>2, Zenon DEF Careers!UpdateRole, Careers!UpdatePermissions, Careers!Cascade,
       Careers!Cascaded, Careers!WithRole
  <2> QED
    BY <1>3, <1>4, <2>1, <2>3
<1>9. ASSUME NEW t \in Threads, Careers!Define(t) PROVE LatestInv'
  BY <1>3, <1>4, <1>9 DEF Careers!Define
<1>10. \A t \in Threads :
         /\ ~Careers!SaveProfile(t) /\ ~Careers!Crash(t)
         /\ ~Careers!Record(t) /\ ~Careers!Command(t)
  BY <1>1, Zenon DEF Careers!SaveProfile, Careers!Crash, Careers!Record, Careers!Command,
     Careers!Free, Careers!At, Careers!Fault
<1> QED
  BY <1>5, <1>6, <1>7, <1>8, <1>9, <1>10 DEF Careers!Next

LEMMA CareerInvStep ==
  ASSUME Careers!CareerConstants, CareerInv, [Careers!Next]_Careers!vars, UNCHANGED clients
  PROVE  CareerInv'
<1>1. CASE Careers!Next
  <2>1. /\ Careers!OneAtATime' <=> Careers!OneAtATime
        /\ RolesRuled' <=> RolesRuled
        /\ Logging' <=> Logging
        /\ Defining' <=> Defining
        /\ Changing' <=> Changing
    BY DEF Careers!OneAtATime, RolesRuled, Logging, Defining, Changing, Careers!Only, Careers!NoFaults
  <2>2. CareerTypes'
    BY <1>1, CareerTypesStep DEF CareerInv
  <2>3. RolesRuled => RoleInv'
    BY <1>1, RoleStep DEF CareerInv
  <2>4. Careers!OneAtATime => ProfileCurrent'
    BY <1>1, CurrentStep DEF CareerInv
  <2>5. Careers!OneAtATime => (Logging => logged' = profile'.cpf_level)
    BY <1>1, LoggedStep DEF CareerInv
  <2>6. Careers!OneAtATime => (Defining => FollowsInv')
    BY <1>1, FollowsStep DEF CareerInv
  <2>7. Careers!OneAtATime => (Changing => LatestInv')
    BY <1>1, LatestStep DEF CareerInv
  <2> QED
    BY <2>1, <2>2, <2>3, <2>4, <2>5, <2>6, <2>7 DEF CareerInv
<1>2. CASE UNCHANGED Careers!vars
  BY <1>2 DEF Careers!vars, CareerInv, CareerTypes, Careers!TypeOK, CareerFits, RolesRuled, RoleInv,
     RoleRow, ProfileCurrent, Logging, Defining, Changing, FollowsInv, LatestInv, Careers!OneAtATime,
     Careers!Only, Careers!NoFaults, Careers!Career, Careers!Live, Careers!AtLatest
<1> QED
  BY <1>1, <1>2

LEMMA CareerKept ==
  ASSUME Careers!CareerConstants, CareerInv
  PROVE  /\ Careers!TypeOK /\ Careers!LevelIsLatest /\ Careers!HistoryTellsLevel
         /\ Careers!CareerFollowsLevel /\ Careers!PermissionsFollowRole
<1>1. Careers!AllIdle => \A t \in Threads : job[t].call = "none"
  BY DEF Careers!AllIdle, Careers!Idle
<1>2. Careers!TypeOK
  BY DEF CareerInv, CareerTypes
<1>3. Careers!LevelIsLatest
  BY <1>1 DEF CareerInv, Changing, LatestInv, Careers!LevelIsLatest
<1>4. Careers!HistoryTellsLevel
  BY DEF CareerInv, Logging, Careers!HistoryTellsLevel
<1>5. Careers!CareerFollowsLevel
  BY <1>1 DEF CareerInv, Defining, FollowsInv, Careers!CareerFollowsLevel
<1>6. Careers!PermissionsFollowRole
  BY DEF CareerInv, RolesRuled, RoleInv, RoleRow, Careers!PermissionsFollowRole
<1> QED
  BY <1>2, <1>3, <1>4, <1>5, <1>6

\* What a call that ends puts right.
LEMMA SyncPutsRight ==
  ASSUME Careers!CareerConstants, CareerInv, Careers!OneAtATime, NEW t \in Threads, Careers!Sync(t),
         Careers!Live # {}
  PROVE  Careers!AtLatest(profile'.cpf_level)
<1>1. job[t].row = profile /\ profile \in Careers!Profiles
  BY DEF Careers!Sync, Careers!At, CareerInv, ProfileCurrent, CareerTypes, Careers!TypeOK
<1>2. profile'.cpf_level = Careers!LatestLevel
  BY <1>1 DEF Careers!Sync, Careers!Profiles
<1> QED
  BY <1>2, LatestChange DEF CareerInv, CareerTypes

-----------------------------------------------------------------------------
(* RolePermissions.  Bits are numbers without a gap, so that a number that *)
(* was read earlier is taken or still the next; and a permission that is   *)
(* known stays, so that a file which has begun to be applied names none    *)
(* that is missing.                                                        *)

Named(f) == {row.permission : row \in f}
RolesOf(f) == {row.role : row \in f}
NumberOfKnown == Cardinality(Access!Known)
HolderRows == [role : RoleNames \cup {Nil}, bits : SUBSET Access!Bits]

RightsFits(j) ==
  /\ j.call \in {"none", "number", "read", "apply", "merge", "delete", "save", "promote"}
  /\ j.call = "none" => j = Access!Idle
  /\ j.call = "number" =>
       /\ j.key \in PermissionNames /\ j.row.bit \in 1..NumberOfKnown + 1
       /\ j.row.next \in clients.files \cup {Nil}
  /\ j.call = "read" => j.row \in clients.files
  /\ j.call = "apply" =>
       j.row \in clients.files /\ Named(j.row) \subseteq Access!Known /\ j.key \subseteq RolesOf(j.row)
  /\ j.call = "merge" =>
       /\ j.row.file \in clients.files /\ Named(j.row.file) \subseteq Access!Known
       /\ j.key \subseteq RolesOf(j.row.file)
       /\ j.row.role \in RolesOf(j.row.file) /\ j.row.current \subseteq Access!Known
  /\ j.call = "delete" => j.key \in RoleNames
  /\ j.call = "save" => j.key \in Holders /\ j.row \in HolderRows
  /\ j.call = "promote" => j.key \in Holders

BitInv ==
  /\ bit \in [PermissionNames -> Access!Bits \cup {Nil}] /\ DefaultPermissions \subseteq Access!Known
  /\ Access!BitsOf(Access!Known) = 1..NumberOfKnown
  /\ \A p, q \in Access!Known : bit[p] = bit[q] => p = q

RightsJobs ==
  /\ job = [t \in Threads |-> job[t]]
  /\ \A t \in Threads : RightsFits(job[t]) /\ (job[t].call # "none" => t \in clients.threads)

RightsTypes == BitInv /\ Access!TypeOK /\ RightsJobs

LEMMA RightsNulls ==
  ASSUME Access!RoleConstants, clients \in Clients, clients.area = "roles"
  PROVE  /\ Nil \notin PermissionNames /\ Nil \notin RoleNames /\ Nil \notin Holders
         /\ Nil \notin Access!Bits
         /\ \A P \in SUBSET PermissionNames : P # Nil
         /\ SuperAdmin \in RoleNames /\ DefaultPermissions \subseteq PermissionNames
         /\ IsFiniteSet(PermissionNames)
         /\ clients.files \subseteq SUBSET Access!Rows
         /\ clients.sets \subseteq SUBSET PermissionNames
         /\ clients.bitmaps \subseteq SUBSET Access!Bits
BY SameCounting DEF Access!RoleConstants

LEMMA FilesName ==
  ASSUME Access!RoleConstants, clients \in Clients, clients.area = "roles", NEW f \in clients.files
  PROVE  /\ Named(f) \subseteq PermissionNames /\ RolesOf(f) \subseteq RoleNames
         /\ \A r, o, v : Access!Of(f, r, o, v) \subseteq Named(f)
BY RightsNulls DEF Named, RolesOf, Access!Of, Access!Rows

LEMMA CountKnown ==
  ASSUME Access!RoleConstants
  PROVE  /\ IsFiniteSet(Access!Known) /\ NumberOfKnown \in Nat
         /\ Cardinality(PermissionNames) \in Nat /\ NumberOfKnown <= Cardinality(PermissionNames)
         /\ Access!Bits = 1..Cardinality(PermissionNames) + 1
         /\ NumberOfKnown = 0 <=> Access!Known = {}
<1>1. IsFiniteSet(PermissionNames) /\ Access!Known \in SUBSET PermissionNames
  BY SameCounting DEF Access!RoleConstants, Access!Known
<1>2. IsFiniteSet(Access!Known) /\ NumberOfKnown <= Cardinality(PermissionNames)
  BY <1>1, FS_Subset DEF NumberOfKnown
<1>3. NumberOfKnown \in Nat /\ Cardinality(PermissionNames) \in Nat
  BY <1>1, <1>2, FS_CardinalityType DEF NumberOfKnown
<1>4. NumberOfKnown = 0 <=> Access!Known = {}
  BY <1>2, FS_EmptySet DEF NumberOfKnown
<1>5. Access!Bits = 1..Cardinality(PermissionNames) + 1
  BY SameCounting DEF Access!Bits
<1> QED
  BY <1>1, <1>2, <1>3, <1>4, <1>5

LEMMA NextBitIs ==
  ASSUME Access!RoleConstants, BitInv
  PROVE  Access!NextBit = NumberOfKnown + 1
<1>1. CASE Access!Known = {}
  BY <1>1, CountKnown DEF Access!NextBit
<1>2. CASE Access!Known # {}
  <2>1. NumberOfKnown \in Nat /\ NumberOfKnown # 0
    BY <1>2, CountKnown
  <2>2. PICK S : S = 1..NumberOfKnown
    OBVIOUS
  <2>3. NumberOfKnown \in S /\ \A i \in S : NumberOfKnown >= i
    BY <2>1, <2>2
  <2>4. Access!Max(S) \in S /\ \A i \in S : Access!Max(S) >= i
    BY <2>3 DEF Access!Max
  <2>5. Access!Max(S) = NumberOfKnown
    BY <2>1, <2>2, <2>3, <2>4
  <2>6. Access!NextBit = Access!Max(S) + 1
    BY <1>2, <2>2 DEF Access!NextBit, BitInv
  <2> QED
    BY <2>5, <2>6
<1> QED
  BY <1>1, <1>2

\* Known permissions stay known, with their bits.
LEMMA BitStep ==
  ASSUME Access!RoleConstants, clients \in Clients, clients.area = "roles", RightsTypes, Access!Next
  PROVE  /\ BitInv' /\ Access!Known \subseteq Access!Known' /\ NumberOfKnown <= NumberOfKnown'
         /\ NumberOfKnown' \in Nat
         /\ \A p \in Access!Known : bit'[p] = bit[p]
<1>1. CASE UNCHANGED bit
  BY <1>1, CountKnown DEF BitInv, RightsTypes, Access!Known, Access!BitsOf, NumberOfKnown
<1>2. ASSUME NEW t \in Threads, Access!Insert(t), bit' # bit
      PROVE  /\ BitInv' /\ Access!Known \subseteq Access!Known' /\ NumberOfKnown <= NumberOfKnown'
             /\ NumberOfKnown' \in Nat
             /\ \A p \in Access!Known : bit'[p] = bit[p]
  <2>1. PICK p, b : p = job[t].key /\ b = job[t].row.bit
    OBVIOUS
  <2>2. /\ bit[p] = Nil /\ b \notin Access!BitsOf(Access!Known)
        /\ bit' = [bit EXCEPT ![p] = b]
    BY <1>2, <2>1 DEF Access!Insert
  <2>3. p \in PermissionNames /\ b \in 1..NumberOfKnown + 1
    BY <1>2, <2>1 DEF Access!Insert, Access!At, RightsTypes, RightsJobs, RightsFits
  <2>4. b = NumberOfKnown + 1 /\ NumberOfKnown \in Nat
    BY <2>2, <2>3, CountKnown DEF RightsTypes, BitInv
  <2>5. p \notin Access!Known /\ Access!Known' = Access!Known \cup {p}
    <3>1. b # Nil
      <4>1. b \in Access!Bits
        <5>1. Access!Known \cup {p} \in SUBSET PermissionNames /\ p \notin Access!Known
          BY <2>2, <2>3 DEF Access!Known
        <5>2. IsFiniteSet(PermissionNames) /\ IsFiniteSet(Access!Known)
          BY RightsNulls, CountKnown
        <5>3. Cardinality(Access!Known \cup {p}) = NumberOfKnown + 1
          BY <5>1, <5>2, FS_AddElement DEF NumberOfKnown
        <5>4. Cardinality(Access!Known \cup {p}) <= Cardinality(PermissionNames)
          BY <5>1, <5>2, FS_Subset
        <5> QED
          BY <2>4, <5>3, <5>4, CountKnown
      <4> QED
        BY <4>1, RightsNulls
    <3> QED
      BY <2>2, <2>3, <3>1 DEF Access!Known, RightsTypes, BitInv
  <2>6. NumberOfKnown' = NumberOfKnown + 1
    <3>1. Cardinality(Access!Known \cup {p}) = NumberOfKnown + 1
      BY <2>5, CountKnown, FS_AddElement DEF NumberOfKnown
    <3> QED
      BY <2>5, <3>1 DEF NumberOfKnown
  <2>7. b \in Access!Bits
    <3>1. NumberOfKnown' <= Cardinality(PermissionNames)
      <4>1. Access!Known' \in SUBSET PermissionNames /\ IsFiniteSet(PermissionNames)
        BY RightsNulls DEF Access!Known
      <4> QED
        BY <4>1, FS_Subset DEF NumberOfKnown
    <3> QED
      BY <2>4, <2>6, <3>1, CountKnown
  <2>8. bit' \in [PermissionNames -> Access!Bits \cup {Nil}]
    BY <2>2, <2>3, <2>7 DEF RightsTypes, BitInv
  <2>9. \A q \in Access!Known : bit'[q] = bit[q] /\ q # p
    BY <2>2, <2>5 DEF RightsTypes, BitInv
  <2>10. bit'[p] = b
    BY <2>2, <2>3 DEF RightsTypes, BitInv
  <2>11. Access!BitsOf(Access!Known)' = Access!BitsOf(Access!Known) \cup {b}
    BY <2>5, <2>9, <2>10 DEF Access!BitsOf
  <2>12. Access!BitsOf(Access!Known)' = 1..NumberOfKnown'
    BY <2>4, <2>6, <2>11 DEF RightsTypes, BitInv
  <2>13. \A q \in Access!Known : bit[q] # b
    BY <2>2 DEF Access!BitsOf
  <2>14. \A q, r \in Access!Known' : bit'[q] = bit'[r] => q = r
    BY <2>5, <2>9, <2>10, <2>13 DEF RightsTypes, BitInv
  <2>15. DefaultPermissions \subseteq Access!Known'
    BY <2>5 DEF RightsTypes, BitInv
  <2> QED
    BY <2>4, <2>5, <2>6, <2>8, <2>9, <2>12, <2>14, <2>15 DEF BitInv
<1> QED
  BY <1>1, <1>2 DEF Access!Next, Access!Load, Access!Upload, Access!ReadRow, Access!ApplyRole,
     Access!Merge, Access!CreateRole, Access!UpdateRole, Access!DeleteRole, Access!DeleteChecked,
     Access!AdminDelete, Access!Join, Access!EditProfile, Access!Save, Access!SetUp, Access!Promote,
     Access!Crash

\* What every action is, of the roles.
LEMMA RolesStep ==
  ASSUME Access!RoleConstants, clients \in Clients, clients.area = "roles", RightsTypes, Access!Next
  PROVE  \/ UNCHANGED permitted
         \/ \E r \in RoleNames, P \in SUBSET Access!Known : permitted' = [permitted EXCEPT ![r] = P]
         \/ \E r \in RoleNames : Access!Delete(r)
<1>1. ASSUME NEW t \in Threads, Access!ReadRow(t)
      PROVE  \/ UNCHANGED permitted
             \/ \E r \in RoleNames, P \in SUBSET Access!Known : permitted' = [permitted EXCEPT ![r] = P]
  <2>1. RolesOf(job[t].row) \subseteq RoleNames
    BY <1>1, FilesName DEF Access!ReadRow, Access!At, RightsTypes, RightsJobs, RightsFits
  <2>2. \/ UNCHANGED permitted
        \/ \E r \in RolesOf(job[t].row) : permitted' = [permitted EXCEPT ![r] = {}]
    BY <1>1 DEF Access!ReadRow, RolesOf
  <2> QED
    BY <2>1, <2>2
<1>2. ASSUME NEW t \in Threads, Access!ApplyRole(t)
      PROVE  \/ UNCHANGED permitted
             \/ \E r \in RoleNames, P \in SUBSET Access!Known : permitted' = [permitted EXCEPT ![r] = P]
  <2>1. PICK f : f = job[t].row
    OBVIOUS
  <2>2. /\ f \in clients.files /\ Named(f) \subseteq Access!Known /\ job[t].key \subseteq RolesOf(f)
    BY <1>2, <2>1 DEF Access!ApplyRole, Access!At, RightsTypes, RightsJobs, RightsFits
  <2>3. /\ RolesOf(f) \subseteq RoleNames
        /\ \A r, o, v : Access!Of(f, r, o, v) \subseteq Access!Known
    BY <2>2, FilesName
  <2>4. \/ UNCHANGED permitted
        \/ \E r \in job[t].key :
             /\ r \in Access!Living
             /\ \/ permitted' = [permitted EXCEPT ![r] = Access!Of(f, r, "override", TRUE)]
                \/ permitted' = [permitted EXCEPT ![r] =
                     (permitted[r] \cup Access!Of(f, r, "add", TRUE)) \ Access!Of(f, r, "remove", TRUE)]
    BY <1>2, <2>1 DEF Access!ApplyRole
  <2>5. \A r \in Access!Living : permitted[r] \subseteq Access!Known
    BY DEF Access!Living, RightsTypes, Access!TypeOK
  <2>6. \A r \in Access!Living :
          /\ Access!Of(f, r, "override", TRUE) \in SUBSET Access!Known
          /\ (permitted[r] \cup Access!Of(f, r, "add", TRUE)) \ Access!Of(f, r, "remove", TRUE)
               \in SUBSET Access!Known
    BY <2>3, <2>5
  <2>7. job[t].key \subseteq RoleNames
    BY <2>2, <2>3
  <2> QED
    BY <2>4, <2>6, <2>7
<1>3. ASSUME NEW t \in Threads, Access!Merge(t)
      PROVE  \/ UNCHANGED permitted
             \/ \E r \in RoleNames, P \in SUBSET Access!Known : permitted' = [permitted EXCEPT ![r] = P]
  <2>1. PICK f, r, P : f = job[t].row.file /\ r = job[t].row.role /\ P = job[t].row.current
    OBVIOUS
  <2>2. /\ f \in clients.files /\ Named(f) \subseteq Access!Known /\ r \in RolesOf(f)
        /\ P \subseteq Access!Known
    BY <1>3, <2>1 DEF Access!Merge, Access!At, RightsTypes, RightsJobs, RightsFits
  <2>3. r \in RoleNames /\ Access!Merged(f, r, P) \in SUBSET Access!Known
    BY <2>2, FilesName DEF Access!Merged
  <2>4. UNCHANGED permitted \/ permitted' = [permitted EXCEPT ![r] = Access!Merged(f, r, P)]
    BY <1>3, <2>1 DEF Access!Merge
  <2> QED
    BY <2>3, <2>4
<1>4. ASSUME NEW t \in Threads, Access!CreateRole(t) \/ Access!UpdateRole(t) \/ Access!SetUp(t)
      PROVE  \E r \in RoleNames, P \in SUBSET Access!Known : permitted' = [permitted EXCEPT ![r] = P]
  <2>1. CASE Access!SetUp(t)
    BY <2>1, RightsNulls DEF Access!SetUp
  <2>2. CASE Access!CreateRole(t) \/ Access!UpdateRole(t)
    <3>1. PICK r, P : r \in RoleNames /\ permitted' = [permitted EXCEPT ![r] = P \cap Access!Known]
      BY <2>2 DEF Access!CreateRole, Access!UpdateRole, Access!Living
    <3>2. P \cap Access!Known \in SUBSET Access!Known
      OBVIOUS
    <3> QED
      BY <3>1, <3>2
  <2> QED
    BY <1>4, <2>1, <2>2
<1>5. ASSUME NEW t \in Threads, Access!DeleteChecked(t) \/ Access!AdminDelete(t)
      PROVE  \E r \in RoleNames : Access!Delete(r)
  BY <1>5 DEF Access!DeleteChecked, Access!AdminDelete, Access!At, RightsTypes, RightsJobs, RightsFits,
     Access!Living
<1> QED
  BY <1>1, <1>2, <1>3, <1>4, <1>5 DEF Access!Next, Access!Load, Access!Insert, Access!Upload,
     Access!DeleteRole, Access!Join, Access!EditProfile, Access!Save, Access!Promote, Access!Crash

\* Bits of permissions that are known are in range.
LEMMA BitsInRange ==
  ASSUME BitInv
  PROVE  /\ \A P \in SUBSET Access!Known : Access!BitsOf(P) \subseteq Access!Bits
         /\ \A P \in SUBSET Access!Known : Access!BitsOf(P) \subseteq Access!BitsOf(Access!Known)
BY DEF BitInv, Access!BitsOf, Access!Known

LEMMA RoleBits ==
  ASSUME RightsTypes, NEW r \in Access!Living \cup {Nil}
  PROVE  /\ Access!BitmapOf(r) \subseteq Access!Bits
         /\ Access!BitmapOf(r) \subseteq Access!BitsOf(Access!Known)
<1>1. r # Nil => permitted[r] \in SUBSET Access!Known
  BY DEF RightsTypes, Access!TypeOK, Access!Living
<1> QED
  BY <1>1, BitsInRange DEF RightsTypes, Access!BitmapOf

\* What every action is, of the profiles.
LEMMA HoldersStep ==
  ASSUME Access!RoleConstants, clients \in Clients, clients.area = "roles", RightsTypes, Access!Next
  PROVE  \/ UNCHANGED holder /\ Access!Living \subseteq Access!Living'
         \/ \E k \in Holders, row \in HolderRows :
              /\ holder' = [holder EXCEPT ![k] = row] /\ row.role \in Access!Living \cup {Nil}
              /\ UNCHANGED permitted
         \/ \E r \in RoleNames : Access!Delete(r)
<1>1. ASSUME NEW t \in Threads, Access!Join(t)
      PROVE  \E k \in Holders, row \in HolderRows :
               /\ holder' = [holder EXCEPT ![k] = row] /\ row.role \in Access!Living \cup {Nil}
               /\ UNCHANGED permitted
  <2>1. PICK k \in Holders, P \in {DefaultPermissions, Access!Known} :
          holder' = [holder EXCEPT ![k] = [role |-> Nil, bits |-> Access!BitsOf(P)]]
    BY <1>1 DEF Access!Join
  <2>2. PICK row : row = [role |-> Nil, bits |-> Access!BitsOf(P)]
    OBVIOUS
  <2>3. P \in SUBSET Access!Known
    BY DEF RightsTypes, BitInv
  <2>4. row \in HolderRows /\ row.role = Nil
    BY <2>2, <2>3, BitsInRange DEF HolderRows, RightsTypes
  <2>5. holder' = [holder EXCEPT ![k] = row]
    BY <2>1, <2>2
  <2> QED
    BY <1>1, <2>4, <2>5 DEF Access!Join
<1>2. ASSUME NEW t \in Threads, Access!Save(t)
      PROVE  \/ UNCHANGED <<holder, permitted>>
             \/ \E k \in Holders, row \in HolderRows :
                  /\ holder' = [holder EXCEPT ![k] = row] /\ row.role \in Access!Living \cup {Nil}
                  /\ UNCHANGED permitted
  <2>1. job[t].key \in Holders /\ job[t].row \in HolderRows
    BY <1>2 DEF Access!Save, Access!At, RightsTypes, RightsJobs, RightsFits
  <2> QED
    BY <1>2, <2>1 DEF Access!Save
<1>3. ASSUME NEW t \in Threads, Access!Promote(t)
      PROVE  \/ UNCHANGED <<holder, permitted>>
             \/ \E k \in Holders, row \in HolderRows :
                  /\ holder' = [holder EXCEPT ![k] = row] /\ row.role \in Access!Living \cup {Nil}
                  /\ UNCHANGED permitted
  <2>1. job[t].key \in Holders
    BY <1>3 DEF Access!Promote, Access!At, RightsTypes, RightsJobs, RightsFits
  <2>2. PICK row : row = [role |-> SuperAdmin, bits |-> Access!BitmapOf(SuperAdmin)]
    OBVIOUS
  <2>3. CASE SuperAdmin \in Access!Living
    <3>1. row \in HolderRows /\ row.role = SuperAdmin
      BY <2>2, <2>3, RoleBits, RightsNulls DEF HolderRows
    <3>2. holder' = [holder EXCEPT ![job[t].key] = row]
      BY <1>3, <2>2, <2>3 DEF Access!Promote, Access!WithRole
    <3> QED
      BY <1>3, <2>1, <2>3, <3>1, <3>2 DEF Access!Promote
  <2>4. CASE SuperAdmin \notin Access!Living
    BY <1>3, <2>4 DEF Access!Promote
  <2> QED
    BY <2>3, <2>4
<1>4. ASSUME UNCHANGED holder
      PROVE  \/ Access!Living \subseteq Access!Living'
             \/ \E r \in RoleNames : Access!Delete(r)
  <2>1. CASE UNCHANGED permitted
    BY <2>1 DEF Access!Living
  <2>2. ASSUME NEW r \in RoleNames, NEW P \in SUBSET Access!Known, permitted' = [permitted EXCEPT ![r] = P]
        PROVE  Access!Living \subseteq Access!Living'
    <3>1. P # Nil
      BY RightsNulls DEF Access!Known
    <3> QED
      BY <2>2, <3>1 DEF Access!Living, RightsTypes, Access!TypeOK
  <2> QED
    BY <2>1, <2>2, RolesStep
<1>5. ASSUME NEW t \in Threads, Access!DeleteChecked(t) \/ Access!AdminDelete(t)
      PROVE  \E r \in RoleNames : Access!Delete(r)
  BY <1>5 DEF Access!DeleteChecked, Access!AdminDelete, Access!At, RightsTypes, RightsJobs, RightsFits,
     Access!Living
<1> QED
  BY <1>1, <1>2, <1>3, <1>4, <1>5 DEF Access!Next, Access!Load, Access!Insert, Access!Upload,
     Access!ReadRow, Access!ApplyRole, Access!Merge, Access!CreateRole, Access!UpdateRole,
     Access!DeleteRole, Access!EditProfile, Access!SetUp, Access!Crash

LEMMA RightsTypeStep ==
  ASSUME Access!RoleConstants, clients \in Clients, clients.area = "roles", RightsTypes, Access!Next
  PROVE  Access!TypeOK'
<1> DEFINE HeldRow(L) == [role : L \cup {Nil}, bits : SUBSET Access!Bits]
<1>1. bit' \in [PermissionNames -> Access!Bits \cup {Nil}] /\ Access!Known \subseteq Access!Known'
  BY BitStep DEF BitInv
<1>2. /\ permitted \in [RoleNames -> {Nil} \cup SUBSET Access!Known]
      /\ holder \in [Holders -> HeldRow(Access!Living) \cup {Nil}]
  BY DEF RightsTypes, Access!TypeOK
<1>3. permitted' \in [RoleNames -> {Nil} \cup SUBSET Access!Known]
  <2>1. ASSUME NEW r \in RoleNames, Access!Delete(r)
        PROVE  permitted' \in [RoleNames -> {Nil} \cup SUBSET Access!Known]
    BY <1>2, <2>1 DEF Access!Delete
  <2>2. ASSUME NEW r \in RoleNames, NEW P \in SUBSET Access!Known, permitted' = [permitted EXCEPT ![r] = P]
        PROVE  permitted' \in [RoleNames -> {Nil} \cup SUBSET Access!Known]
    BY <1>2, <2>2
  <2> QED
    BY <1>2, <2>1, <2>2, RolesStep
<1>4. permitted' \in [RoleNames -> {Nil} \cup SUBSET Access!Known']
  BY <1>1, <1>3
<1>5. \A L, M : L \subseteq M => HeldRow(L) \subseteq HeldRow(M)
  OBVIOUS
<1>6. holder' \in [Holders -> HeldRow(Access!Living') \cup {Nil}]
  <2>1. CASE UNCHANGED holder /\ Access!Living \subseteq Access!Living'
    BY <1>2, <1>5, <2>1
  <2>2. ASSUME NEW k \in Holders, NEW row \in HolderRows, holder' = [holder EXCEPT ![k] = row],
               row.role \in Access!Living \cup {Nil}, UNCHANGED permitted
        PROVE  holder' \in [Holders -> HeldRow(Access!Living') \cup {Nil}]
    <3>1. Access!Living' = Access!Living
      BY <2>2 DEF Access!Living
    <3>2. row \in HeldRow(Access!Living)
      BY <2>2 DEF HolderRows
    <3> QED
      BY <1>2, <2>2, <3>1, <3>2
  <2>3. ASSUME NEW r \in RoleNames, Access!Delete(r)
        PROVE  holder' \in [Holders -> HeldRow(Access!Living') \cup {Nil}]
    <3>1. Access!Living' = Access!Living \ {r}
      BY <1>2, <2>3 DEF Access!Delete, Access!Living
    <3>2. ASSUME NEW k \in Holders PROVE holder'[k] \in HeldRow(Access!Living \ {r}) \cup {Nil}
      <4>1. CASE holder[k] = Nil
        BY <2>3, <4>1 DEF Access!Delete, Access!People
      <4>2. CASE holder[k] # Nil
        <5>1. PICK row : row = holder[k]
          OBVIOUS
        <5>2. row \in HeldRow(Access!Living) /\ k \in Access!People
          BY <1>2, <4>2, <5>1 DEF Access!People
        <5>3. holder'[k] = IF row.role = r THEN [row EXCEPT !.role = Nil] ELSE row
          BY <2>3, <5>1, <5>2 DEF Access!Delete
        <5> QED
          BY <5>2, <5>3
      <4> QED
        BY <4>1, <4>2
    <3>3. holder' = [k \in Holders |-> holder'[k]]
      BY <2>3 DEF Access!Delete
    <3> QED
      BY <3>1, <3>2, <3>3
  <2> QED
    BY <2>1, <2>2, <2>3, HoldersStep
<1> QED
  BY <1>1, <1>4, <1>6 DEF Access!TypeOK

LEMMA RightsFitStays ==
  ASSUME Access!Known \subseteq Access!Known', NumberOfKnown <= NumberOfKnown', NumberOfKnown \in Nat,
         NumberOfKnown' \in Nat, UNCHANGED clients, NEW j, RightsFits(j)
  PROVE  RightsFits(j)'
BY DEF RightsFits, HolderRows

\* What every action is, of the jobs.
LEMMA RightsJob ==
  ASSUME Access!RoleConstants, clients \in Clients, clients.area = "roles", RightsTypes, Access!Next
  PROVE  \/ UNCHANGED job
         \/ \E t \in Threads : \E j :
              RightsFits(j) /\ job' = [job EXCEPT ![t] = j] /\ t \in clients.threads
<1> DEFINE Goes(t) == \/ UNCHANGED job
                      \/ \E j : RightsFits(j) /\ job' = [job EXCEPT ![t] = j] /\ t \in clients.threads
<1>1. ASSUME NEW t \in Threads, Access!Done(t), job[t].call # "none" \/ t \in clients.threads
      PROVE  Goes(t)
  <2>1. PICK j : j = Access!Idle
    OBVIOUS
  <2>2. RightsFits(j)
    BY <2>1 DEF RightsFits, Access!Idle
  <2> QED
    BY <1>1, <2>1, <2>2 DEF Access!Done, RightsTypes, RightsJobs
<1>2. ASSUME NEW t \in Threads, NEW c, NEW k, NEW row, Access!Take(t, c, k, row),
             job[t].call # "none" \/ t \in clients.threads,
             RightsFits([call |-> c, key |-> k, row |-> row])
      PROVE  Goes(t)
  BY <1>2 DEF Access!Take, RightsTypes, RightsJobs
<1>3. ASSUME NEW t \in Threads, NEW p \in PermissionNames, NEW next \in clients.files \cup {Nil},
             Access!Number(t, p, next), job[t].call # "none" \/ t \in clients.threads
      PROVE  Goes(t)
  <2>1. PICK row : row = [bit |-> Access!NextBit, next |-> next]
    OBVIOUS
  <2>2. row.bit \in 1..NumberOfKnown + 1 /\ row.next = next
    BY <2>1, CountKnown, NextBitIs DEF RightsTypes
  <2>3. RightsFits([call |-> "number", key |-> p, row |-> row])
    BY <2>2 DEF RightsFits
  <2>4. Access!Take(t, "number", p, row)
    BY <1>3, <2>1 DEF Access!Number
  <2> HIDE DEF Goes
  <2> QED
    BY <1>2, <1>3, <2>3, <2>4
<1>4. ASSUME NEW t \in Threads, Access!Load(t) PROVE Goes(t)
  <2>1. PICK p \in PermissionNames : Access!Number(t, p, Nil) /\ t \in clients.threads
    BY <1>4 DEF Access!Load, Access!Free
  <2> HIDE DEF Goes
  <2> QED
    BY <1>3, <2>1
<1>5. ASSUME NEW t \in Threads, Access!Insert(t) PROVE Goes(t)
  <2>1. job[t].call = "number" /\ job[t].row.next \in clients.files \cup {Nil}
    BY <1>5 DEF Access!Insert, Access!At, RightsTypes, RightsJobs, RightsFits
  <2>2. \/ Access!Done(t)
        \/ job[t].row.next # Nil /\ Access!Take(t, "read", Nil, job[t].row.next)
    BY <1>5 DEF Access!Insert
  <2>3. ASSUME job[t].row.next # Nil
        PROVE  RightsFits([call |-> "read", key |-> Nil, row |-> job[t].row.next])
    BY <2>1, <2>3 DEF RightsFits
  <2> HIDE DEF Goes
  <2> QED
    BY <1>1, <1>2, <2>1, <2>2, <2>3
<1>6. ASSUME NEW t \in Threads, Access!Upload(t) PROVE Goes(t)
  <2>1. PICK f \in clients.files : Access!Take(t, "read", Nil, f) /\ t \in clients.threads
    BY <1>6 DEF Access!Upload, Access!Free
  <2>2. RightsFits([call |-> "read", key |-> Nil, row |-> f])
    BY DEF RightsFits
  <2> HIDE DEF Goes
  <2> QED
    BY <1>2, <2>1, <2>2
<1>7. ASSUME NEW t \in Threads, Access!ReadRow(t) PROVE Goes(t)
  <2>1. PICK f : f = job[t].row
    OBVIOUS
  <2>2. job[t].call = "read" /\ f \in clients.files
    BY <1>7, <2>1 DEF Access!ReadRow, Access!At, RightsTypes, RightsJobs, RightsFits
  <2>3. Named(f) \subseteq PermissionNames
    BY <2>2, FilesName
  <2>4. \/ \E p \in Named(f) : Access!Number(t, p, f)
        \/ UNCHANGED job
        \/ Named(f) \subseteq Access!Known /\ Access!Take(t, "apply", RolesOf(f), f)
    BY <1>7, <2>1 DEF Access!ReadRow, Named, RolesOf
  <2>5. ASSUME Named(f) \subseteq Access!Known
        PROVE  RightsFits([call |-> "apply", key |-> RolesOf(f), row |-> f])
    BY <2>2, <2>5 DEF RightsFits
  <2>6. ASSUME UNCHANGED job PROVE Goes(t)
    BY <2>6
  <2> HIDE DEF Goes
  <2> QED
    BY <1>2, <1>3, <2>2, <2>3, <2>4, <2>5, <2>6
<1>8. ASSUME NEW t \in Threads, Access!ApplyRole(t) PROVE Goes(t)
  <2>1. PICK f, keys : f = job[t].row /\ keys = job[t].key
    OBVIOUS
  <2>2. /\ job[t].call = "apply" /\ f \in clients.files /\ Named(f) \subseteq Access!Known
        /\ keys \subseteq RolesOf(f)
    BY <1>8, <2>1 DEF Access!ApplyRole, Access!At, RightsTypes, RightsJobs, RightsFits
  <2>3. \/ Access!Done(t)
        \/ \E r \in keys :
             \/ Access!Take(t, "apply", keys \ {r}, f)
             \/ /\ r \in Access!Living
                /\ Access!Take(t, "merge", keys \ {r},
                     [file |-> f, role |-> r,
                      current |-> (permitted[r] \cup Access!Of(f, r, "add", TRUE))
                                    \ Access!Of(f, r, "remove", TRUE)])
    BY <1>8, <2>1 DEF Access!ApplyRole
  <2>4. \A r \in keys : RightsFits([call |-> "apply", key |-> keys \ {r}, row |-> f])
    BY <2>2 DEF RightsFits
  <2>5. ASSUME NEW r \in keys, r \in Access!Living, NEW P,
               P = (permitted[r] \cup Access!Of(f, r, "add", TRUE)) \ Access!Of(f, r, "remove", TRUE)
        PROVE  RightsFits([call |-> "merge", key |-> keys \ {r},
                           row |-> [file |-> f, role |-> r, current |-> P]])
    <3>1. permitted[r] \subseteq Access!Known
      BY <2>5 DEF Access!Living, RightsTypes, Access!TypeOK
    <3>2. P \subseteq Access!Known
      BY <2>2, <2>5, <3>1, FilesName
    <3> QED
      BY <2>2, <2>5, <3>2 DEF RightsFits
  <2>6. ASSUME Access!Done(t) PROVE Goes(t)
    <3> HIDE DEF Goes
    <3> QED
      BY <1>1, <2>2, <2>6
  <2>7. ASSUME NEW r \in keys, Access!Take(t, "apply", keys \ {r}, f) PROVE Goes(t)
    <3> HIDE DEF Goes
    <3> QED
      BY <1>2, <2>2, <2>4, <2>7
  <2>8. ASSUME NEW r \in keys, r \in Access!Living, NEW P,
               P = (permitted[r] \cup Access!Of(f, r, "add", TRUE)) \ Access!Of(f, r, "remove", TRUE),
               Access!Take(t, "merge", keys \ {r}, [file |-> f, role |-> r, current |-> P])
        PROVE  Goes(t)
    <3> HIDE DEF Goes
    <3> QED
      BY <1>2, <2>2, <2>5, <2>8
  <2> HIDE DEF Goes
  <2> QED
    BY <2>3, <2>6, <2>7, <2>8
<1>9. ASSUME NEW t \in Threads, Access!Merge(t) PROVE Goes(t)
  <2>1. PICK f, keys : f = job[t].row.file /\ keys = job[t].key
    OBVIOUS
  <2>2. /\ job[t].call = "merge" /\ f \in clients.files /\ Named(f) \subseteq Access!Known
        /\ keys \subseteq RolesOf(f)
    BY <1>9, <2>1 DEF Access!Merge, Access!At, RightsTypes, RightsJobs, RightsFits
  <2>3. Access!Done(t) \/ Access!Take(t, "apply", keys, f)
    BY <1>9, <2>1 DEF Access!Merge
  <2>4. RightsFits([call |-> "apply", key |-> keys, row |-> f])
    BY <2>2 DEF RightsFits
  <2> HIDE DEF Goes
  <2> QED
    BY <1>1, <1>2, <2>2, <2>3, <2>4
<1>10. ASSUME NEW t \in Threads, Access!DeleteRole(t) PROVE Goes(t)
  <2>1. PICK r \in RoleNames : Access!Take(t, "delete", r, Nil) /\ t \in clients.threads
    BY <1>10 DEF Access!DeleteRole, Access!Free
  <2>2. RightsFits([call |-> "delete", key |-> r, row |-> Nil])
    BY DEF RightsFits
  <2> HIDE DEF Goes
  <2> QED
    BY <1>2, <2>1, <2>2
<1>11. ASSUME NEW t \in Threads, Access!EditProfile(t) PROVE Goes(t)
  <2>1. PICK k, row :
          /\ k \in Access!People
          /\ Access!Take(t, "save", k, row) /\ t \in clients.threads
          /\ \/ \E r \in Access!Living \cup {Nil} : row = [role |-> r, bits |-> Access!BitmapOf(r)]
             \/ \E B \in clients.bitmaps : row = [holder[k] EXCEPT !.bits = B]
             \/ row = holder[k]
    BY <1>11 DEF Access!EditProfile, Access!Free, Access!WithRole
  <2>2. k \in Holders /\ holder[k] \in [role : Access!Living \cup {Nil}, bits : SUBSET Access!Bits]
    BY <2>1 DEF Access!People, RightsTypes, Access!TypeOK
  <2>3. Access!Living \subseteq RoleNames
    BY DEF Access!Living
  <2>4. row \in HolderRows
    <3>1. ASSUME NEW r \in Access!Living \cup {Nil}, row = [role |-> r, bits |-> Access!BitmapOf(r)]
          PROVE  row \in HolderRows
      BY <2>3, <3>1, RoleBits DEF HolderRows
    <3>2. ASSUME NEW B \in clients.bitmaps, row = [holder[k] EXCEPT !.bits = B] PROVE row \in HolderRows
      BY <2>2, <2>3, <3>2, RightsNulls DEF HolderRows
    <3>3. CASE row = holder[k]
      BY <2>2, <2>3, <3>3 DEF HolderRows
    <3> QED
      BY <2>1, <3>1, <3>2, <3>3
  <2>5. RightsFits([call |-> "save", key |-> k, row |-> row])
    BY <2>2, <2>4 DEF RightsFits
  <2> HIDE DEF Goes
  <2> QED
    BY <1>2, <2>1, <2>5
<1>12. ASSUME NEW t \in Threads, Access!SetUp(t) PROVE Goes(t)
  <2>1. PICK k \in Holders : Access!Take(t, "promote", k, Nil) /\ t \in clients.threads
    BY <1>12 DEF Access!SetUp, Access!Free, Access!People
  <2>2. RightsFits([call |-> "promote", key |-> k, row |-> Nil])
    BY DEF RightsFits
  <2> HIDE DEF Goes
  <2> QED
    BY <1>2, <2>1, <2>2
<1>13. ASSUME NEW t \in Threads,
              Access!DeleteChecked(t) \/ Access!Save(t) \/ Access!Promote(t) \/ Access!Crash(t)
       PROVE  Goes(t)
  <2>1. Access!Done(t) /\ job[t].call # "none"
    BY <1>13 DEF Access!DeleteChecked, Access!Save, Access!Promote, Access!Crash, Access!At,
       RightsTypes, RightsJobs, RightsFits
  <2> HIDE DEF Goes
  <2> QED
    BY <1>1, <2>1
<1>14. ASSUME NEW t \in Threads,
              \/ Access!CreateRole(t) \/ Access!UpdateRole(t) \/ Access!AdminDelete(t) \/ Access!Join(t)
       PROVE  UNCHANGED job
  BY <1>14 DEF Access!CreateRole, Access!UpdateRole, Access!AdminDelete, Access!Join
<1>15. UNCHANGED job \/ \E t \in Threads : Goes(t)
  <2> HIDE DEF Goes
  <2> QED
    BY <1>4, <1>5, <1>6, <1>7, <1>8, <1>9, <1>10, <1>11, <1>12, <1>13, <1>14 DEF Access!Next
<1> QED
  BY <1>15

LEMMA RightsJobsStep ==
  ASSUME Access!RoleConstants, clients \in Clients, clients.area = "roles", RightsTypes, Access!Next,
         UNCHANGED clients
  PROVE  RightsJobs'
<1>1. \A j : RightsFits(j) => RightsFits(j)'
  <2> SUFFICES ASSUME NEW j, RightsFits(j) PROVE RightsFits(j)'
    OBVIOUS
  <2> QED
    BY BitStep, CountKnown, RightsFitStays
<1>2. ASSUME NEW t \in Threads, NEW j, job' = [job EXCEPT ![t] = j], t \in clients.threads, RightsFits(j)
      PROVE  RightsJobs'
  <2>1. job' = [u \in Threads |-> job'[u]]
    BY <1>2 DEF RightsTypes, RightsJobs
  <2>2. ASSUME NEW u \in Threads
        PROVE  RightsFits(job[u])' /\ (job'[u].call # "none" => u \in clients'.threads)
    <3>1. PICK i : i = job'[u]
      OBVIOUS
    <3>2. i = IF u = t THEN j ELSE job[u]
      BY <1>2, <3>1 DEF RightsTypes, RightsJobs
    <3>3. RightsFits(i) /\ (i.call # "none" => u \in clients.threads)
      BY <1>2, <3>2 DEF RightsTypes, RightsJobs
    <3> QED
      BY <1>1, <3>1, <3>3
  <2> QED
    BY <2>1, <2>2 DEF RightsJobs
<1>3. CASE UNCHANGED job
  <2>1. ASSUME NEW u \in Threads
        PROVE  RightsFits(job[u])' /\ (job'[u].call # "none" => u \in clients'.threads)
    <3>1. PICK i : i = job[u] /\ i = job'[u]
      BY <1>3
    <3>2. RightsFits(i) /\ (i.call # "none" => u \in clients.threads)
      BY <3>1 DEF RightsTypes, RightsJobs
    <3> QED
      BY <1>1, <3>1, <3>2
  <2> QED
    BY <1>3, <2>1 DEF RightsTypes, RightsJobs
<1> QED
  BY <1>2, <1>3, RightsJob

LEMMA RightsTypesStep ==
  ASSUME Access!RoleConstants, clients \in Clients, clients.area = "roles", RightsTypes, Access!Next,
         UNCHANGED clients
  PROVE  RightsTypes'
BY BitStep, RightsTypeStep, RightsJobsStep DEF RightsTypes

-----------------------------------------------------------------------------
(* Whose bits are whose.  As long as nobody writes a bitmap, the bits of a *)
(* profile, and of a copy that will be saved over it, are bits of known    *)
(* permissions.                                                            *)

Drawn(row) == row.bits \subseteq Access!BitsOf(Access!Known)
DrawnInv ==
  /\ \A k \in Access!People : Drawn(holder[k])
  /\ \A t \in Threads : job[t].call = "save" => Drawn(job[t].row)

LEMMA DrawnStep ==
  ASSUME Access!RoleConstants, clients \in Clients, clients.area = "roles", RightsTypes, Access!Next,
         "bitmap" \notin clients.calls, DrawnInv
  PROVE  DrawnInv'
<1>1. \A row : Drawn(row) => Drawn(row)'
  BY BitStep DEF Drawn, Access!BitsOf
<1>2. ASSUME NEW t \in Threads, Access!Join(t)
      PROVE  \E k \in Holders : \E row : Drawn(row) /\ holder' = [holder EXCEPT ![k] = row] /\ UNCHANGED job
  <2>1. PICK k \in Holders, P \in {DefaultPermissions, Access!Known} :
          holder' = [holder EXCEPT ![k] = [role |-> Nil, bits |-> Access!BitsOf(P)]]
    BY <1>2 DEF Access!Join
  <2>2. PICK row : row = [role |-> Nil, bits |-> Access!BitsOf(P)]
    OBVIOUS
  <2>3. P \in SUBSET Access!Known
    BY DEF RightsTypes, BitInv
  <2>4. Drawn(row)
    BY <2>2, <2>3, BitsInRange DEF Drawn, RightsTypes
  <2> QED
    BY <1>2, <2>1, <2>2, <2>4 DEF Access!Join
<1>3. ASSUME NEW t \in Threads, Access!Save(t) \/ Access!Promote(t)
      PROVE  /\ job' = [job EXCEPT ![t] = Access!Idle]
             /\ \/ UNCHANGED holder
                \/ \E k \in Holders : \E row : Drawn(row) /\ holder' = [holder EXCEPT ![k] = row]
  <2>1. CASE Access!Save(t)
    <3>1. job[t].key \in Holders /\ Drawn(job[t].row)
      BY <2>1 DEF Access!Save, Access!At, RightsTypes, RightsJobs, RightsFits, DrawnInv
    <3> QED
      BY <2>1, <3>1 DEF Access!Save, Access!Done
  <2>2. CASE Access!Promote(t)
    <3>1. job[t].key \in Holders
      BY <2>2 DEF Access!Promote, Access!At, RightsTypes, RightsJobs, RightsFits
    <3>2. PICK row : row = [role |-> SuperAdmin, bits |-> Access!BitmapOf(SuperAdmin)]
      OBVIOUS
    <3>3. SuperAdmin \in Access!Living => Drawn(row) /\ holder' = [holder EXCEPT ![job[t].key] = row]
      BY <2>2, <3>2, RoleBits DEF Drawn, Access!Promote, Access!WithRole
    <3> QED
      BY <2>2, <3>1, <3>3 DEF Access!Promote, Access!Done
  <2> QED
    BY <1>3, <2>1, <2>2
<1>4. ASSUME NEW t \in Threads, Access!EditProfile(t)
      PROVE  UNCHANGED holder /\ \E j : job' = [job EXCEPT ![t] = j] /\ Drawn(j.row)
  <2>1. PICK k, row :
          /\ k \in Access!People
          /\ Access!Take(t, "save", k, row)
          /\ \/ \E r \in Access!Living \cup {Nil} : row = [role |-> r, bits |-> Access!BitmapOf(r)]
             \/ row = holder[k]
    BY <1>4 DEF Access!EditProfile, Access!Free, Access!WithRole
  <2>2. Drawn(row)
    BY <2>1, RoleBits DEF DrawnInv, Drawn
  <2>3. PICK j : j = [call |-> "save", key |-> k, row |-> row]
    OBVIOUS
  <2>4. job' = [job EXCEPT ![t] = j] /\ Drawn(j.row)
    BY <2>1, <2>2, <2>3 DEF Access!Take
  <2> QED
    BY <1>4, <2>4 DEF Access!EditProfile
<1>5. ASSUME NEW t \in Threads, Access!DeleteChecked(t) \/ Access!AdminDelete(t)
      PROVE  /\ \E r \in RoleNames : Access!Delete(r)
             /\ UNCHANGED job \/ job' = [job EXCEPT ![t] = Access!Idle]
  BY <1>5 DEF Access!DeleteChecked, Access!AdminDelete, Access!At, RightsTypes, RightsJobs, RightsFits,
     Access!Living, Access!Done
<1>6. ASSUME NEW t \in Threads, NEW c, c # "save", NEW k, NEW row, Access!Take(t, c, k, row)
      PROVE  \E j : job' = [job EXCEPT ![t] = j] /\ j.call # "save"
  <2>1. PICK j : j = [call |-> c, key |-> k, row |-> row]
    OBVIOUS
  <2>2. job' = [job EXCEPT ![t] = j] /\ j.call # "save"
    BY <1>6, <2>1 DEF Access!Take
  <2> QED
    BY <2>2
<1>7. ASSUME NEW t \in Threads,
             \/ Access!Load(t) \/ Access!Insert(t) \/ Access!Upload(t) \/ Access!ReadRow(t)
             \/ Access!ApplyRole(t) \/ Access!Merge(t) \/ Access!CreateRole(t) \/ Access!UpdateRole(t)
             \/ Access!DeleteRole(t) \/ Access!SetUp(t) \/ Access!Crash(t)
      PROVE  /\ UNCHANGED holder
             /\ UNCHANGED job \/ \E j : job' = [job EXCEPT ![t] = j] /\ j.call # "save"
  <2>1. Access!Done(t) => \E j : job' = [job EXCEPT ![t] = j] /\ j.call # "save"
    <3>1. PICK j : j = Access!Idle
      OBVIOUS
    <3>2. j.call # "save"
      BY <3>1 DEF Access!Idle
    <3> QED
      BY <3>1, <3>2 DEF Access!Done
  <2>2. CASE Access!Load(t) \/ Access!Insert(t) \/ Access!Upload(t) \/ Access!ReadRow(t)
    BY <1>6, <2>1, <2>2 DEF Access!Load, Access!Insert, Access!Upload, Access!ReadRow, Access!Number
  <2>3. CASE Access!ApplyRole(t) \/ Access!Merge(t)
    BY <1>6, <2>1, <2>3 DEF Access!ApplyRole, Access!Merge
  <2>4. CASE \/ Access!CreateRole(t) \/ Access!UpdateRole(t) \/ Access!DeleteRole(t) \/ Access!SetUp(t)
             \/ Access!Crash(t)
    BY <1>6, <2>1, <2>4 DEF Access!CreateRole, Access!UpdateRole, Access!DeleteRole, Access!SetUp,
       Access!Crash
  <2> QED
    BY <1>7, <2>2, <2>3, <2>4
<1>8. \A k \in Access!People' : Drawn(holder[k])'
  <2>1. CASE UNCHANGED holder
    <3>1. ASSUME NEW k \in Access!People' PROVE Drawn(holder[k])'
      <4>1. PICK row : row = holder[k] /\ row = holder'[k]
        BY <2>1
      <4>2. Drawn(row)
        BY <2>1, <4>1 DEF Access!People, DrawnInv
      <4> QED
        BY <1>1, <4>1, <4>2
    <3> QED
      BY <3>1
  <2>2. ASSUME NEW k \in Holders, NEW row, Drawn(row), holder' = [holder EXCEPT ![k] = row]
        PROVE  \A i \in Access!People' : Drawn(holder[i])'
    <3>1. ASSUME NEW i \in Access!People' PROVE Drawn(holder[i])'
      <4>1. PICK new : new = holder'[i]
        OBVIOUS
      <4>2. new = IF i = k THEN row ELSE holder[i]
        BY <2>2, <4>1 DEF Access!People, RightsTypes, Access!TypeOK
      <4>3. i # k => i \in Access!People
        BY <2>2 DEF Access!People
      <4>4. Drawn(new)
        BY <2>2, <4>2, <4>3 DEF DrawnInv
      <4> QED
        BY <1>1, <4>1, <4>4
    <3> QED
      BY <3>1
  <2>3. ASSUME NEW r, Access!Delete(r) PROVE \A i \in Access!People' : Drawn(holder[i])'
    <3>1. ASSUME NEW i \in Access!People' PROVE Drawn(holder[i])'
      <4>1. PICK new : new = holder'[i]
        OBVIOUS
      <4>2. i \in Holders /\ new # Nil
        BY <4>1 DEF Access!People
      <4>3. new = IF i \in Access!People /\ holder[i].role = r THEN [holder[i] EXCEPT !.role = Nil] ELSE holder[i]
        BY <2>3, <4>1, <4>2 DEF Access!Delete
      <4>4. i \in Access!People
        BY <4>2, <4>3 DEF Access!People
      <4>5. holder[i] \in [role : Access!Living \cup {Nil}, bits : SUBSET Access!Bits] /\ Drawn(holder[i])
        BY <4>4 DEF Access!People, RightsTypes, Access!TypeOK, DrawnInv
      <4>6. Drawn(new)
        BY <4>3, <4>5 DEF Drawn
      <4> QED
        BY <1>1, <4>1, <4>6
    <3> QED
      BY <3>1
  <2> QED
    BY <1>2, <1>3, <1>4, <1>5, <1>7, <2>1, <2>2, <2>3 DEF Access!Next
<1>9. ASSUME NEW u \in Threads, job'[u].call = "save" PROVE Drawn(job[u].row)'
  <2>1. ASSUME NEW t \in Threads, NEW j, job' = [job EXCEPT ![t] = j], j.call # "save" \/ Drawn(j.row)
        PROVE  Drawn(job[u].row)'
    <3>1. PICK i : i = job'[u]
      OBVIOUS
    <3>2. i = IF u = t THEN j ELSE job[u]
      BY <2>1, <3>1 DEF RightsTypes, RightsJobs
    <3>3. Drawn(i.row)
      BY <1>9, <2>1, <3>1, <3>2 DEF DrawnInv
    <3> QED
      BY <1>1, <3>1, <3>3
  <2>2. CASE UNCHANGED job
    <3>1. PICK i : i = job[u] /\ i = job'[u]
      BY <2>2
    <3>2. Drawn(i.row)
      BY <1>9, <3>1 DEF DrawnInv
    <3> QED
      BY <1>1, <3>1, <3>2
  <2>3. Access!Idle.call # "save"
    BY DEF Access!Idle
  <2> QED
    BY <1>2, <1>3, <1>4, <1>5, <1>7, <2>1, <2>2, <2>3 DEF Access!Next
<1> QED
  BY <1>8, <1>9 DEF DrawnInv

-----------------------------------------------------------------------------
(* One call at a time, and nothing is taken from a role: no profile, and   *)
(* no copy that will be saved, has more bits than its role gives.          *)

Gives(r) == IF r = Nil THEN DefaultPermissions ELSE permitted[r]
Given(row) == row.role \in Access!Living \cup {Nil} /\ row.bits \subseteq Access!BitsOf(Gives(row.role))

Growing ==
  /\ Access!OneAtATime
  /\ clients.calls \cap {"bitmap", "update", "admin_delete", "superuser"} = {}
  /\ \A f \in clients.files : \A row \in f : row.operation = "add"

GivenInv ==
  /\ \A k \in Access!People : Given(holder[k])
  /\ \A t \in Threads :
       /\ job[t].call = "save" => Given(job[t].row)
       /\ job[t].call # "merge"
       /\ job[t].call = "delete" => \A k \in Access!People : holder[k].role # job[t].key

LEMMA RightsAlone ==
  ASSUME RightsTypes, Access!OneAtATime, NEW t \in Threads, NEW c, c # "none",
         Access!At(t, c) \/ Access!Free(t, c)
  PROVE  \A u \in Threads : u # t => job[u].call = "none"
<1>1. t \in clients.threads
  BY DEF RightsTypes, RightsJobs, Access!At, Access!Free
<1> QED
  BY <1>1 DEF RightsTypes, RightsJobs, Access!OneAtATime

\* What roles that grow give includes what they gave.
LEMMA GivesMore ==
  ASSUME Access!RoleConstants, clients \in Clients, clients.area = "roles", RightsTypes,
         Access!Known \subseteq Access!Known', \A p \in Access!Known : bit'[p] = bit[p],
         \A r \in Access!Living : r \in Access!Living' /\ permitted[r] \subseteq permitted'[r]
  PROVE  \A row : Given(row) => Given(row)'
<1> SUFFICES ASSUME NEW row, Given(row) PROVE Given(row)'
  OBVIOUS
<1>1. row.role \in Access!Living' \cup {Nil}
  BY DEF Given
<1>2. Gives(row.role) \subseteq Access!Known
  BY DEF Given, Gives, RightsTypes, BitInv, Access!TypeOK, Access!Living
<1>3. PICK r : r = row.role
  OBVIOUS
<1>4. Gives(r) \subseteq Gives(r)'
  BY <1>3 DEF Given, Gives
<1>5. \A p \in Gives(r) : bit'[p] = bit[p]
  BY <1>2, <1>3
<1>6. Access!BitsOf(Gives(r)) \subseteq Access!BitsOf(Gives(r))'
  BY <1>4, <1>5 DEF Access!BitsOf
<1> QED
  BY <1>1, <1>3, <1>6 DEF Given

\* What every action is, of the profiles and the roles.
LEMMA GivenStep ==
  ASSUME Access!RoleConstants, clients \in Clients, clients.area = "roles", RightsTypes, Access!Next,
         Growing, GivenInv, UNCHANGED clients
  PROVE  GivenInv'
<1>1. /\ Access!Known \subseteq Access!Known' /\ \A p \in Access!Known : bit'[p] = bit[p]
      /\ Access!OneAtATime /\ \A u \in Threads : job[u].call # "merge"
  BY BitStep DEF Growing, GivenInv
<1>2. ASSUME NEW t \in Threads, NEW j, job' = [job EXCEPT ![t] = j],
             \A u \in Threads : u # t => job[u].call = "none",
             \A k \in Access!People' : Given(holder[k])',
             (j.call = "save" => Given(j.row))', j.call # "merge",
             (j.call = "delete" => \A k \in Access!People : holder[k].role # j.key)'
      PROVE  GivenInv'
  <2>1. \A u \in Threads : job'[u] = IF u = t THEN j ELSE job[u]
    BY <1>2 DEF RightsTypes, RightsJobs
  <2>2. ASSUME NEW u \in Threads
        PROVE  (/\ job[u].call = "save" => Given(job[u].row)
                /\ job[u].call # "merge"
                /\ job[u].call = "delete" => \A k \in Access!People : holder[k].role # job[u].key)'
    <3>1. CASE u = t
      <4>1. job'[u] = j
        BY <2>1, <3>1
      <4> QED
        BY <1>2, <4>1
    <3>2. CASE u # t
      <4>1. job'[u].call = "none"
        BY <1>2, <2>1, <3>2
      <4> QED
        BY <4>1
    <3> QED
      BY <3>1, <3>2
  <2> QED
    BY <1>2, <2>2 DEF GivenInv
<1>3. ASSUME UNCHANGED job, \A u \in Threads : job[u].call = "none",
             \A k \in Access!People' : Given(holder[k])'
      PROVE  GivenInv'
  BY <1>3 DEF GivenInv
<1>4. ASSUME UNCHANGED holder, \A r \in Access!Living : r \in Access!Living' /\ permitted[r] \subseteq permitted'[r]
      PROVE  \A k \in Access!People' : Given(holder[k])'
  <2>1. ASSUME NEW k \in Access!People' PROVE Given(holder[k])'
    <3>1. PICK row : row = holder[k] /\ row = holder'[k]
      BY <1>4
    <3>2. Given(row)
      BY <1>4, <2>1, <3>1 DEF Access!People, GivenInv
    <3> QED
      BY <1>1, <1>4, <3>1, <3>2, GivesMore
  <2> QED
    BY <2>1
<1>5. ASSUME NEW k \in Holders, NEW row, Given(row), holder' = [holder EXCEPT ![k] = row], UNCHANGED permitted
      PROVE  \A i \in Access!People' : Given(holder[i])'
  <2>1. ASSUME NEW i \in Access!People' PROVE Given(holder[i])'
    <3>1. PICK new : new = holder'[i]
      OBVIOUS
    <3>2. new = IF i = k THEN row ELSE holder[i]
      BY <1>5, <3>1 DEF Access!People, RightsTypes, Access!TypeOK
    <3>3. i # k => i \in Access!People
      BY <1>5 DEF Access!People
    <3>4. Given(new)
      BY <1>5, <3>2, <3>3 DEF GivenInv
    <3>5. \A r \in Access!Living : r \in Access!Living' /\ permitted[r] \subseteq permitted'[r]
      BY <1>5 DEF Access!Living
    <3> QED
      BY <1>1, <3>1, <3>4, <3>5, GivesMore
  <2> QED
    BY <2>1
<1>6. ASSUME UNCHANGED permitted
      PROVE  \A r \in Access!Living : r \in Access!Living' /\ permitted[r] \subseteq permitted'[r]
  BY <1>6 DEF Access!Living
<1>7. ASSUME NEW r \in RoleNames, NEW P \in SUBSET Access!Known, permitted' = [permitted EXCEPT ![r] = P],
             r \in Access!Living => permitted[r] \subseteq P
      PROVE  \A q \in Access!Living : q \in Access!Living' /\ permitted[q] \subseteq permitted'[q]
  <2>1. P # Nil
    BY RightsNulls DEF Access!Known
  <2> QED
    BY <1>7, <2>1 DEF Access!Living, RightsTypes, Access!TypeOK
<1>8. ASSUME NEW t \in Threads, NEW c, Access!Free(t, c), c # "none"
      PROVE  \A u \in Threads : job[u].call = "none"
  BY <1>1, <1>8, RightsAlone DEF Access!Free, Access!Idle
<1>9. ASSUME NEW t \in Threads, Access!Done(t), \A u \in Threads : u # t => job[u].call = "none",
             \A k \in Access!People' : Given(holder[k])'
      PROVE  GivenInv'
  <2>1. PICK j : j = Access!Idle
    OBVIOUS
  <2>2. job' = [job EXCEPT ![t] = j] /\ j.call = "none"
    BY <1>9, <2>1 DEF Access!Done, Access!Idle
  <2> QED
    BY <1>2, <1>9, <2>2
<1>10. ASSUME NEW t \in Threads, NEW c, NEW k, NEW row, Access!Take(t, c, k, row),
              \A u \in Threads : u # t => job[u].call = "none",
              \A i \in Access!People' : Given(holder[i])',
              c \in {"number", "read", "apply", "promote"}
       PROVE  GivenInv'
  <2>1. PICK j : j = [call |-> c, key |-> k, row |-> row]
    OBVIOUS
  <2>2. job' = [job EXCEPT ![t] = j] /\ j.call \in {"number", "read", "apply", "promote"}
    BY <1>10, <2>1 DEF Access!Take
  <2> QED
    BY <1>2, <1>10, <2>2
<1>11. ASSUME UNCHANGED <<holder, permitted>> PROVE \A k \in Access!People' : Given(holder[k])'
  BY <1>4, <1>6, <1>11
<1>12. ASSUME NEW t \in Threads, Access!Load(t) PROVE GivenInv'
  <2>1. PICK p : Access!Take(t, "number", p, [bit |-> Access!NextBit, next |-> Nil])
    BY <1>12 DEF Access!Load, Access!Number
  <2> QED
    BY <1>8, <1>10, <1>11, <1>12, <2>1 DEF Access!Load
<1>13. ASSUME NEW t \in Threads, Access!Insert(t) PROVE GivenInv'
  <2>1. \A u \in Threads : u # t => job[u].call = "none"
    BY <1>1, <1>13, RightsAlone DEF Access!Insert
  <2>2. Access!Done(t) \/ Access!Take(t, "read", Nil, job[t].row.next)
    BY <1>13 DEF Access!Insert
  <2>3. UNCHANGED <<holder, permitted>>
    BY <1>13 DEF Access!Insert
  <2> QED
    BY <1>9, <1>10, <1>11, <2>1, <2>2, <2>3
<1>14. ASSUME NEW t \in Threads, Access!Upload(t) PROVE GivenInv'
  <2>1. PICK f : Access!Take(t, "read", Nil, f)
    BY <1>14 DEF Access!Upload
  <2> QED
    BY <1>8, <1>10, <1>11, <1>14, <2>1 DEF Access!Upload
<1>15. ASSUME NEW t \in Threads, Access!ReadRow(t) PROVE GivenInv'
  <2>1. \A u \in Threads : u # t => job[u].call = "none"
    BY <1>1, <1>15, RightsAlone DEF Access!ReadRow
  <2>2. job[t].row \in clients.files /\ job[t].call = "read"
    BY <1>15 DEF Access!ReadRow, Access!At, RightsTypes, RightsJobs, RightsFits
  <2>3. RolesOf(job[t].row) \subseteq RoleNames
    BY <2>2, FilesName
  <2>4. \/ UNCHANGED permitted /\ \E c \in {"number", "apply"} : \E k, row : Access!Take(t, c, k, row)
        \/ UNCHANGED job /\ \E r \in RoleNames \ Access!Living : permitted' = [permitted EXCEPT ![r] = {}]
    BY <1>15, <2>3 DEF Access!ReadRow, Access!Number, RolesOf
  <2>5. UNCHANGED holder
    BY <1>15 DEF Access!ReadRow
  <2>6. CASE UNCHANGED permitted /\ \E c \in {"number", "apply"} : \E k, row : Access!Take(t, c, k, row)
    BY <1>10, <1>11, <2>1, <2>5, <2>6
  <2>7. ASSUME NEW r \in RoleNames \ Access!Living, permitted' = [permitted EXCEPT ![r] = {}], UNCHANGED job
        PROVE  GivenInv'
    <3>1. \A k \in Access!People' : Given(holder[k])'
      <4>1. {} \in SUBSET Access!Known
        OBVIOUS
      <4> QED
        BY <1>4, <1>7, <2>5, <2>7, <4>1
    <3>2. PICK j : j = job[t]
      OBVIOUS
    <3>3. job' = [job EXCEPT ![t] = j] /\ j.call = "read"
      BY <2>2, <2>7, <3>2 DEF RightsTypes, RightsJobs
    <3> QED
      BY <1>2, <2>1, <3>1, <3>3
  <2> QED
    BY <2>4, <2>6, <2>7
<1>16. ASSUME NEW t \in Threads, Access!ApplyRole(t) PROVE GivenInv'
  <2>1. \A u \in Threads : u # t => job[u].call = "none"
    BY <1>1, <1>16, RightsAlone DEF Access!ApplyRole
  <2>2. PICK f, keys : f = job[t].row /\ keys = job[t].key
    OBVIOUS
  <2>3. f \in clients.files /\ keys \subseteq RolesOf(f) /\ Named(f) \subseteq Access!Known
    BY <1>16, <2>2 DEF Access!ApplyRole, Access!At, RightsTypes, RightsJobs, RightsFits
  <2>4. \A r, v : /\ Access!Of(f, r, "override", v) = {} /\ Access!Of(f, r, "remove", v) = {}
                 /\ Access!Of(f, r, "merge", v) = {}
    BY <2>3 DEF Growing, Access!Of
  <2>5. \/ UNCHANGED permitted /\ Access!Done(t)
        \/ \E r \in keys :
             /\ r \in Access!Living /\ Access!Take(t, "apply", keys \ {r}, f)
             /\ permitted' = [permitted EXCEPT ![r] =
                  (permitted[r] \cup Access!Of(f, r, "add", TRUE)) \ Access!Of(f, r, "remove", TRUE)]
    BY <1>16, <2>2, <2>4 DEF Access!ApplyRole
  <2>6. UNCHANGED holder
    BY <1>16 DEF Access!ApplyRole
  <2>7. CASE UNCHANGED permitted /\ Access!Done(t)
    BY <1>9, <1>11, <2>1, <2>6, <2>7
  <2>8. ASSUME NEW r \in keys, NEW P, r \in Access!Living, Access!Take(t, "apply", keys \ {r}, f),
               P = (permitted[r] \cup Access!Of(f, r, "add", TRUE)) \ Access!Of(f, r, "remove", TRUE),
               permitted' = [permitted EXCEPT ![r] = P]
        PROVE  GivenInv'
    <3>1. permitted[r] \subseteq Access!Known /\ r \in RoleNames
      BY <2>8 DEF Access!Living, RightsTypes, Access!TypeOK
    <3>2. P \in SUBSET Access!Known /\ permitted[r] \subseteq P
      BY <2>3, <2>4, <2>8, <3>1, FilesName
    <3>3. \A k \in Access!People' : Given(holder[k])'
      BY <1>4, <1>7, <2>6, <2>8, <3>1, <3>2
    <3> QED
      BY <1>10, <2>1, <2>8, <3>3
  <2> QED
    BY <2>5, <2>7, <2>8
<1>17. ASSUME NEW t \in Threads, Access!CreateRole(t) PROVE GivenInv'
  <2>1. PICK r, P : r \in RoleNames \ Access!Living /\ permitted' = [permitted EXCEPT ![r] = P \cap Access!Known]
    BY <1>17 DEF Access!CreateRole
  <2>2. PICK Q : Q = P \cap Access!Known
    OBVIOUS
  <2>3. Q \in SUBSET Access!Known /\ permitted' = [permitted EXCEPT ![r] = Q]
    BY <2>1, <2>2
  <2>4. \A k \in Access!People' : Given(holder[k])'
    BY <1>4, <1>7, <1>17, <2>1, <2>3 DEF Access!CreateRole
  <2> QED
    BY <1>3, <1>8, <1>17, <2>4 DEF Access!CreateRole
<1>18. ASSUME NEW t \in Threads, Access!DeleteRole(t) PROVE GivenInv'
  <2>1. PICK r \in RoleNames : Access!Deletable(r) /\ Access!Take(t, "delete", r, Nil)
    BY <1>18 DEF Access!DeleteRole
  <2>2. PICK j : j = [call |-> "delete", key |-> r, row |-> Nil]
    OBVIOUS
  <2>3. /\ job' = [job EXCEPT ![t] = j] /\ j.call = "delete"
        /\ \A k \in Access!People : holder[k].role # j.key
    BY <2>1, <2>2 DEF Access!Take, Access!Deletable
  <2>4. UNCHANGED <<holder, permitted>>
    BY <1>18 DEF Access!DeleteRole
  <2>5. (\A k \in Access!People : holder[k].role # j.key)'
    BY <2>3, <2>4 DEF Access!People
  <2>6. \A u \in Threads : job[u].call = "none"
    BY <1>8, <1>18 DEF Access!DeleteRole
  <2>7. \A k \in Access!People' : Given(holder[k])'
    BY <1>11, <2>4
  <2> QED
    BY <1>2, <2>3, <2>5, <2>6, <2>7
<1>19. ASSUME NEW t \in Threads, Access!DeleteChecked(t) PROVE GivenInv'
  <2>1. PICK r : r = job[t].key
    OBVIOUS
  <2>2. /\ Access!Delete(r) /\ Access!Done(t)
        /\ \A k \in Access!People : holder[k].role # r
    BY <1>19, <2>1 DEF Access!DeleteChecked, Access!At, GivenInv
  <2>3. ASSUME NEW k \in Access!People' PROVE Given(holder[k])'
    <3>1. k \in Holders /\ holder'[k] = holder[k] /\ k \in Access!People
      BY <2>2, <2>3 DEF Access!Delete, Access!People
    <3>2. PICK row : row = holder[k] /\ row = holder'[k]
      BY <3>1
    <3>3. Given(row) /\ row.role # r
      BY <2>2, <3>1, <3>2 DEF GivenInv
    <3>4. row.role \in Access!Living' \cup {Nil} /\ Gives(row.role)' = Gives(row.role)
      BY <2>2, <3>3 DEF Access!Delete, Given, Access!Living, Gives, RightsTypes, Access!TypeOK
    <3>5. UNCHANGED bit
      BY <1>19 DEF Access!DeleteChecked
    <3>6. Given(row)'
      BY <3>3, <3>4, <3>5 DEF Given, Access!BitsOf
    <3> QED
      BY <3>2, <3>6
  <2>4. \A u \in Threads : u # t => job[u].call = "none"
    BY <1>1, <1>19, RightsAlone DEF Access!DeleteChecked
  <2> QED
    BY <1>9, <2>2, <2>3, <2>4
<1>20. ASSUME NEW t \in Threads, Access!Join(t) PROVE GivenInv'
  <2>1. PICK k \in Holders :
          /\ Access!Free(t, "join")
          /\ holder' = [holder EXCEPT ![k] = [role |-> Nil, bits |-> Access!BitsOf(DefaultPermissions)]]
    BY <1>20 DEF Access!Join, Access!Free, Growing
  <2>2. PICK row : row = [role |-> Nil, bits |-> Access!BitsOf(DefaultPermissions)]
    OBVIOUS
  <2>3. Given(row) /\ holder' = [holder EXCEPT ![k] = row]
    BY <2>1, <2>2 DEF Given, Gives
  <2>4. \A i \in Access!People' : Given(holder[i])'
    BY <1>5, <1>20, <2>3 DEF Access!Join
  <2> QED
    BY <1>3, <1>8, <1>20, <2>1, <2>4 DEF Access!Join
<1>21. ASSUME NEW t \in Threads, Access!EditProfile(t) PROVE GivenInv'
  <2>1. PICK k, row, c :
          /\ k \in Access!People
          /\ Access!Free(t, c) /\ c # "none" /\ Access!Take(t, "save", k, row)
          /\ \/ \E r \in Access!Living \cup {Nil} : row = [role |-> r, bits |-> Access!BitmapOf(r)]
             \/ row = holder[k]
    BY <1>21 DEF Access!EditProfile, Access!Free, Access!WithRole, Growing
  <2>2. Given(row)
    <3>1. ASSUME NEW r \in Access!Living \cup {Nil}, row = [role |-> r, bits |-> Access!BitmapOf(r)]
          PROVE  Given(row)
      BY <3>1 DEF Given, Gives, Access!BitmapOf
    <3> QED
      BY <2>1, <3>1 DEF GivenInv
  <2>3. PICK j : j = [call |-> "save", key |-> k, row |-> row]
    OBVIOUS
  <2>4. job' = [job EXCEPT ![t] = j] /\ j.call = "save" /\ Given(j.row)
    BY <2>1, <2>2, <2>3 DEF Access!Take
  <2>5. UNCHANGED <<holder, permitted>>
    BY <1>21 DEF Access!EditProfile
  <2>6. Given(j.row)'
    BY <1>1, <1>6, <2>4, <2>5, GivesMore
  <2>7. \A u \in Threads : job[u].call = "none"
    BY <1>8, <2>1
  <2>8. \A i \in Access!People' : Given(holder[i])'
    BY <1>11, <2>5
  <2> QED
    BY <1>2, <2>4, <2>6, <2>7, <2>8
<1>22. ASSUME NEW t \in Threads, Access!Save(t) PROVE GivenInv'
  <2>1. \A u \in Threads : u # t => job[u].call = "none"
    BY <1>1, <1>22, RightsAlone DEF Access!Save
  <2>2. job[t].key \in Holders /\ Given(job[t].row)
    BY <1>22 DEF Access!Save, Access!At, RightsTypes, RightsJobs, RightsFits, GivenInv
  <2>3. UNCHANGED holder \/ holder' = [holder EXCEPT ![job[t].key] = job[t].row]
    BY <1>22 DEF Access!Save
  <2>4. UNCHANGED permitted /\ Access!Done(t)
    BY <1>22 DEF Access!Save
  <2>5. \A i \in Access!People' : Given(holder[i])'
    BY <1>5, <1>11, <2>2, <2>3, <2>4
  <2> QED
    BY <1>9, <2>1, <2>4, <2>5
<1>23. ASSUME NEW t \in Threads, Access!Promote(t) PROVE GivenInv'
  <2>1. \A u \in Threads : u # t => job[u].call = "none"
    BY <1>1, <1>23, RightsAlone DEF Access!Promote
  <2>2. job[t].key \in Holders
    BY <1>23 DEF Access!Promote, Access!At, RightsTypes, RightsJobs, RightsFits
  <2>3. PICK row : row = [role |-> SuperAdmin, bits |-> Access!BitmapOf(SuperAdmin)]
    OBVIOUS
  <2>4. SuperAdmin \in Access!Living => Given(row)
    BY <2>3, RightsNulls DEF Given, Gives, Access!BitmapOf
  <2>5. \/ UNCHANGED holder
        \/ Given(row) /\ holder' = [holder EXCEPT ![job[t].key] = row]
    BY <1>23, <2>3, <2>4 DEF Access!Promote, Access!WithRole
  <2>6. UNCHANGED permitted /\ Access!Done(t)
    BY <1>23 DEF Access!Promote
  <2>7. \A i \in Access!People' : Given(holder[i])'
    BY <1>5, <1>11, <2>2, <2>5, <2>6
  <2> QED
    BY <1>9, <2>1, <2>6, <2>7
<1>24. ASSUME NEW t \in Threads, Access!SetUp(t) PROVE GivenInv'
  <2>1. PICK k : Access!Take(t, "promote", k, Nil)
    BY <1>24 DEF Access!SetUp
  <2>2. permitted' = [permitted EXCEPT ![SuperAdmin] = Access!Known] /\ UNCHANGED holder
    BY <1>24 DEF Access!SetUp
  <2>3. SuperAdmin \in RoleNames /\ Access!Known \in SUBSET Access!Known
    BY RightsNulls
  <2>4. SuperAdmin \in Access!Living => permitted[SuperAdmin] \subseteq Access!Known
    BY DEF Access!Living, RightsTypes, Access!TypeOK
  <2>5. \A i \in Access!People' : Given(holder[i])'
    BY <1>4, <1>7, <2>2, <2>3, <2>4
  <2> QED
    BY <1>8, <1>10, <1>24, <2>1, <2>5 DEF Access!SetUp
<1>25. ASSUME NEW t \in Threads, Access!Crash(t) PROVE GivenInv'
  <2>1. t \in clients.threads
    BY <1>25 DEF Access!Crash, RightsTypes, RightsJobs, RightsFits
  <2>2. \A u \in Threads : u # t => job[u].call = "none"
    BY <1>1, <2>1 DEF RightsTypes, RightsJobs, Access!OneAtATime
  <2> QED
    BY <1>9, <1>11, <1>25, <2>2 DEF Access!Crash
<1>26. \A t \in Threads : ~Access!Merge(t) /\ ~Access!UpdateRole(t) /\ ~Access!AdminDelete(t)
  BY <1>1 DEF Access!Merge, Access!At, Access!UpdateRole, Access!AdminDelete, Access!Free, Growing
<1> QED
  BY <1>12, <1>13, <1>14, <1>15, <1>16, <1>17, <1>18, <1>19, <1>20, <1>21, <1>22, <1>23, <1>24, <1>25,
     <1>26 DEF Access!Next

-----------------------------------------------------------------------------
(* One call at a time, a file of which the roles that remain are the key   *)
(* has decided the others; and a role that is read for a merge is still    *)
(* what was read.                                                          *)

Decided(f, r, P) ==
  IF Access!Of(f, r, "override", TRUE) # {} THEN P = Access!Of(f, r, "override", TRUE)
  ELSE /\ Access!Of(f, r, "merge", TRUE) \ Access!Of(f, r, "merge", FALSE) \subseteq P
       /\ P \cap Access!Of(f, r, "merge", FALSE) = {}
       /\ P \cap Access!Of(f, r, "remove", TRUE) \subseteq Access!Of(f, r, "merge", TRUE)
       /\ Access!Of(f, r, "add", TRUE) \ P
            \subseteq Access!Of(f, r, "remove", TRUE) \cup Access!Of(f, r, "merge", FALSE)

\* What is left to do before a role that was read is merged.
Halfway(f, r, P) ==
  /\ Access!Of(f, r, "override", TRUE) = {} /\ permitted[r] = P
  /\ Access!Of(f, r, "add", TRUE) \ P \subseteq Access!Of(f, r, "remove", TRUE)
  /\ P \cap Access!Of(f, r, "remove", TRUE) = {}

FileFits(j) ==
  /\ j.call = "apply" => \A r \in RolesOf(j.row) \ j.key : Decided(j.row, r, permitted[r])
  /\ j.call = "merge" =>
       /\ Halfway(j.row.file, j.row.role, j.row.current)
       /\ \A r \in RolesOf(j.row.file) \ (j.key \cup {j.row.role}) : Decided(j.row.file, r, permitted[r])

FileInv == \A t \in Threads : FileFits(job[t])

\* A call that is made alone leaves the others idle.
RightsActs(t) ==
  \/ Access!Load(t) \/ Access!Insert(t) \/ Access!Upload(t) \/ Access!ReadRow(t)
  \/ Access!ApplyRole(t) \/ Access!Merge(t) \/ Access!CreateRole(t) \/ Access!UpdateRole(t)
  \/ Access!DeleteRole(t) \/ Access!DeleteChecked(t) \/ Access!AdminDelete(t) \/ Access!Join(t)
  \/ Access!EditProfile(t) \/ Access!Save(t) \/ Access!SetUp(t) \/ Access!Promote(t) \/ Access!Crash(t)

LEMMA RightsActAlone ==
  ASSUME RightsTypes, Access!OneAtATime, NEW t \in Threads, RightsActs(t)
  PROVE  \A u \in Threads : u # t => job[u].call = "none"
<1>1. CASE Access!Crash(t)
  <2>1. t \in clients.threads
    BY <1>1 DEF Access!Crash, RightsTypes, RightsJobs, RightsFits
  <2> QED
    BY <2>1 DEF RightsTypes, RightsJobs, Access!OneAtATime
<1>2. CASE ~Access!Crash(t)
  <2>1. \E c : c # "none" /\ (Access!At(t, c) \/ Access!Free(t, c))
    BY <1>2 DEF RightsActs, Access!Load, Access!Insert, Access!Upload, Access!ReadRow, Access!ApplyRole,
       Access!Merge, Access!CreateRole, Access!UpdateRole, Access!DeleteRole, Access!DeleteChecked,
       Access!AdminDelete, Access!Join, Access!EditProfile, Access!Save, Access!SetUp, Access!Promote
  <2> QED
    BY <2>1, RightsAlone
<1> QED
  BY <1>1, <1>2

\* What a role is given by the rows of each kind.
LEMMA MergeDecides ==
  ASSUME NEW f, NEW r, NEW P, Halfway(f, r, P)
  PROVE  Decided(f, r, Access!Merged(f, r, P))
BY DEF Halfway, Decided, Access!Merged

LEMMA FileStep ==
  ASSUME Access!RoleConstants, clients \in Clients, clients.area = "roles", RightsTypes, Access!Next,
         Access!OneAtATime, FileInv
  PROVE  FileInv'
<1>1. PICK t \in Threads : RightsActs(t)
  BY DEF Access!Next, RightsActs
<1>2. \A u \in Threads : u # t => job[u].call = "none"
  BY <1>1, RightsActAlone
<1>3. ASSUME NEW j, job' = [job EXCEPT ![t] = j], FileFits(j)' PROVE FileInv'
  <2>1. ASSUME NEW u \in Threads PROVE FileFits(job[u])'
    <3>1. PICK i : i = job'[u]
      OBVIOUS
    <3>2. i = IF u = t THEN j ELSE job[u]
      BY <1>3, <3>1 DEF RightsTypes, RightsJobs
    <3>3. i = j \/ i.call = "none"
      BY <1>2, <3>2
    <3>4. FileFits(i)'
      BY <1>3, <3>3 DEF FileFits
    <3> QED
      BY <3>1, <3>4
  <2> QED
    BY <2>1 DEF FileInv
<1>4. ASSUME NEW j, job' = [job EXCEPT ![t] = j], j.call \notin {"apply", "merge"} PROVE FileInv'
  BY <1>3, <1>4 DEF FileFits
<1>5. ASSUME UNCHANGED job, job[t].call \notin {"apply", "merge"} PROVE FileInv'
  BY <1>2, <1>5 DEF FileInv, FileFits
<1>6. Access!Done(t) => FileInv'
  <2>1. PICK j : j = Access!Idle
    OBVIOUS
  <2>2. j.call = "none"
    BY <2>1 DEF Access!Idle
  <2> QED
    BY <1>4, <2>1, <2>2 DEF Access!Done
<1>7. ASSUME NEW c, NEW k, NEW row, Access!Take(t, c, k, row), c \notin {"apply", "merge"} PROVE FileInv'
  <2>1. PICK j : j = [call |-> c, key |-> k, row |-> row]
    OBVIOUS
  <2>2. job' = [job EXCEPT ![t] = j] /\ j.call = c
    BY <1>7, <2>1 DEF Access!Take
  <2> QED
    BY <1>4, <1>7, <2>2
<1>8. ASSUME NEW f, NEW K, Access!Take(t, "apply", K, f),
             \A r \in RolesOf(f) \ K : Decided(f, r, permitted'[r])
      PROVE  FileInv'
  <2>1. PICK j : j = [call |-> "apply", key |-> K, row |-> f]
    OBVIOUS
  <2>2. job' = [job EXCEPT ![t] = j]
    BY <1>8, <2>1 DEF Access!Take
  <2>3. FileFits(j)'
    BY <1>8, <2>1 DEF FileFits
  <2> QED
    BY <1>3, <2>2, <2>3
<1>9. CASE Access!ReadRow(t)
  <2>1. job[t].call = "read"
    BY <1>9 DEF Access!ReadRow, Access!At
  <2>2. \/ \E p : Access!Take(t, "number", p, [bit |-> Access!NextBit, next |-> job[t].row])
        \/ UNCHANGED job
        \/ Access!Take(t, "apply", RolesOf(job[t].row), job[t].row)
    BY <1>9 DEF Access!ReadRow, Access!Number, RolesOf
  <2>3. Access!Take(t, "apply", RolesOf(job[t].row), job[t].row) => FileInv'
    BY <1>8
  <2> QED
    BY <1>5, <1>7, <2>1, <2>2, <2>3
<1>10. CASE Access!ApplyRole(t)
  <2>1. PICK f, K : f = job[t].row /\ K = job[t].key
    OBVIOUS
  <2>2. job[t].call = "apply" /\ f \in clients.files /\ K \subseteq RolesOf(f)
    BY <1>10, <2>1 DEF Access!ApplyRole, Access!At, RightsTypes, RightsJobs, RightsFits
  <2>3. RolesOf(f) \subseteq RoleNames /\ permitted \in [RoleNames -> {Nil} \cup SUBSET Access!Known]
    BY <2>2, FilesName DEF RightsTypes, Access!TypeOK
  <2>4. \A r \in RolesOf(f) \ K : Decided(f, r, permitted[r])
    BY <2>1, <2>2 DEF FileInv, FileFits
  <2>5. ASSUME NEW r \in K, NEW Q, permitted' = [permitted EXCEPT ![r] = Q]
        PROVE  permitted'[r] = Q /\ \A q \in RolesOf(f) \ K : Decided(f, q, permitted'[q])
    BY <2>2, <2>3, <2>4, <2>5
  <2>6. \/ Access!Done(t)
        \/ \E r, Q :
             /\ r \in K
             /\ Q = Access!Of(f, r, "override", TRUE) /\ Q # {}
             /\ permitted' = [permitted EXCEPT ![r] = Q]
             /\ Access!Take(t, "apply", K \ {r}, f)
        \/ \E r, Q :
             /\ r \in K
             /\ Access!Of(f, r, "override", TRUE) = {}
             /\ Q = (permitted[r] \cup Access!Of(f, r, "add", TRUE)) \ Access!Of(f, r, "remove", TRUE)
             /\ permitted' = [permitted EXCEPT ![r] = Q]
             /\ \/ /\ Access!Of(f, r, "merge", TRUE) \cup Access!Of(f, r, "merge", FALSE) = {}
                   /\ Access!Take(t, "apply", K \ {r}, f)
                \/ Access!Take(t, "merge", K \ {r}, [file |-> f, role |-> r, current |-> Q])
    BY <1>10, <2>1 DEF Access!ApplyRole
  <2>7. ASSUME NEW r \in K, NEW Q, Decided(f, r, Q), permitted' = [permitted EXCEPT ![r] = Q],
               Access!Take(t, "apply", K \ {r}, f)
        PROVE  FileInv'
    <3>1. \A q \in RolesOf(f) \ (K \ {r}) : Decided(f, q, permitted'[q])
      BY <2>5, <2>7
    <3> QED
      BY <1>8, <2>7, <3>1
  <2>8. ASSUME NEW r \in K, NEW Q, Access!Of(f, r, "override", TRUE) = {},
               Access!Of(f, r, "add", TRUE) \ Q \subseteq Access!Of(f, r, "remove", TRUE),
               Q \cap Access!Of(f, r, "remove", TRUE) = {},
               permitted' = [permitted EXCEPT ![r] = Q],
               Access!Take(t, "merge", K \ {r}, [file |-> f, role |-> r, current |-> Q])
        PROVE  FileInv'
    <3>1. PICK row : row = [file |-> f, role |-> r, current |-> Q]
      OBVIOUS
    <3>2. PICK j : j = [call |-> "merge", key |-> K \ {r}, row |-> row]
      OBVIOUS
    <3>3. job' = [job EXCEPT ![t] = j]
      BY <2>8, <3>1, <3>2 DEF Access!Take
    <3>4. Halfway(f, r, Q)'
      BY <2>5, <2>8 DEF Halfway
    <3>5. \A q \in RolesOf(f) \ ((K \ {r}) \cup {r}) : Decided(f, q, permitted'[q])
      BY <2>5, <2>8
    <3>6. FileFits(j)'
      BY <3>1, <3>2, <3>4, <3>5 DEF FileFits
    <3> QED
      BY <1>3, <3>3, <3>6
  <2>9. ASSUME NEW r \in K, NEW Q, Access!Of(f, r, "override", TRUE) = {},
               Q = (permitted[r] \cup Access!Of(f, r, "add", TRUE)) \ Access!Of(f, r, "remove", TRUE)
        PROVE  /\ Access!Of(f, r, "add", TRUE) \ Q \subseteq Access!Of(f, r, "remove", TRUE)
               /\ Q \cap Access!Of(f, r, "remove", TRUE) = {}
               /\ Access!Of(f, r, "merge", TRUE) \cup Access!Of(f, r, "merge", FALSE) = {}
                    => Decided(f, r, Q)
    <3>1. /\ Access!Of(f, r, "add", TRUE) \ Q \subseteq Access!Of(f, r, "remove", TRUE)
          /\ Q \cap Access!Of(f, r, "remove", TRUE) = {}
      BY <2>9
    <3> QED
      BY <2>9, <3>1 DEF Decided
  <2>10. ASSUME NEW r \in K, NEW Q, Q = Access!Of(f, r, "override", TRUE), Q # {},
                permitted' = [permitted EXCEPT ![r] = Q], Access!Take(t, "apply", K \ {r}, f)
         PROVE  FileInv'
    <3>1. Decided(f, r, Q)
      BY <2>10 DEF Decided
    <3> QED
      BY <2>7, <2>10, <3>1
  <2>11. ASSUME NEW r \in K, NEW Q, Access!Of(f, r, "override", TRUE) = {},
                Q = (permitted[r] \cup Access!Of(f, r, "add", TRUE)) \ Access!Of(f, r, "remove", TRUE),
                permitted' = [permitted EXCEPT ![r] = Q],
                \/ /\ Access!Of(f, r, "merge", TRUE) \cup Access!Of(f, r, "merge", FALSE) = {}
                   /\ Access!Take(t, "apply", K \ {r}, f)
                \/ Access!Take(t, "merge", K \ {r}, [file |-> f, role |-> r, current |-> Q])
         PROVE  FileInv'
    <3>1. CASE /\ Access!Of(f, r, "merge", TRUE) \cup Access!Of(f, r, "merge", FALSE) = {}
               /\ Access!Take(t, "apply", K \ {r}, f)
      <4>1. Decided(f, r, Q)
        BY <2>9, <2>11, <3>1
      <4> QED
        BY <2>7, <2>11, <3>1, <4>1
    <3>2. CASE Access!Take(t, "merge", K \ {r}, [file |-> f, role |-> r, current |-> Q])
      <4>1. /\ Access!Of(f, r, "add", TRUE) \ Q \subseteq Access!Of(f, r, "remove", TRUE)
            /\ Q \cap Access!Of(f, r, "remove", TRUE) = {}
        BY <2>9, <2>11
      <4> QED
        BY <2>8, <2>11, <3>2, <4>1
    <3> QED
      BY <2>11, <3>1, <3>2
  <2> QED
    BY <1>6, <2>6, <2>10, <2>11
<1>11. CASE Access!Merge(t)
  <2>1. PICK f, r, P, K : f = job[t].row.file /\ r = job[t].row.role /\ P = job[t].row.current /\ K = job[t].key
    OBVIOUS
  <2>2. job[t].call = "merge" /\ f \in clients.files /\ r \in RolesOf(f)
    BY <1>11, <2>1 DEF Access!Merge, Access!At, RightsTypes, RightsJobs, RightsFits
  <2>3. RolesOf(f) \subseteq RoleNames /\ permitted \in [RoleNames -> {Nil} \cup SUBSET Access!Known]
    BY <2>2, FilesName DEF RightsTypes, Access!TypeOK
  <2>4. Halfway(f, r, P) /\ \A q \in RolesOf(f) \ (K \cup {r}) : Decided(f, q, permitted[q])
    BY <2>1, <2>2 DEF FileInv, FileFits
  <2>5. PICK Q : Q = Access!Merged(f, r, P)
    OBVIOUS
  <2>6. \/ Access!Done(t)
        \/ permitted' = [permitted EXCEPT ![r] = Q] /\ Access!Take(t, "apply", K, f)
    BY <1>11, <2>1, <2>5 DEF Access!Merge
  <2>7. Decided(f, r, Q)
    BY <2>4, <2>5, MergeDecides
  <2>8. permitted' = [permitted EXCEPT ![r] = Q] =>
          \A q \in RolesOf(f) \ K : Decided(f, q, permitted'[q])
    BY <2>2, <2>3, <2>4, <2>7
  <2> QED
    BY <1>6, <1>8, <2>6, <2>8
<1>12. CASE \/ Access!CreateRole(t) \/ Access!UpdateRole(t) \/ Access!AdminDelete(t) \/ Access!Join(t)
  <2>1. UNCHANGED job /\ job[t].call = "none"
    BY <1>12 DEF Access!CreateRole, Access!UpdateRole, Access!AdminDelete, Access!Join, Access!Free,
       Access!Idle
  <2> QED
    BY <1>5, <2>1
<1>13. CASE \/ Access!Load(t) \/ Access!Upload(t) \/ Access!DeleteRole(t) \/ Access!EditProfile(t)
            \/ Access!SetUp(t)
  <2>1. \E c \in {"number", "read", "delete", "save", "promote"} : \E k, row : Access!Take(t, c, k, row)
    BY <1>13 DEF Access!Load, Access!Number, Access!Upload, Access!DeleteRole, Access!EditProfile,
       Access!SetUp
  <2> QED
    BY <1>7, <2>1
<1>14. CASE Access!Insert(t)
  <2>1. Access!Done(t) \/ Access!Take(t, "read", Nil, job[t].row.next)
    BY <1>14 DEF Access!Insert
  <2> QED
    BY <1>6, <1>7, <2>1
<1>15. CASE Access!DeleteChecked(t) \/ Access!Save(t) \/ Access!Promote(t) \/ Access!Crash(t)
  BY <1>6, <1>15 DEF Access!DeleteChecked, Access!Save, Access!Promote, Access!Crash
<1> QED
  BY <1>1, <1>9, <1>10, <1>11, <1>12, <1>13, <1>14, <1>15 DEF RightsActs

\* A step that is made when a file is being applied alone.
LEMMA LosesNamed ==
  ASSUME Access!RoleConstants, clients \in Clients, clients.area = "roles", RightsTypes, Access!Next,
         Access!OneAtATime, FileInv, NEW t \in Threads, NEW r \in Access!Living,
         Access!At(t, "merge") \/ Access!At(t, "apply"),
         NEW f, f = IF Access!At(t, "merge") THEN job[t].row.file ELSE job[t].row,
         permitted'[r] # Nil
  PROVE  permitted[r] \ permitted'[r] \subseteq Named(f) \/ Access!Of(f, r, "override", TRUE) # {}
<1>1. PICK u \in Threads : RightsActs(u)
  BY DEF Access!Next, RightsActs
<1>2. u = t
  BY <1>1, RightsActAlone DEF Access!At
<1>3. f \in clients.files /\ r \in RoleNames
  BY DEF RightsTypes, RightsJobs, RightsFits, Access!At, Access!Living
<1>4. \A q, o, v : Access!Of(f, q, o, v) \subseteq Named(f)
  BY <1>3, FilesName
<1>5. permitted \in [RoleNames -> {Nil} \cup SUBSET Access!Known]
  BY DEF RightsTypes, Access!TypeOK
<1>6. CASE UNCHANGED permitted
  BY <1>6
<1>7. CASE Access!ApplyRole(t)
  <2>1. Access!At(t, "apply") /\ f = job[t].row
    BY <1>7 DEF Access!ApplyRole, Access!At
  <2>2. \/ UNCHANGED permitted
        \/ \E q, Q :
             /\ permitted' = [permitted EXCEPT ![q] = Q]
             /\ \/ Access!Of(f, q, "override", TRUE) # {}
                \/ Q = (permitted[q] \cup Access!Of(f, q, "add", TRUE)) \ Access!Of(f, q, "remove", TRUE)
    BY <1>7, <2>1 DEF Access!ApplyRole
  <2>3. ASSUME NEW q, NEW Q, permitted' = [permitted EXCEPT ![q] = Q],
               \/ Access!Of(f, q, "override", TRUE) # {}
               \/ Q = (permitted[q] \cup Access!Of(f, q, "add", TRUE)) \ Access!Of(f, q, "remove", TRUE)
        PROVE  permitted[r] \ permitted'[r] \subseteq Named(f) \/ Access!Of(f, r, "override", TRUE) # {}
    <3>1. permitted'[r] = IF r = q THEN Q ELSE permitted[r]
      BY <1>3, <1>5, <2>3
    <3> QED
      BY <1>4, <2>3, <3>1, ZenonT(30)
  <2> QED
    BY <1>6, <2>2, <2>3
<1>8. CASE Access!Merge(t)
  <2>1. PICK q, P : q = job[t].row.role /\ P = job[t].row.current
    OBVIOUS
  <2>2. Access!At(t, "merge") /\ f = job[t].row.file
    BY <1>8 DEF Access!Merge
  <2>3. permitted[q] = P
    BY <2>1, <2>2 DEF Access!At, FileInv, FileFits, Halfway
  <2>4. UNCHANGED permitted \/ permitted' = [permitted EXCEPT ![q] = Access!Merged(f, q, P)]
    BY <1>8, <2>1, <2>2 DEF Access!Merge
  <2>5. P \ Access!Merged(f, q, P) \subseteq Named(f)
    BY <1>4 DEF Access!Merged
  <2>6. permitted' = [permitted EXCEPT ![q] = Access!Merged(f, q, P)] =>
          permitted'[r] = IF r = q THEN Access!Merged(f, q, P) ELSE permitted[r]
    BY <1>3, <1>5
  <2> QED
    BY <1>6, <2>3, <2>4, <2>5, <2>6
<1>9. Access!ApplyRole(t) \/ Access!Merge(t) \/ Access!Crash(t)
  BY <1>1, <1>2 DEF RightsActs, Access!Load, Access!Insert, Access!Upload, Access!ReadRow,
     Access!CreateRole, Access!UpdateRole, Access!DeleteRole, Access!DeleteChecked,
     Access!AdminDelete, Access!Join, Access!EditProfile, Access!Save, Access!SetUp, Access!Promote,
     Access!At, Access!Free, Access!Idle
<1> QED
  BY <1>6, <1>7, <1>8, <1>9 DEF Access!Crash

-----------------------------------------------------------------------------
(* All of it.                                                              *)

RightsInv ==
  /\ RightsTypes
  /\ "bitmap" \notin clients.calls => DrawnInv
  /\ Growing => GivenInv
  /\ Access!OneAtATime => FileInv

LEMMA RightsInit ==
  ASSUME Access!RoleConstants, clients \in Clients, clients.area = "roles", Access!Begin, Access!Start
  PROVE  RightsInv
<1>1. bit \in [PermissionNames -> Access!Bits \cup {Nil}] /\ Access!Known = DefaultPermissions
  BY RightsNulls DEF Access!Start, Access!Known
<1>2. Access!BitsOf(Access!Known) = 1..NumberOfKnown
  BY <1>1, SameCounting DEF Access!Start, Access!BitsOf, NumberOfKnown
<1>3. \A p, q \in Access!Known : bit[p] = bit[q] => p = q
  <2>1. PICK D, n, f : D = Access!Known /\ n = NumberOfKnown /\ f = [p \in D |-> bit[p]]
    OBVIOUS
  <2>2. IsFiniteSet(D) /\ n \in Nat /\ Cardinality(D) = n
    BY <2>1, CountKnown DEF NumberOfKnown
  <2>3. 1..n = {bit[p] : p \in D}
    BY <1>2, <2>1 DEF Access!BitsOf
  <2>4. f \in Surjection(D, 1..n)
    BY <2>1, <2>3 DEF Surjection
  <2>5. IsFiniteSet(1..n) /\ Cardinality(1..n) = n
    BY <2>2, FS_Interval
  <2>6. f \in Injection(D, 1..n)
    BY <2>2, <2>4, <2>5, FS_SurjSameCardinalityImpliesInj
  <2> QED
    BY <2>1, <2>6 DEF Injection, IsInjective
<1>4. BitInv
  BY <1>1, <1>2, <1>3 DEF BitInv
<1>5. Access!TypeOK /\ Access!People = {}
  BY <1>1 DEF Access!Start, Access!TypeOK, Access!People
<1>6. job = [t \in Threads |-> Access!Idle] /\ Access!Idle.call = "none"
  BY DEF Access!Begin, Access!Idle
<1>7. RightsTypes
  BY <1>4, <1>5, <1>6 DEF RightsTypes, RightsJobs, RightsFits
<1>8. DrawnInv /\ GivenInv /\ FileInv
  BY <1>5, <1>6 DEF DrawnInv, GivenInv, FileInv, FileFits
<1> QED
  BY <1>7, <1>8 DEF RightsInv

LEMMA RightsInvStep ==
  ASSUME Access!RoleConstants, clients \in Clients, clients.area = "roles", RightsInv,
         [Access!Next]_Access!vars, UNCHANGED clients
  PROVE  RightsInv'
<1>1. CASE Access!Next
  <2>1. RightsTypes'
    BY <1>1, RightsTypesStep DEF RightsInv
  <2>2. ("bitmap" \notin clients.calls => DrawnInv)'
    BY <1>1, DrawnStep DEF RightsInv
  <2>3. Growing' => Growing
    BY DEF Growing, Access!OneAtATime
  <2>4. Growing => GivenInv'
    BY <1>1, GivenStep DEF RightsInv
  <2>5. Access!OneAtATime' => Access!OneAtATime
    BY DEF Access!OneAtATime
  <2>6. Access!OneAtATime => FileInv'
    BY <1>1, FileStep DEF RightsInv
  <2> QED
    BY <2>1, <2>2, <2>3, <2>4, <2>5, <2>6 DEF RightsInv
<1>2. CASE UNCHANGED Access!vars
  <2>1. UNCHANGED <<bit, permitted, holder, job, clients>>
    BY <1>2 DEF Access!vars
  <2>2. /\ Access!Known' = Access!Known /\ Access!Living' = Access!Living /\ Access!People' = Access!People
        /\ NumberOfKnown' = NumberOfKnown
    BY <2>1 DEF Access!Known, Access!Living, Access!People, NumberOfKnown
  <2>3. RightsTypes'
    <3>1. BitInv'
      BY <2>1, <2>2 DEF RightsInv, RightsTypes, BitInv, Access!BitsOf
    <3>2. Access!TypeOK'
      BY <2>1, <2>2 DEF RightsInv, RightsTypes, Access!TypeOK
    <3>3. \A j : RightsFits(j) => RightsFits(j)'
      BY <2>1, <2>2 DEF RightsFits
    <3>4. RightsJobs'
      <4>1. PICK jobs0 : jobs0 = job /\ jobs0 = job'
        BY <2>1
      <4>2. /\ jobs0 = [t \in Threads |-> jobs0[t]]
            /\ \A t \in Threads : RightsFits(jobs0[t]) /\ (jobs0[t].call # "none" => t \in clients.threads)
        BY <4>1 DEF RightsInv, RightsTypes, RightsJobs
      <4>3. \A t \in Threads : RightsFits(jobs0[t])'
        BY <3>3, <4>2
      <4> QED
        BY <4>1, <4>2, <4>3 DEF RightsJobs
    <3> QED
      BY <3>1, <3>2, <3>4 DEF RightsTypes
  <2>4. DrawnInv => DrawnInv'
    BY <2>1, <2>2 DEF DrawnInv, Drawn, Access!BitsOf
  <2>5. GivenInv => GivenInv'
    <3>1. \A row : Given(row) => Given(row)'
      BY <2>1, <2>2 DEF Given, Gives, Access!BitsOf
    <3> QED
      BY <2>1, <2>2, <3>1 DEF GivenInv
  <2>6. FileInv => FileInv'
    BY <2>1 DEF FileInv, FileFits, Halfway
  <2>7. Growing' => Growing
    BY <2>1 DEF Growing, Access!OneAtATime
  <2>8. Access!OneAtATime' => Access!OneAtATime
    BY <2>1 DEF Access!OneAtATime
  <2> QED
    BY <2>1, <2>3, <2>4, <2>5, <2>6, <2>7, <2>8 DEF RightsInv
<1> QED
  BY <1>1, <1>2

\* A known permission that is not among some known ones has none of their bits.
LEMMA BitIsIts ==
  ASSUME BitInv, NEW P \in SUBSET Access!Known, NEW p \in Access!Known
  PROVE  bit[p] \in Access!BitsOf(P) => p \in P
BY DEF BitInv, Access!BitsOf

LEMMA RightsKept ==
  ASSUME Access!RoleConstants, clients \in Clients, clients.area = "roles", RightsInv
  PROVE  /\ Access!TypeOK
         /\ Access!BitmapTellsRights
         /\ Access!RightsFollowRole
         /\ Access!FileDecides
<1>1. BitInv /\ Access!TypeOK
  BY DEF RightsInv, RightsTypes
<1>2. ASSUME NEW k \in Access!People
      PROVE  /\ k \in Holders /\ holder[k].role \in Access!Living \cup {Nil}
             /\ holder[k].role # Nil => permitted[holder[k].role] \in SUBSET Access!Known
  BY <1>1, <1>2 DEF Access!TypeOK, Access!People, Access!Living
<1>3. Access!BitmapTellsRights
  <2> SUFFICES ASSUME NEW k \in Access!People
               PROVE  /\ \A p \in Access!Known : bit[p] \in Access!Computed(k) <=> Access!HasPermission(k, p)
                      /\ "bitmap" \notin clients.calls =>
                           Access!Computed(k) = Access!BitsOf(Access!Told(k))
    BY DEF Access!BitmapTellsRights
  <2>1. PICK r, B, P : r = holder[k].role /\ B = holder[k].bits /\ P = IF r = Nil THEN {} ELSE permitted[r]
    OBVIOUS
  <2>2. P \in SUBSET Access!Known
    BY <1>2, <2>1
  <2>3. Access!Computed(k) = B \cup Access!BitsOf(P)
    BY <2>1 DEF Access!Computed, Access!BitmapOf, Access!BitsOf
  <2>4. \A p : Access!HasPermission(k, p) <=> p \in P \/ bit[p] \in B
    BY <2>1 DEF Access!HasPermission
  <2>5. \A p \in Access!Known : bit[p] \in Access!BitsOf(P) <=> p \in P
    <3>1. \A p \in P : bit[p] \in Access!BitsOf(P)
      BY DEF Access!BitsOf
    <3> QED
      BY <1>1, <2>2, <3>1, BitIsIts
  <2>6. \A p \in Access!Known : bit[p] \in Access!Computed(k) <=> Access!HasPermission(k, p)
    BY <2>3, <2>4, <2>5
  <2>7. ASSUME "bitmap" \notin clients.calls
        PROVE  Access!Computed(k) = Access!BitsOf(Access!Told(k))
    <3>1. Access!Told(k) = {p \in Access!Known : bit[p] \in Access!Computed(k)}
      BY <2>6 DEF Access!Told
    <3>2. B \subseteq Access!BitsOf(Access!Known)
      BY <2>1, <2>7 DEF RightsInv, DrawnInv, Drawn
    <3>3. Access!Computed(k) \subseteq Access!BitsOf(Access!Known)
      BY <1>1, <2>2, <2>3, <3>2, BitsInRange
    <3> QED
      BY <3>1, <3>3 DEF Access!BitsOf
  <2> QED
    BY <2>6, <2>7
<1>4. Access!RightsFollowRole
  <2> SUFFICES ASSUME Growing, NEW k \in Access!People
               PROVE  Access!Told(k) \subseteq Gives(holder[k].role)
    BY DEF Access!RightsFollowRole, Growing, Gives
  <2>1. PICK row : row = holder[k]
    OBVIOUS
  <2>2. Given(row)
    BY <2>1 DEF RightsInv, GivenInv
  <2>3. Gives(row.role) \in SUBSET Access!Known
    BY <1>1, <1>2, <2>1 DEF Gives, BitInv
  <2>4. ASSUME NEW p \in Access!Told(k) PROVE p \in Gives(row.role)
    <3>1. p \in Access!Known /\ (p \in Gives(row.role) \/ bit[p] \in Access!BitsOf(Gives(row.role)))
      BY <2>1, <2>2 DEF Access!Told, Access!HasPermission, Given, Gives
    <3> QED
      BY <1>1, <2>3, <3>1, BitIsIts
  <2> QED
    BY <2>1, <2>4
<1>5. Access!FileDecides
  <2> SUFFICES ASSUME NEW t \in Threads, Access!OneAtATime, Access!At(t, "apply"),
                      NEW r \in RolesOf(job[t].row) \ job[t].key
               PROVE  Decided(job[t].row, r, permitted[r])
    BY DEF Access!FileDecides, Decided, RolesOf
  <2> QED
    BY DEF RightsInv, FileInv, FileFits, Access!At
<1> QED
  BY <1>1, <1>3, <1>4, <1>5

-----------------------------------------------------------------------------
(* Theorems.                                                               *)

\* However the calls of the API race, no task of a template is made twice, and a
\* checklist whose call has ended has all of them, if nobody edits templates and
\* nothing dies (ChecklistInstance.create_tasks_from_template); assigned one at a time
\* by the API, a template is an employee's once: what the view has looked up is still
\* so when it inserts (ChecklistInstanceViewSet.create).  Nothing else of the company
\* writes checklists.
THEOREM ChecklistsKeepPromises == Spec => []ChecklistPromises
<1> DEFINE Inv == clients.area = "checklists" => TasksInv /\ AssignedInv
<1>1. Init => Inv
  BY ChecklistInit, ProvedConstants DEF Init, Begin, Checks!Init, Checks!Begin, Idle, Checks!Idle
<1>2. Inv /\ [Next]_vars => Inv'
  BY ClientsStay, ChecklistsStep, TasksStep, OnceStep, ProvedConstants
<1>3. Inv => ChecklistPromises
  BY DEF ChecklistPromises, TasksInv, CountsOnce, Complete, Undisturbed, Checks!TasksOnce,
         AssignedInv, Checks!AssignedOnce
<1> QED
  BY <1>1, <1>2, <1>3, PTL DEF Spec

\* However reviewers and applicants race through job_application_service, an application
\* carries a decision just when its status is final, its applicant has been told that
\* status, and one call at a time a final status never changes.
THEOREM ApplicationsKeepPromises == Spec => ApplicationPromises
<1> DEFINE Inv == clients.area = "jobs" => ApplicationInv /\ CopyInv
           Promised == Jobs!TypeOK /\ Jobs!DecisionTellsStatus /\ Jobs!ApplicantKnows
           Stands == Jobs!OneAtATime /\ Jobs!ByService =>
                       \A a \in Jobs!Live : application[a].status \in Jobs!TERMINAL_STATUSES =>
                         application'[a] \in {application[a], Nil}
<1>1. Init => Inv
  BY ApplicationInit, ProvedConstants
<1>2. Inv /\ [Next]_vars => Inv'
  BY ClientsStay, JobsStep, ApplicationStep, CopyStep, ProvedConstants
<1>3. Inv => (clients.area = "jobs" => Promised)
  BY DEF ApplicationInv
<1>4. Inv /\ [Next]_vars => [Stands]_Jobs!vars
  <2> SUFFICES ASSUME Inv, [Next]_vars PROVE [Stands]_Jobs!vars
    OBVIOUS
  <2>1. CASE clients.area = "jobs"
    BY <2>1, JobsStep, DecisionStep, ProvedConstants
  <2>2. CASE clients.area # "jobs"
    BY <2>2, JobsStep DEF jobs
  <2> QED
    BY <2>1, <2>2
<1> QED
  BY <1>1, <1>2, <1>3, <1>4, PTL DEF Spec, ApplicationPromises, Jobs!DecisionStands

\* While calls come one at a time nobody has two named responses, and a response goes
\* only when its respondent submits again (SurveyViewSet.submit_response and destroy);
\* and whatever races, an edit of the survey loses no answer to a question it keeps
\* (SurveySerializer.update).
THEOREM SurveysKeepPromises == Spec => SurveyPromises
<1> DEFINE Inv == clients.area = "surveys" => SurveyInv /\ ResponseInv
           Promised == clients.area = "surveys" => Polls!TypeOK /\ Polls!OneResponseEach
           Kept == \A k \in Polls!Given :
                     response'[k] # Nil =>
                       \A q \in response[k].answers :
                         question'[q] \in Polls!Kinds => q \in response'[k].answers
           Replacing == Polls!OneAtATime =>
                          \A k \in Polls!Given :
                            response'[k] = Nil =>
                              \E t \in Threads :
                                Polls!At(t, "clear") /\ job[t].key = response[k].respondent
<1>1. Init => Inv
  BY SurveyInit, ProvedConstants
<1>2. Inv /\ [Next]_vars => Inv'
  BY ClientsStay, PollsStep, SurveyStep, ResponseStep, ProvedConstants
<1>3. Inv => Promised
  BY DEF SurveyInv, ResponseInv
<1>4. Inv /\ [Next]_vars => [Kept]_Polls!vars /\ [Replacing]_Polls!vars
  <2> SUFFICES ASSUME Inv, [Next]_vars PROVE [Kept]_Polls!vars /\ [Replacing]_Polls!vars
    OBVIOUS
  <2>1. CASE clients.area = "surveys"
    BY <2>1, PollsStep, AnswersStep, ReplacedStep, ProvedConstants
  <2>2. CASE clients.area # "surveys"
    BY <2>2, PollsStep DEF surveys, Polls!Given
  <2> QED
    BY <2>1, <2>2
<1> QED
  BY <1>1, <1>2, <1>3, <1>4, PTL
     DEF Spec, SurveyPromises, Polls!KeptQuestionsKeepAnswers, Polls!OnlyReplacedGo

\* Training budgets and what employees learn.  A budget tells what its entries cost
\* once all calls have ended, whichever raced (TrainingBudgetService.recalculate_budget),
\* and of calls one at a time an alert is sent for every time 80% are crossed
\* (_maybe_notify_threshold).  However PATCHes of training, certificate, registration
\* and peer session rows race, dates stay in order, and the assistant lists to everybody
\* what the views let them see.
THEOREM BudgetsKeepPromises == Spec => []BudgetPromises
<1> DEFINE InvT == clients.area = "training" =>
                     TrainingInv /\ (Counting => UsedInv) /\ (Alerting => AlertInv)
           InvL == clients.area = "records" => RecordInv
<1>1. Init => InvT /\ InvL
  BY TrainingInit, UsedInit, AlertInit, RecordInit, ProvedConstants
<1>2. InvT /\ [Next]_vars => InvT'
  <2> SUFFICES ASSUME InvT, [Next]_vars, clients.area = "training"
               PROVE  TrainingInv' /\ (Counting => UsedInv)' /\ (Alerting => AlertInv)'
    BY ClientsStay
  <2>1. [Training!Next]_Training!vars
    BY TrainingStep
  <2>2. (Counting' <=> Counting) /\ (Alerting' <=> Alerting)
    BY ClientsStay DEF Counting, Alerting, Training!Only, Training!OneAtATime
  <2>3. TrainingInv'
    BY <2>1, TrainingInvStep, ProvedConstants
  <2>4. Counting => UsedInv'
    BY <2>1, UsedStep, ProvedConstants
  <2>5. Alerting => AlertInv'
    BY <2>1, AlertStep, AlertingCounts, ProvedConstants
  <2> QED
    BY <2>2, <2>3, <2>4, <2>5
<1>3. InvL /\ [Next]_vars => InvL'
  BY ClientsStay, LearningStep, RecordStep, ProvedConstants
<1>4. InvT /\ InvL => BudgetPromises
  BY BudgetsKept, RecordsKept, ListsKept, ProvedConstants DEF BudgetPromises
<1> QED
  BY <1>1, <1>2, <1>3, <1>4, PTL DEF Spec

\* Nobody edits the dates of an assignment while others work.
DatesEditedAlone ==
  \A c \in Clients : c.area = "staffing" => "dates" \notin c.calls \/ \A t, u \in c.threads : t = u

\* ProjectStaffing: if nobody edits dates while others work, assignments end after they
\* start; one call at a time and in the order of starts no day is planned for twice; and a
\* new allocation, whatever races, leaves what was planned for the days before today.
THEOREM StaffingKeepsPromises ==
  ASSUME DatesEditedAlone
  PROVE  Spec => StaffingPromises
<1> DEFINE InvP == clients \in Clients /\ (clients.area = "staffing" => PlansInv)
           Past == \A t \in Threads :
                     Staffing!At(t, "patch") /\ job'[t] = Staffing!Idle
                     /\ job[t].row.status = "active" /\ today <= job[t].row.end_date
                     /\ assignment[job[t].key] = job[t].row
                     => \A d \in 0..today - 1 : Staffing!Planned(d)' = Staffing!Planned(d)
<1>1. Init => InvP
  BY PlansInit, ProvedConstants DEF Init, Begin
<1>2. InvP /\ [Next]_vars => InvP'
  <2> SUFFICES ASSUME InvP, [Next]_vars PROVE InvP'
    OBVIOUS
  <2>1. UNCHANGED clients
    BY ClientsStay
  <2>2. ASSUME clients.area = "staffing" PROVE PlansInv'
    BY <2>1, <2>2, StaffingStep, PlansStep, ProvedConstants
  <2> QED
    BY <2>1, <2>2
<1>3. InvP => (clients.area = "staffing" => Staffing!TypeOK /\ Staffing!PlannedOnce)
  BY PlansKept, ProvedConstants DEF DatesEditedAlone, Orderly, Staffing!OneAtATime
<1>4. InvP /\ [Next]_vars => [Past]_Staffing!vars
  <2> SUFFICES ASSUME InvP, [Next]_vars PROVE Past
    OBVIOUS
  <2>1. CASE clients.area = "staffing"
    BY <2>1, StaffingStep, PastStays, ProvedConstants DEF PlansInv
  <2>2. CASE clients.area # "staffing"
    <3>1. UNCHANGED assignment
      BY <2>2, StaffingStep DEF staffing
    <3> QED
      BY <3>1 DEF Staffing!Planned, Staffing!Live
  <2> QED
    BY <2>1, <2>2
<1> QED
  BY <1>1, <1>2, <1>3, <1>4, PTL DEF Spec, StaffingPromises, Staffing!PastIsKept

\* CareerLevels, EmployeeCVs and RolePermissions: levels follow their changes, of the CVs
\* the latest is current, the ways in which rights are read agree, and a file of
\* permissions does what its rows say and takes from a role no permission they do not name.
THEOREM CareersKeepPromises == Spec => CareerPromises
<1> DEFINE InvC == /\ clients \in Clients /\ (clients.area = "careers" => CareerInv)
                   /\ (clients.area # "careers" => Careers!Live = {})
           InvV == clients.area = "cvs" => CVInv
           InvR == clients.area = "roles" => RightsInv
           Puts == Careers!OneAtATime /\ Careers!Only(Careers!Calls \ {"command"}) =>
                     \A t \in Threads :
                       Careers!Sync(t) /\ Careers!Live # {} => Careers!AtLatest(profile'.cpf_level)
           Loses == Access!OneAtATime =>
                      \A t \in Threads, r \in Access!Living :
                        Access!At(t, "merge") \/ Access!At(t, "apply") =>
                          LET f == IF Access!At(t, "merge") THEN job[t].row.file ELSE job[t].row IN
                            permitted'[r] # Nil =>
                              \/ permitted[r] \ permitted'[r] \subseteq {row.permission : row \in f}
                              \/ Access!Of(f, r, "override", TRUE) # {}
<1>1. Init => InvC /\ InvV /\ InvR
  <2> SUFFICES ASSUME Init PROVE InvC /\ InvV /\ InvR
    OBVIOUS
  <2>1. Begin /\ Access!Begin /\ clients \in Clients
    BY DEF Init, Begin, Access!Begin, Idle, Access!Idle
  <2>2. CareerInv
    BY <2>1, CareerInit, ProvedConstants DEF Init
  <2>3. CVInv
    BY <2>1, CVInit, ProvedConstants DEF Init
  <2>4. clients.area = "roles" => RightsInv
    BY <2>1, RightsInit, ProvedConstants DEF Init
  <2>5. Careers!Live = {}
    BY DEF Init, Careers!Start, Careers!Live
  <2> QED
    BY <2>1, <2>2, <2>3, <2>4, <2>5
<1>2. InvC /\ InvV /\ InvR /\ [Next]_vars => (InvC /\ InvV /\ InvR)'
  <2> SUFFICES ASSUME InvC, InvV, InvR, [Next]_vars PROVE (InvC /\ InvV /\ InvR)'
    OBVIOUS
  <2>1. UNCHANGED clients
    BY ClientsStay
  <2>2. ASSUME clients.area = "careers" PROVE CareerInv'
    BY <2>1, <2>2, CareersStep, CareerInvStep, ProvedConstants
  <2>3. ASSUME clients.area # "careers" PROVE Careers!Live' = {}
    <3>1. UNCHANGED careers
      BY <2>3, CareersStep
    <3> QED
      BY <2>3, <3>1 DEF careers, Careers!Live
  <2>4. ASSUME clients.area = "cvs" PROVE CVInv'
    BY <2>1, <2>4, CVsStep, CVInvStep, ProvedConstants
  <2>5. ASSUME clients.area = "roles" PROVE RightsInv'
    BY <2>1, <2>5, AccessStep, RightsInvStep, ProvedConstants
  <2> QED
    BY <2>1, <2>2, <2>3, <2>4, <2>5
<1>3. InvC => (clients.area = "careers" =>
                 /\ Careers!TypeOK /\ Careers!LevelIsLatest /\ Careers!HistoryTellsLevel
                 /\ Careers!CareerFollowsLevel /\ Careers!PermissionsFollowRole)
  BY CareerKept, ProvedConstants
<1>4. InvV => (clients.area = "cvs" => CVs!TypeOK /\ CVs!LatestIsCurrent)
  BY CVKept, ProvedConstants
<1>5. InvC /\ InvR => (clients.area = "roles" =>
                         /\ Access!TypeOK /\ Access!BitmapTellsRights /\ Access!RightsFollowRole
                         /\ Access!FileDecides)
  BY RightsKept, ProvedConstants
<1>6. InvC /\ [Next]_vars => [Puts]_Careers!vars
  <2> SUFFICES ASSUME InvC, Careers!OneAtATime, NEW t \in Threads, Careers!Sync(t), Careers!Live # {}
               PROVE  Careers!AtLatest(profile'.cpf_level)
    OBVIOUS
  <2> QED
    BY SyncPutsRight, ProvedConstants
<1>7. InvC /\ InvR /\ [Next]_vars => [Loses]_Access!vars
  <2> SUFFICES ASSUME InvC, InvR, [Next]_vars PROVE [Loses]_Access!vars
    OBVIOUS
  <2>1. CASE clients.area # "roles"
    <3>1. UNCHANGED permitted
      BY <2>1, AccessStep DEF roles
    <3> QED
      BY <3>1
  <2>2. CASE clients.area = "roles"
    <3>1. CASE UNCHANGED Access!vars
      BY <3>1
    <3>2. CASE Access!Next
      <4> SUFFICES ASSUME Access!OneAtATime, NEW t \in Threads, NEW r \in Access!Living,
                          Access!At(t, "merge") \/ Access!At(t, "apply"),
                          NEW f, f = IF Access!At(t, "merge") THEN job[t].row.file ELSE job[t].row,
                          permitted'[r] # Nil
                   PROVE  \/ permitted[r] \ permitted'[r] \subseteq {row.permission : row \in f}
                          \/ Access!Of(f, r, "override", TRUE) # {}
        OBVIOUS
      <4>1. permitted[r] \ permitted'[r] \subseteq Named(f) \/ Access!Of(f, r, "override", TRUE) # {}
        BY <2>2, <3>2, LosesNamed, ProvedConstants DEF RightsInv
      <4> QED
        BY <4>1 DEF Named
    <3> QED
      BY <2>2, <3>1, <3>2, AccessStep
  <2> QED
    BY <2>1, <2>2
<1> HIDE DEF InvC, InvV, InvR, Puts, Loses
<1>8. Spec => [](InvC /\ InvV /\ InvR)
  BY <1>1, <1>2, PTL DEF Spec
<1>9. Spec => [][Puts]_Careers!vars /\ [][Loses]_Access!vars
  BY <1>6, <1>7, <1>8, PTL DEF Spec
<1> USE DEF Puts, Loses
<1> QED
  BY <1>3, <1>4, <1>5, <1>8, <1>9, PTL DEF CareerPromises, Careers!SyncRepairs, Access!LosesOnlyNamed

=============================================================================

