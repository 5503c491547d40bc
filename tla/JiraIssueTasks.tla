--------------------------- MODULE JiraIssueTasks ---------------------------
(***************************************************************************)
(* One Jira project whose issues are imported as tasks.  An import is one  *)
(* transaction: it creates or revives the project, then creates or updates *)
(* the task and the mapping of every issue, looking before each write for  *)
(* what is there.  Managers edit the tasks and administrators the mappings *)
(* in between.                                                             *)
(***************************************************************************)
EXTENDS FiniteSets, WebThreads

CONSTANTS
  Issues,    \* keys of the issues
  Names,     \* their summaries, and the names of tasks
  Projects,  \* primary keys; bounds on what is created
  Tasks

Calls == {"import", "task", "edit", "delete", "delete_project", "map_project", "map_issue"}
Faults == {"rollback"}

\* A name, or a name with the key of an issue appended.
TaskNames == Names \X (Issues \cup {Nil})
TaskRows == [project : Projects, name : TaskNames, jira_issue_key : Issues \cup {Nil}]
ProjectMappings == [project : Projects, is_active : BOOLEAN]
IssueMappings == [task : Tasks, is_active : BOOLEAN]

IssueConstants ==
  /\ IsFiniteSet(Projects) /\ IsFiniteSet(Tasks)
  /\ Nil \notin Issues \cup Projects \cup Tasks \cup TaskRows \cup ProjectMappings \cup IssueMappings
  \* Clients also say which issues the employee has.
  /\ \A c \in Clients : c.area = "issues" => c.issues \subseteq Issues

VARIABLES
  projects,    \* those that there are
  task,        \* TimeTask, or Nil
  projectmap,  \* JiraProjectMapping of the Jira project, or Nil
  issuemap     \* issue -> its JiraIssueMapping, or Nil

tables == <<projects, task, projectmap, issuemap>>
vars == <<tables, job, clients>>

-----------------------------------------------------------------------------
\* The tables as a record, so that a transaction can hold its own.
Tables == [projects |-> projects, task |-> task, projectmap |-> projectmap, issuemap |-> issuemap]
Write(d) ==
  /\ projects' = d.projects /\ task' = d.task
  /\ projectmap' = d.projectmap /\ issuemap' = d.issuemap

TasksOf(d) == {k \in Tasks : d.task[k] # Nil}
TaskFor(d, i) == {k \in TasksOf(d) : d.task[k].jira_issue_key = i}
Named(d, p, n) == {k \in TasksOf(d) : d.task[k].project = p /\ d.task[k].name = n}

\* unique_time_task_name_per_project and unique_time_task_jira_issue_key
Unique(d) ==
  \A k, l \in TasksOf(d) : k # l =>
    /\ <<d.task[k].project, d.task[k].name>> # <<d.task[l].project, d.task[l].name>>
    /\ d.task[k].jira_issue_key = d.task[l].jira_issue_key => d.task[k].jira_issue_key = Nil

ForeignKeys(d) ==
  /\ \A k \in TasksOf(d) : d.task[k].project \in d.projects
  /\ d.projectmap # Nil => d.projectmap.project \in d.projects
  /\ \A i \in Issues : d.issuemap[i] # Nil => d.issuemap[i].task \in TasksOf(d)

\* Primary keys are handed out to transactions too.
Held == {job[t].row : t \in {u \in Threads : At(u, "row")}}
NewProjects == Projects \ (projects \cup UNION {h.wrote.projects : h \in Held})
NewTasks == {k \in Tasks : task[k] = Nil /\ \A h \in Held : h.wrote.task[k] = Nil}

-----------------------------------------------------------------------------
(* The import.  wrote is what the transaction has written, Nil elsewhere.  *)

Nothing == [projects |-> {}, task |-> [k \in Tasks |-> Nil], projectmap |-> Nil,
            issuemap |-> [i \in Issues |-> Nil]]
Over(own, old) == IF own = Nil THEN old ELSE own
Seen(w) == [projects |-> projects \cup w.projects,
            task |-> [k \in Tasks |-> Over(w.task[k], task[k])],
            projectmap |-> Over(w.projectmap, projectmap),
            issuemap |-> [i \in Issues |-> Over(w.issuemap[i], issuemap[i])]]

\* The rows that were not there when they were inserted.
Import(t) ==
  /\ Free(t, "import")
  /\ Take(t, "row", Nil, [todo |-> clients.issues, wrote |-> Nothing, inserted |-> {}])
  /\ UNCHANGED <<tables, clients>>

MappedProject(d) ==
  IF d.projectmap # Nil /\ d.projectmap.is_active THEN d.projectmap.project ELSE Nil

\* Mutation of Repointed: the mapping that is there stays.
RepointedNever(m, k) == IF m = Nil THEN [task |-> k, is_active |-> TRUE] ELSE m

Repointed(m, k) == [task |-> k, is_active |-> TRUE]

\* _task_name_for_issue
NameFor(d, p, n, i) ==
  IF Named(d, p, <<n, Nil>>) \subseteq TaskFor(d, i) THEN <<n, Nil>> ELSE <<n, i>>

\* One issue with its summary n: the project, the task and the mapping.
ImportRow(t) ==
  /\ At(t, "row") /\ job[t].row.todo # {}
  /\ LET j == job[t].row
         d == Seen(j.wrote)
         old == MappedProject(d)
     IN \E i \in j.todo, n \in Names,
           p \in IF old = Nil THEN NewProjects ELSE {old} :
          \E k \in IF TaskFor(d, i) = {} THEN NewTasks ELSE TaskFor(d, i) :
            LET row == [project |-> p, name |-> NameFor(d, p, n, i), jira_issue_key |-> i]
                m == Repointed(d.issuemap[i], k)
            IN IF Named(d, p, row.name) \subseteq {k}
               THEN Take(t, "row", Nil,
                 [todo |-> j.todo \ {i},
                  wrote |->
                    [projects |-> j.wrote.projects \cup (IF old = Nil THEN {p} ELSE {}),
                     task |-> IF d.task[k] = row THEN j.wrote.task
                              ELSE [j.wrote.task EXCEPT ![k] = row],
                     projectmap |-> IF old = Nil THEN [project |-> p, is_active |-> TRUE]
                                    ELSE j.wrote.projectmap,
                     issuemap |-> IF d.issuemap[i] = m THEN j.wrote.issuemap
                                  ELSE [j.wrote.issuemap EXCEPT ![i] = m]],
                  inserted |-> j.inserted
                    \cup (IF d.projectmap = Nil THEN {"project"} ELSE {})
                    \cup (IF d.issuemap[i] = Nil THEN {i} ELSE {})])
               ELSE Done(t)
  /\ UNCHANGED <<tables, clients>>

\* Mutation of Conflict: what somebody else inserted is written over.
ConflictNever(j) == FALSE

\* Somebody else inserted a mapping with the same key.
Conflict(j) ==
  \/ "project" \in j.inserted /\ projectmap # Nil
  \/ \E i \in Issues \cap j.inserted : issuemap[i] # Nil

Commits(t) ==
  /\ At(t, "row") /\ job[t].row.todo = {}
  /\ LET d == Seen(job[t].row.wrote) IN
       Unique(d) /\ ForeignKeys(d) /\ ~Conflict(job[t].row)

ImportCommit(t) ==
  /\ Commits(t)
  /\ Write(Seen(job[t].row.wrote))
  /\ Done(t)
  /\ UNCHANGED clients

\* A constraint refuses a row, or the server stops.
ImportRollback(t) ==
  /\ At(t, "row")
  /\ Fault("rollback") \/ (job[t].row.todo = {} /\ ~Commits(t))
  /\ Done(t)
  /\ UNCHANGED <<tables, clients>>

-----------------------------------------------------------------------------
(* Managers and administrators.                                            *)

\* The serializer refuses what the constraints would.
Refused(d) == ~(Unique(d) /\ ForeignKeys(d))

CreateTask(t) ==
  /\ Free(t, "task")
  /\ \E k \in NewTasks, p \in projects, n \in TaskNames, i \in Issues \cup {Nil} :
       LET d == [Tables EXCEPT !.task[k] = [project |-> p, name |-> n, jira_issue_key |-> i]] IN
       ~Refused(d) /\ Write(d)
  /\ UNCHANGED <<job, clients>>

LoadTask(t) ==
  /\ \E k \in TasksOf(Tables) : Free(t, "edit") /\ Take(t, "edit", k, task[k])
  /\ UNCHANGED <<tables, clients>>

\* The whole copy, which a deletion does not stop.
SaveTask(t) ==
  /\ At(t, "edit")
  /\ \E n \in TaskNames, i \in Issues \cup {Nil} :
       LET d == [Tables EXCEPT !.task[job[t].key] =
                   [job[t].row EXCEPT !.name = n, !.jira_issue_key = i]]
       IN IF Refused(d) THEN UNCHANGED tables ELSE Write(d)
  /\ Done(t)
  /\ UNCHANGED clients

\* The mappings go with their task, the tasks and the mapping with the project.
Without(gone) ==
  /\ task' = [k \in Tasks |-> IF k \in gone THEN Nil ELSE task[k]]
  /\ issuemap' = [i \in Issues |->
       IF issuemap[i] # Nil /\ issuemap[i].task \in gone THEN Nil ELSE issuemap[i]]

DeleteTask(t) ==
  /\ Free(t, "delete")
  /\ \E k \in TasksOf(Tables) : Without({k})
  /\ UNCHANGED <<projects, projectmap, job, clients>>

DeleteProject(t) ==
  /\ Free(t, "delete_project")
  /\ \E p \in projects :
       /\ projects' = projects \ {p}
       /\ Without({k \in TasksOf(Tables) : task[k].project = p})
       /\ projectmap' = IF projectmap # Nil /\ projectmap.project = p THEN Nil ELSE projectmap
  /\ UNCHANGED <<job, clients>>

MapProject(t) ==
  /\ Free(t, "map_project")
  /\ \E p \in projects, a \in BOOLEAN : projectmap' = [project |-> p, is_active |-> a]
  /\ UNCHANGED <<projects, task, issuemap, job, clients>>

MapIssue(t) ==
  /\ Free(t, "map_issue")
  /\ \E i \in Issues, k \in TasksOf(Tables), a \in BOOLEAN :
       issuemap' = [issuemap EXCEPT ![i] = [task |-> k, is_active |-> a]]
  /\ UNCHANGED <<projects, task, projectmap, job, clients>>

-----------------------------------------------------------------------------
Start ==
  /\ projects = {} /\ task = [k \in Tasks |-> Nil]
  /\ projectmap = Nil /\ issuemap = [i \in Issues |-> Nil]

Init == Start /\ Begin

Next ==
  \E t \in Threads :
    \/ Import(t) \/ ImportRow(t) \/ ImportCommit(t) \/ ImportRollback(t)
    \/ CreateTask(t) \/ LoadTask(t) \/ SaveTask(t) \/ DeleteTask(t) \/ DeleteProject(t)
    \/ MapProject(t) \/ MapIssue(t)

Spec == Init /\ [][Next]_vars

-----------------------------------------------------------------------------
(* Properties.                                                             *)

\* Every row is in its columns' range and meets the constraints.
TypeOK ==
  /\ projects \subseteq Projects
  /\ task \in [Tasks -> TaskRows \cup {Nil}]
  /\ projectmap \in ProjectMappings \cup {Nil}
  /\ issuemap \in [Issues -> IssueMappings \cup {Nil}]
  /\ Unique(Tables) /\ ForeignKeys(Tables)

\* However imports race and fail, the Jira project becomes one project: a loser
\* leaves none behind.  (A mapping that is switched off is given a new one.)
NoStrayProject ==
  "map_project" \notin clients.calls =>
    projects = (IF projectmap = Nil THEN {} ELSE {projectmap.project})

\* An import whose rows nobody else touches meanwhile leaves every issue with the
\* task that has its key, in the project that is mapped, whatever was edited,
\* deleted and mapped before.
ImportRepairs ==
  [][OneAtATime =>
       \A t \in Threads :
         ImportCommit(t) =>
           \A i \in clients.issues :
             /\ projectmap'.is_active /\ issuemap'[i] # Nil /\ issuemap'[i].is_active
             /\ task'[issuemap'[i].task].jira_issue_key = i
             /\ task'[issuemap'[i].task].project = projectmap'.project]_vars
=============================================================================
