----------------------------- MODULE Checklists -----------------------------
(***************************************************************************)
(* The checklists of one employee.  A checklist is made from a template,   *)
(* and a signal makes its tasks, one for each task of the template.        *)
(***************************************************************************)
EXTENDS Naturals, WebThreads

CONSTANTS
  Templates,
  Titles,    \* the tasks of a template
  Instances  \* primary keys; bound on the checklists assigned

Calls == {"assign", "task", "remove", "template", "delete_template", "ai_assign"}
Faults == {"crash"}

\* How often a checklist has the task; of its last one, whether it is done and
\* whether completed_at is set.
Tasks == [count : 0..2, done : BOOLEAN, completed_at : BOOLEAN]
Rows == [template : Templates, tasks : [Titles -> Tasks]]
NoTask == [count |-> 0, done |-> FALSE, completed_at |-> FALSE]

ChecklistConstants == Instances # {} /\ Nil \notin Rows /\ Nil \notin Templates \cup Instances

VARIABLES
  template, \* ChecklistTemplate -> the titles of its tasks, or Nil
  instance  \* ChecklistInstance with its ChecklistTasks

vars == <<template, instance, job, clients>>

-----------------------------------------------------------------------------
Live == {i \in Instances : instance[i] # Nil}
Changed(row, tasks) == [template |-> row.template, tasks |-> tasks]
Unused(i) == instance[i] = Nil /\ \A t \in Threads : job[t].key # i
\* Mutation of Assigned: nobody asks.
AssignedNever(p) == FALSE

Assigned(p) == \E i \in Live : instance[i].template = p

-----------------------------------------------------------------------------
(* Assigning a template.                                                   *)

\* The template is there; the view also asks whether it is assigned already.
LoadTemplate(t) ==
  /\ \E c \in {"assign", "ai_assign"}, p \in Templates :
       /\ Free(t, c) /\ template[p] # Nil
       /\ c = "assign" => ~Assigned(p)
       /\ Take(t, "insert", Nil, [template |-> p, tool |-> c = "ai_assign"])
  /\ UNCHANGED <<template, instance, clients>>

OneMore(task) == [count |-> task.count + 1, done |-> FALSE, completed_at |-> FALSE]

\* Mutation of WithTasks: a title the checklist has is made again for the others.
WithTasksAll(tasks, titles) ==
  [x \in Titles |-> IF titles = {} THEN tasks[x] ELSE OneMore(tasks[x])]

\* create_tasks_from_template, for these titles
WithTasks(tasks, titles) ==
  [x \in Titles |-> IF x \in titles THEN OneMore(tasks[x]) ELSE tasks[x]]

NoTasks == [x \in Titles |-> NoTask]

\* The tool inserts the row, whose signal makes the tasks, and then makes them
\* itself, in one transaction.  The view commits the row first.
Insert(t) ==
  /\ At(t, "insert")
  /\ LET p == job[t].row.template IN
       IF template[p] = Nil THEN Done(t) /\ UNCHANGED instance
       ELSE \E i \in Instances :
              /\ Unused(i)
              /\ instance' =
                   [instance EXCEPT ![i] =
                      [template |-> p,
                       tasks |-> IF job[t].row.tool
                                 THEN WithTasks(WithTasks(NoTasks, template[p]), template[p])
                                 ELSE NoTasks]]
              /\ IF job[t].row.tool THEN Done(t) ELSE Take(t, "read", i, p)
  /\ UNCHANGED <<template, clients>>

\* The signal: the titles are read in one query, then the tasks are made one by
\* one, each committed by itself.
ReadTitles(t) ==
  /\ At(t, "read")
  /\ LET titles == template[job[t].row] IN
       IF titles \in {Nil, {}} THEN Done(t) ELSE Take(t, "tasks", job[t].key, titles)
  /\ UNCHANGED <<template, instance, clients>>

\* A checklist deleted meanwhile fails the rest, and so may an edit of its
\* template, which has made the tasks of the template anew.
MakeTask(t) ==
  /\ At(t, "tasks")
  /\ LET i == job[t].key IN
       \/ /\ i \notin Live \/ ("template" \in clients.calls /\ ~OneAtATime)
          /\ Done(t) /\ UNCHANGED instance
       \/ /\ i \in Live
          /\ \E x \in job[t].row :
               /\ instance' = [instance EXCEPT ![i] = Changed(@, WithTasks(@.tasks, {x}))]
               /\ IF job[t].row = {x} THEN Done(t) ELSE Take(t, "tasks", i, job[t].row \ {x})
  /\ UNCHANGED <<template, clients>>

Crash(t) ==
  /\ Fault("crash") /\ job[t] # Idle
  /\ Done(t)
  /\ UNCHANGED <<template, instance, clients>>

-----------------------------------------------------------------------------
(* Tasks, checklists and templates.                                        *)

\* Mutation of Completed: the time of completion stays when a task is reopened.
CompletedStays(task, done) ==
  [count |-> task.count, done |-> done, completed_at |-> task.completed_at \/ done]

Completed(task, done) == [count |-> task.count, done |-> done, completed_at |-> done]

UpdateTask(t) ==
  /\ Free(t, "task")
  /\ \E i \in Live, x \in Titles, done \in BOOLEAN :
       /\ instance[i].tasks[x].count > 0
       /\ instance' = [instance EXCEPT ![i] =
                         Changed(@, [instance[i].tasks EXCEPT ![x] = Completed(@, done)])]
  /\ UNCHANGED <<template, job, clients>>

Remove(t) ==
  /\ Free(t, "remove")
  /\ \E i \in Live : instance' = [instance EXCEPT ![i] = Nil]
  /\ UNCHANGED <<template, job, clients>>

\* An update saves the template as it was loaded, which inserts one that is gone
\* again, deletes its tasks and makes others; what has been assigned stays.
EditTemplate(t) ==
  /\ \/ /\ Free(t, "template")
        /\ \E p \in Templates : template[p] # Nil /\ Take(t, "template", p, Nil)
        /\ UNCHANGED template
     \/ /\ At(t, "template")
        /\ template' = [template EXCEPT ![job[t].key] = {}]
        /\ Take(t, "titles", job[t].key, Nil)
     \/ /\ At(t, "titles")
        /\ \E x \in SUBSET Titles :
             template' = [template EXCEPT ![job[t].key] = IF @ = Nil THEN Nil ELSE x]
        /\ Done(t)
  /\ UNCHANGED <<instance, clients>>

\* The checklists go with their template.
DeleteTemplate(t) ==
  /\ Free(t, "delete_template")
  /\ \E p \in Templates :
       /\ template' = [template EXCEPT ![p] = Nil]
       /\ instance' = [i \in Instances |->
                         IF i \in Live /\ instance[i].template = p THEN Nil ELSE instance[i]]
  /\ UNCHANGED <<job, clients>>

-----------------------------------------------------------------------------
Start ==
  /\ template = [p \in Templates |-> Titles]
  /\ instance = [i \in Instances |-> Nil]

Init == Start /\ Begin

Next ==
  \E t \in Threads :
    \/ LoadTemplate(t) \/ Insert(t) \/ ReadTitles(t) \/ MakeTask(t) \/ Crash(t)
    \/ UpdateTask(t) \/ Remove(t) \/ EditTemplate(t) \/ DeleteTemplate(t)

Spec == Init /\ [][Next]_vars

-----------------------------------------------------------------------------
(* Properties.                                                             *)

\* Rows are in their columns' range, and a task tells when it was completed just
\* when it is (ChecklistTaskInstance.save).
TypeOK ==
  /\ template \in [Templates -> (SUBSET Titles) \cup {Nil}]
  /\ instance \in [Instances -> Rows \cup {Nil}]
  /\ \A i \in Live, x \in Titles :
       instance[i].tasks[x].done = instance[i].tasks[x].completed_at

\* Checklists assigned and removed one at a time, by the API: a template is
\* assigned once.
AssignedOnce ==
  OneAtATime /\ "ai_assign" \notin clients.calls =>
    \A i, j \in Live : instance[i].template = instance[j].template => i = j

\* However the calls race, the tool's left aside: no task is made twice, and a
\* checklist whose call has ended without a crash has all of a template nobody edits.
TasksOnce ==
  "ai_assign" \notin clients.calls =>
    \A i \in Live :
      /\ \A x \in Titles : instance[i].tasks[x].count <= 1
      /\ "template" \notin clients.calls /\ clients.faults = {} /\ (\A t \in Threads : job[t].key # i)
         => \A x \in Titles : instance[i].tasks[x].count = 1
=============================================================================
