--------------------------- MODULE WorklogImports ---------------------------
(***************************************************************************)
(* Worklogs of Jira or of Tempo that become time entries: what the source  *)
(* hands out, how mappings of users, issues, projects, accounts and teams  *)
(* turn a worklog into an employee and a project, the verdict of the       *)
(* preview and the commit.  Employees synchronise what is theirs, from the *)
(* day of the last synchronisation on; administrators import what they     *)
(* ask for.                                                                *)
(*                                                                         *)
(* A commit is one transaction and here one step: what races with it is in *)
(* TimeEntries.  The source may change between the calls that read it.     *)
(***************************************************************************)
EXTENDS Naturals, Sequences, WebThreads
LOCAL INSTANCE SequencesExt
LOCAL INSTANCE Functions

CONSTANTS
  Worklogs,  \* ids of the source
  Projects,  \* targets of the mappings; a task is known by its project
  Employee,  \* who synchronises
  Texts,     \* comments
  LastDay    \* bound on the days

Calls == {"log", "log_late", "edit", "remove", "map", "adopt", "approve", "review", "sync", "import"}
Faults == {"feed", "rollback", "midnight"}
Days == 0..LastDay
\* none: not between 0 and 24 hours; seconds: more than 0, but 0.00 hours
Spans == {"none", "seconds", "some"}
Works == [text : Texts, time : Spans, date : Days, updated : 1..2]

\* In the order in which they are asked for the project.
JiraOrder == <<"issue", "project">>
TempoOrder == <<"task", "account", "project", "jira_project", "team", "task_project">>
Kinds == {"user"} \cup Range(JiraOrder) \cup Range(TempoOrder)
Targets(k) == IF k = "user" THEN {Employee} ELSE Projects
Mappings == [target : Projects \cup {Employee}, is_active : BOOLEAN]

Flags == {"none", "review_required", "deleted"}
\* work: what the entry says; source_metadata: the worklog as last seen
Entries == [employee : {Employee}, project : Projects, task : BOOLEAN, work : Works,
            approved : BOOLEAN, source_metadata : Works, source_change_flag : Flags]

WorklogConstants ==
  /\ LastDay \in Nat /\ Nil \notin Projects \cup {Employee} \cup Days \cup Mappings \cup Works \cup Entries
  \* Clients also say which source it is, what worklogs and mappings there may be,
  \* and how well the names of the source match those of the targets.
  /\ \A c \in Clients : c.area = "worklogs" =>
       /\ c.worklogs \subseteq Worklogs /\ c.kinds \subseteq Kinds /\ c.spans \subseteq Spans
       /\ c.score \in [Kinds -> [Projects \cup {Employee} -> 0..100]]

VARIABLES
  worklog,  \* of the source, or Nil
  mapping,  \* kind -> the row for the key that the worklogs have, or Nil
  timeentry,  \* worklog -> TimeEntry with its source_external_id, or Nil
  synced,   \* day of last_synced_at, or Nil
  day

tables == <<mapping, timeentry, synced>>
vars == <<worklog, tables, day, job, clients>>

-----------------------------------------------------------------------------
(* What the source does.                                                   *)

Log(t) ==
  /\ \E c \in {"log", "log_late"}, w \in clients.worklogs, x \in Texts, s \in clients.spans,
        d \in Days :
       /\ Free(t, c) /\ worklog[w] = Nil /\ timeentry[w] = Nil
       /\ IF c = "log" THEN d = day ELSE d < day
       /\ worklog' = [worklog EXCEPT ![w] = [text |-> x, time |-> s, date |-> d, updated |-> 1]]
  /\ UNCHANGED <<tables, day, job, clients>>

EditSource(t) ==
  /\ Free(t, "edit")
  /\ \E w \in clients.worklogs, x \in Texts, s \in clients.spans :
       /\ worklog[w] # Nil /\ worklog[w].updated = 1
       /\ worklog' = [worklog EXCEPT ![w].text = x, ![w].time = s, ![w].updated = 2]
  /\ UNCHANGED <<tables, day, job, clients>>

RemoveSource(t) ==
  /\ Free(t, "remove")
  /\ \E w \in clients.worklogs :
       timeentry[w] # Nil /\ worklog[w] # Nil /\ worklog' = [worklog EXCEPT ![w] = Nil]
  /\ UNCHANGED <<tables, day, job, clients>>

NextDay ==
  /\ day < LastDay /\ (AllIdle \/ Fault("midnight"))
  /\ day' = day + 1
  /\ UNCHANGED <<worklog, tables, job, clients>>

-----------------------------------------------------------------------------
(* Mappings and what is proposed for them.                                 *)

Active(k) == mapping[k] # Nil /\ mapping[k].is_active
Order == IF clients.source = "jira" THEN JiraOrder ELSE TempoOrder
First == SelectInSeq(Order, Active)

\* The first mapping that is active.
Resolved == IF First = 0 THEN Nil ELSE mapping[Order[First]].target
\* Only an issue leads to a task.
Tasked == First = 1
MappedEmployee == IF Active("user") THEN Employee ELSE Nil

Save(t, k, a, x) ==
  /\ Free(t, "map") /\ k \in clients.kinds
  /\ mapping' = [mapping EXCEPT ![k] = [target |-> x, is_active |-> a]]
  /\ UNCHANGED <<worklog, timeentry, synced, day, job, clients>>

SaveJiraMapping(t) ==
  \E k \in {"user", "project", "issue"}, a \in BOOLEAN : \E x \in Targets(k) :
    clients.source = "jira" /\ Save(t, k, a, x)

\* The project of the issue's key and the tasks are Jira's.
SaveTempoMapping(t) ==
  \E k \in Range(TempoOrder) \cup {"user"}, a \in BOOLEAN : \E x \in Targets(k) :
    clients.source = "tempo" /\ Save(t, k, a, x)

\* _suggest_project, _suggest_employee, _suggest_task: the best score among C, and of
\* several the first by name.
Suggested(k, C) ==
  LET score == clients.score[k]
      best == {x \in C : score[x] > 0 /\ \A y \in C : score[y] <= score[x]}
  IN IF best = {} THEN Nil ELSE CHOOSE x \in best : TRUE

ProposedFor(k, C) == IF Active(k) THEN mapping[k].target ELSE Suggested(k, C)

\* Mutation of Candidates: tasks of any project.
CandidatesAny(k) == Targets(k)

\* Tasks are suggested from the project that is proposed for the issue.
Candidates(k) ==
  LET p == ProposedFor("project", Projects) IN
  IF k = "issue" /\ p # Nil THEN {p} ELSE Targets(k)

Proposed(k) == ProposedFor(k, Candidates(k))
DiscoveredInJira == {"user", "project", "issue"}
DiscoveredInTempo == {"account", "project", "team"}
Discovered == IF clients.source = "jira" THEN DiscoveredInJira ELSE DiscoveredInTempo

\* The administrator adds what was proposed; a key that is mapped is refused.
Adopt(t) ==
  /\ Free(t, "adopt")
  /\ mapping' = [k \in Kinds |->
       IF k \in Discovered \cap clients.kinds /\ mapping[k] = Nil /\ Proposed(k) # Nil
       THEN [target |-> Proposed(k), is_active |-> TRUE] ELSE mapping[k]]
  /\ mapping' # mapping
  /\ UNCHANGED <<worklog, timeentry, synced, day, job, clients>>

-----------------------------------------------------------------------------
(* An import: it asks for what was deleted, then for what there is, and    *)
(* then previews and commits both.                                         *)

\* Jira lists what was deleted first; an error of that call counts as nothing.
DeletedIn(source) ==
  IF source = "tempo" THEN {{}}
  ELSE {{w \in Worklogs : worklog[w] = Nil}} \cup (IF Fault("feed") THEN {{}} ELSE {})

Began(t, f, e, s) ==
  \E gone \in DeletedIn(clients.source) :
    Take(t, "fetch", Nil, [from |-> f, to |-> day, employee |-> e, sync |-> s, gone |-> gone])

\* Mutation of DefaultFrom: the day after.
DefaultFromNext == IF synced = Nil THEN 0 ELSE synced + 1

\* The day of the last synchronisation with Jira.
DefaultFrom == IF synced = Nil THEN 0 ELSE synced

JiraSync(t) ==
  /\ Free(t, "sync") /\ clients.source = "jira" /\ DefaultFrom <= day
  /\ Began(t, DefaultFrom, Employee, TRUE)
  /\ UNCHANGED <<worklog, tables, day, clients>>

\* Tempo's always looks thirty days back.
TempoSync(t) ==
  /\ Free(t, "sync") /\ clients.source = "tempo"
  /\ Began(t, 0, Employee, TRUE)
  /\ UNCHANGED <<worklog, tables, day, clients>>

ImportFrom(t, source) ==
  /\ Free(t, "import") /\ clients.source = source
  /\ \E f \in 0..day, e \in {Employee, Nil} : Began(t, f, e, FALSE)
  /\ UNCHANGED <<worklog, tables, day, clients>>

JiraImport(t) == ImportFrom(t, "jira")
TempoImport(t) == ImportFrom(t, "tempo")

\* A deleted worklog looks as it was last seen.
LastSeen(w) == [work |-> timeentry[w].source_metadata, deleted |-> TRUE]
Fetched(h) == [w \in Worklogs |->
  IF worklog[w] # Nil THEN [work |-> worklog[w], deleted |-> FALSE]
  ELSE IF w \in h.gone /\ timeentry[w] # Nil THEN LastSeen(w) ELSE Nil]

Fetch(t) ==
  /\ At(t, "fetch")
  /\ LET h == job[t].row IN
     Take(t, "commit", Nil, [from |-> h.from, to |-> h.to, employee |-> h.employee,
                             sync |-> h.sync, fetched |-> Fetched(h)])
  /\ UNCHANGED <<worklog, tables, day, clients>>

PassesFilters(h, w) ==
  /\ h.fetched[w] # Nil
  /\ h.from <= h.fetched[w].work.date /\ h.fetched[w].work.date <= h.to
  /\ h.employee # Nil => MappedEmployee = h.employee

Fingerprint(e) == <<e.employee, e.project, e.task, e.work.text, e.work.time, e.work.date>>
Entry(row, flag) ==
  [employee |-> MappedEmployee, project |-> Resolved, task |-> Tasked, work |-> row.work,
   approved |-> FALSE, source_metadata |-> row.work, source_change_flag |-> flag]
SourceChanged(e, row) == e.source_metadata # row.work
Blocked(row) == MappedEmployee = Nil \/ Resolved = Nil \/ row.work.time = "none"

\* Another entry, in d, that says the same.
Duplicate(d, w, e) == \E v \in Worklogs \ {w} : d[v] # Nil /\ Fingerprint(d[v]) = Fingerprint(e)

\* Mutation of Skipped: an import looks at other entries only when it creates one.
SkippedWhenNew(row, w) ==
  timeentry[w] = Nil /\ ~Blocked(row) /\ Duplicate(timeentry, w, Entry(row, "none"))

Skipped(row, w) == ~Blocked(row) /\ Duplicate(timeentry, w, Entry(row, "none"))

JiraVerdict(row, w) ==
  LET e == timeentry[w] IN
  IF Skipped(row, w) THEN "skip"
  ELSE IF e # Nil THEN IF row.deleted \/ SourceChanged(e, row) THEN "update" ELSE "skip"
  ELSE IF Blocked(row) THEN "error" ELSE "create"

\* Mutation of TempoVerdict: an import does not look at its other rows.
TempoVerdictAlone(row, w, seen) ==
  IF Skipped(row, w) THEN "skip"
  ELSE IF timeentry[w] # Nil THEN IF SourceChanged(timeentry[w], row) THEN "update" ELSE "skip"
  ELSE IF Blocked(row) THEN "error" ELSE "create"

\* seen: what the rows before have said that are no duplicates.
TempoVerdict(row, w, seen) ==
  IF Skipped(row, w) \/ (~Blocked(row) /\ Fingerprint(Entry(row, "none")) \in seen) THEN "skip"
  ELSE IF timeentry[w] # Nil THEN IF SourceChanged(timeentry[w], row) THEN "update" ELSE "skip"
  ELSE IF Blocked(row) THEN "error" ELSE "create"

SeenBefore(h, s, i) ==
  {Fingerprint(Entry(h.fetched[s[n]], "none")) :
     n \in {m \in 1..i - 1 : ~Blocked(h.fetched[s[m]]) /\ ~Skipped(h.fetched[s[m]], s[m])}}

Verdict(h, s, i) ==
  IF clients.source = "jira" THEN JiraVerdict(h.fetched[s[i]], s[i])
  ELSE TempoVerdict(h.fetched[s[i]], s[i], SeenBefore(h, s, i))

\* full_clean refuses the row.
Invalid(row) == Blocked(row) \/ row.work.time # "some"

\* Mutation of Updated: an approved entry is overwritten, too.
UpdatedAnyway(e, row, flag) == IF Invalid(row) THEN Nil ELSE Entry(row, flag)

\* What becomes of the entry, or Nil if the row is refused.
Updated(e, row, flag) ==
  IF e.approved THEN [e EXCEPT !.source_metadata = row.work, !.source_change_flag = flag]
  ELSE IF Invalid(row) THEN Nil ELSE Entry(row, flag)

\* d: the entries after the rows before, or Nil after a row was refused.
CommitRow(d, row, w, verdict) ==
  IF d = Nil \/ verdict \in {"error", "skip"} THEN d
  ELSE IF verdict = "update"
  THEN LET e == Updated(d[w], row, IF row.deleted THEN "deleted" ELSE "review_required")
       IN IF e = Nil THEN Nil ELSE [d EXCEPT ![w] = e]
  ELSE IF Duplicate(d, w, Entry(row, "none")) THEN d
  ELSE IF Invalid(row) THEN Nil ELSE [d EXCEPT ![w] = Entry(row, "none")]

\* The rows come in any order; one that is refused rolls all of them back and the
\* call ends with an error.
Commit(t) ==
  /\ At(t, "commit")
  /\ LET h == job[t].row IN
     \E s \in SetToSeqs({w \in Worklogs : PassesFilters(h, w)}) :
       LET d[i \in 0..Len(s)] ==
             IF i = 0 THEN timeentry
             ELSE CommitRow(d[i - 1], h.fetched[s[i]], s[i], Verdict(h, s, i))
           after == d[Len(s)]
       IN IF after = Nil THEN Done(t) /\ UNCHANGED timeentry
          ELSE Take(t, "committed", Nil, h) /\ timeentry' = after
  /\ UNCHANGED <<worklog, mapping, synced, day, clients>>

\* Jira's synchronisation notes when; Tempo's only says it.
Finish(t) ==
  /\ At(t, "committed")
  /\ synced' = IF job[t].row.sync /\ clients.source = "jira" THEN day ELSE synced
  /\ Done(t)
  /\ UNCHANGED <<worklog, mapping, timeentry, day, clients>>

Abort(t) ==
  /\ Fault("rollback") /\ job[t] # Idle /\ Done(t)
  /\ UNCHANGED <<worklog, tables, day, clients>>

-----------------------------------------------------------------------------
(* What reviewers do with an entry, in short.                              *)

Approve(t) ==
  /\ Free(t, "approve")
  /\ \E w \in Worklogs : timeentry[w] # Nil /\ timeentry' = [timeentry EXCEPT ![w].approved = TRUE]
  /\ UNCHANGED <<worklog, mapping, synced, day, job, clients>>

AcceptCurrent(t) ==
  /\ Free(t, "review")
  /\ \E w \in Worklogs :
       /\ timeentry[w] # Nil
       /\ timeentry' = [timeentry EXCEPT ![w].source_change_flag = "none"]
  /\ UNCHANGED <<worklog, mapping, synced, day, job, clients>>

-----------------------------------------------------------------------------
Start ==
  /\ worklog = [w \in Worklogs |-> Nil] /\ timeentry = [w \in Worklogs |-> Nil]
  /\ mapping = [k \in Kinds |->
       IF /\ clients.area = "worklogs" /\ k \in clients.kinds
          /\ {"map", "adopt"} \cap clients.calls = {}
       THEN [target |-> CHOOSE x \in Targets(k) : TRUE, is_active |-> TRUE] ELSE Nil]
  /\ synced = Nil /\ day = 0

Init == Begin /\ Start

Next ==
  \/ NextDay
  \/ \E t \in Threads :
       \/ Log(t) \/ EditSource(t) \/ RemoveSource(t)
       \/ SaveJiraMapping(t) \/ SaveTempoMapping(t) \/ Adopt(t)
       \/ JiraSync(t) \/ TempoSync(t) \/ JiraImport(t) \/ TempoImport(t)
       \/ Fetch(t) \/ Commit(t) \/ Finish(t) \/ Abort(t) \/ Approve(t) \/ AcceptCurrent(t)

Spec == Init /\ [][Next]_vars
-----------------------------------------------------------------------------
(* Properties.                                                             *)

\* Every row is in its columns' range.
TypeOK ==
  /\ worklog \in [Worklogs -> Works \cup {Nil}] /\ mapping \in [Kinds -> Mappings \cup {Nil}]
  /\ timeentry \in [Worklogs -> Entries \cup {Nil}]
  /\ synced \in Days \cup {Nil} /\ day \in Days

\* However worklogs are edited into each other, Tempo's imports never make two entries
\* that say the same.  (Two Jira worklogs that are edited alike before one import are
\* both updated: that preview does not look at its other rows.)
NoTwins ==
  clients.source = "tempo" =>
    \A w \in Worklogs : timeentry[w] # Nil => ~Duplicate(timeentry, w, timeentry[w])

\* An import that ends leaves every worklog it has fetched with an entry that says
\* what the worklog said, or that is approved and marked for review, unless something
\* else says the same or it could not be mapped; a deleted one is marked.
CommitTellsSource ==
  [][\A t \in Threads :
       At(t, "commit") /\ At(t, "committed")' =>
         LET h == job[t].row IN
         \A w \in Worklogs :
           PassesFilters(h, w) /\ ~Blocked(h.fetched[w]) =>
             LET row == h.fetched[w]
                 e == timeentry'[w]
             IN \/ Duplicate(timeentry, w, Entry(row, "none"))
                \/ Duplicate(timeentry', w, Entry(row, "none"))
                \/ /\ e # Nil /\ e.source_metadata = row.work
                   /\ IF timeentry[w] # Nil /\ timeentry[w].approved
                      THEN e.approved /\ Fingerprint(e) = Fingerprint(timeentry[w])
                      ELSE e.work.text = row.work.text /\ e.work.time = row.work.time
                   /\ row.deleted => e.source_change_flag = "deleted"
                   /\ (timeentry[w] # Nil /\ SourceChanged(timeentry[w], row)) =>
                        e.source_change_flag # "none"]_vars

\* Who logs work on its day and always synchronises from where the last
\* synchronisation ended misses no day: the windows leave no gap, as long as no
\* midnight falls within a call and the mappings stay.
NoDayMissed ==
  [][clients.area = "worklogs" /\ {"log_late", "edit", "map", "adopt"} \cap clients.calls = {}
       /\ {"midnight", "rollback"} \cap clients.faults = {} /\ clients.spans = {"some"} =>
       \A t \in Threads :
         At(t, "commit") /\ job[t].row.sync /\ ~At(t, "commit")' =>
           \A w \in Worklogs : job[t].row.fetched[w] # Nil =>
             \/ timeentry'[w] # Nil
             \/ \E v \in Worklogs :
                  timeentry'[v] # Nil /\ timeentry'[v].work = job[t].row.fetched[w].work]_vars

\* What discovery proposes for a Jira issue and for its project agree: once both are
\* adopted the worklogs of the issue go to the project that was proposed, unless the
\* issue was mapped before.
ProposalsAgree ==
  [][\A t \in Threads :
       Adopt(t) /\ clients.source = "jira" /\ mapping["issue"] = Nil /\ Proposed("project") # Nil
         /\ mapping["project"] = Nil =>
           Resolved' = Proposed("project")]_vars
=============================================================================
