----------------------------- MODULE TimeEntries -----------------------------
(***************************************************************************)
(* The timesheet of one employee for one week, and the imports of Jira and *)
(* Tempo worklogs that write to it.                                        *)
(*                                                                         *)
(* Submitting a week locks its entries.  Every other call loads an entry   *)
(* without a lock, checks that copy and saves it: whole, or some columns.  *)
(* An import reads the entries it may change one by one and writes in the  *)
(* same transaction, unlocked too.                                         *)
(***************************************************************************)
EXTENDS Naturals, TLC

CONSTANTS
  Entries,    \* primary keys of TimeEntry rows; bound on those created
  Worklogs,   \* worklogs of the external source
  Threads,
  Values,     \* project, task, date, hours and notes: what the fingerprint
              \* of an entry is made of, and what a worklog is compared by
  Weekend,    \* the values dated on a Saturday or Sunday
  Clients,    \* who may be calling: threads, calls, keys they create, and
              \* statuses that their bodies of POST and PATCH name
  Manual, NoRow, Deleted, Gone

Statuses == {"draft", "submitted", "approved", "rejected"}
Flags == {"none", "review_required", "deleted"}

AssistantCalls == {"assistant_approve", "assistant_reject"}
Decisions == {"approve", "reject"}
Resolutions == {"accept_current", "apply_source"}
Calls == Decisions \cup Resolutions \cup AssistantCalls
  \cup {"create", "edit", "delete", "submit", "import"}

\* value is the content of an entry; seen and flag are its source_metadata:
\* what the source said last, and whether a change waits for review.
\* approved, rejected and submitted tell whether the time stamp is set.
Rows == [source : Worklogs \cup {Manual}, status : Statuses, value : Values,
         seen : Values, flag : Flags, submitted : BOOLEAN,
         approved : BOOLEAN, rejected : BOOLEAN]

ASSUME TimeConstants ==
  /\ Weekend \subseteq Values
  /\ Clients \subseteq [threads : SUBSET Threads, calls : SUBSET Calls,
                        keys : SUBSET Entries, statuses : SUBSET Statuses]

ASSUME TimeNulls ==
  /\ {NoRow, Deleted} \cap (Rows \cup Entries) = {}
  /\ NoRow # Deleted
  /\ Manual \notin Worklogs /\ Gone \notin Values

VARIABLES
  entry,     \* the TimeEntry table
  worklog,   \* the external source: what a worklog says, or Gone
  job,       \* thread -> the call it serves and the copy it holds
  clients    \* which clients there are; never changes

vars == <<entry, worklog, job, clients>>

\* row is a copy of the entry `key'.  An import holds the worklog it writes,
\* what the source said of it, and the flag that an existing entry will get.
Idle == [call |-> "none", key |-> NoRow, row |-> NoRow,
         worklog |-> Manual, said |-> Gone, flag |-> "none"]

-----------------------------------------------------------------------------
Live == {i \in Entries : entry[i] \in Rows}
From(w) == {i \in Live : entry[i].source = w}

\* find_duplicate, for a copy with the primary key k
Duplicate(k, v) == \E i \in Live \ {k} : entry[i].value = v

\* unique_time_entry_external_source
Unique(k, r) == r.source # Manual => From(r.source) \subseteq {k}

NewRow(source, s, v) ==
  [source |-> source, status |-> s, value |-> v, seen |-> v, flag |-> "none",
   submitted |-> FALSE, approved |-> FALSE, rejected |-> FALSE]

Free(t, c) == job[t] = Idle /\ t \in clients.threads /\ c \in clients.calls
Take(t, c, k, r) ==
  job' = [job EXCEPT ![t] = [call |-> c, key |-> k, row |-> r,
                             worklog |-> Manual, said |-> Gone, flag |-> "none"]]
Done(t) == job' = [job EXCEPT ![t] = Idle]
Reads == UNCHANGED <<entry, worklog, clients>>
Others == UNCHANGED <<worklog, clients>>

\* save(): every column, inserted again if the row was deleted meanwhile
SaveCopy(t, r) ==
  /\ Unique(job[t].key, r)
  /\ entry' = [entry EXCEPT ![job[t].key] = r]
  /\ Done(t) /\ Others

\* save(update_fields): fails on a row that was deleted meanwhile
SaveFields(t, r) ==
  /\ job[t].key \in Live
  /\ entry' = [entry EXCEPT ![job[t].key] = r]
  /\ Done(t) /\ Others

-----------------------------------------------------------------------------
(* Entries and their approval.                                             *)

\* POST saves first and asks afterwards whether the caller may edit the entry;
\* if not, and that is always so for an approved one, it is deleted again.
Create(t) ==
  /\ Free(t, "create")
  /\ \E i \in clients.keys, source \in Worklogs \cup {Manual},
        s \in clients.statuses \cup {"draft"}, v \in Values \ Weekend :
       /\ entry[i] = NoRow
       /\ Unique(i, NewRow(source, s, v))
       /\ entry' = [entry EXCEPT ![i] = NewRow(source, s, v)]
       /\ \/ s # "approved" /\ UNCHANGED job
          \/ Take(t, "undo", i, NoRow)
  /\ Others

\* The two reads of an update: the copy that will be saved, with the body
\* written into it, and the one that the permission is checked on.
EditLoad(t) ==
  /\ Free(t, "edit")
  /\ \E i \in Live, v \in Values \ Weekend :
       \E s \in clients.statuses \cup {entry[i].status} :
         Take(t, "edit", i, [entry[i] EXCEPT !.value = v, !.status = s])
  /\ Reads

EditCheck(t) ==
  /\ job[t].call = "edit"
  /\ job[t].key \in Live /\ entry[job[t].key].status # "approved"
  /\ Take(t, "save", job[t].key, job[t].row)
  /\ Reads

EditSave(t) == job[t].call = "save" /\ SaveCopy(t, job[t].row)

DeleteLoad(t) ==
  /\ Free(t, "delete")
  /\ \E i \in Live :
       /\ entry[i].source = Manual => entry[i].status \in {"draft", "rejected"}
       /\ Take(t, "delete", i, NoRow)
  /\ Reads

Delete(t) ==
  /\ job[t].call \in {"delete", "undo"}
  /\ entry' = [entry EXCEPT ![job[t].key] = Deleted]
  /\ Done(t) /\ Others

\* submit_entries_for_week: the entries are locked as they are read
Submit(t) ==
  /\ Free(t, "submit")
  /\ LET week == {i \in Live : /\ entry[i].status \in {"draft", "rejected"}
                               /\ entry[i].value \notin Weekend}
     IN entry' = [i \in Entries |->
          IF i \in week
          THEN [entry[i] EXCEPT !.status = "submitted", !.submitted = TRUE,
                                !.rejected = FALSE]
          ELSE entry[i]]
  /\ UNCHANGED job /\ Others

DecideLoad(t) ==
  /\ \E c \in Decisions, i \in Live :
       /\ Free(t, c)
       /\ entry[i].status = "submitted"
       /\ Take(t, c, i, entry[i])
  /\ Reads

\* Mutation of Approve: a status that is none of the choices.
ApproveMisspelt(t) ==
  /\ job[t].call = "approve"
  /\ SaveCopy(t, [job[t].row EXCEPT !.status = "accepted", !.approved = TRUE])

\* Mutation of Approve: only the columns that change are saved.
ApproveFields(t) ==
  /\ job[t].call = "approve"
  /\ SaveFields(t, [entry[job[t].key] EXCEPT !.status = "approved",
                                             !.approved = TRUE])

Approve(t) ==
  /\ job[t].call = "approve"
  /\ SaveCopy(t, [job[t].row EXCEPT !.status = "approved", !.approved = TRUE,
                                    !.rejected = FALSE])

Reject(t) ==
  /\ job[t].call = "reject"
  /\ SaveCopy(t, [job[t].row EXCEPT !.status = "rejected", !.rejected = TRUE,
                                    !.approved = FALSE])

\* The assistant looks at no status and sets no time stamp.
AssistantDecide(t) ==
  /\ \E i \in Live :
       \/ /\ Free(t, "assistant_approve")
          /\ entry' = [entry EXCEPT ![i].status = "approved"]
       \/ /\ Free(t, "assistant_reject")
          /\ entry' = [entry EXCEPT ![i].status = "rejected"]
  /\ UNCHANGED job /\ Others

-----------------------------------------------------------------------------
(* Imports of worklogs, one at a time, and the review of their changes.    *)

SourceChanges ==
  /\ \E w \in Worklogs, v \in Values \cup {Gone} :
       worklog[w] # Gone /\ worklog' = [worklog EXCEPT ![w] = v]
  /\ UNCHANGED <<entry, job, clients>>

Imports(t, w, v, f) ==
  job' = [job EXCEPT ![t] = [call |-> "import", key |-> NoRow, row |-> NoRow,
                             worklog |-> w, said |-> v, flag |-> f]]

\* Worklogs deleted in Jira are reported with what their entries recorded.
ImportFetch(t) ==
  /\ Free(t, "import")
  /\ \E w \in Worklogs :
       \/ worklog[w] # Gone /\ Imports(t, w, worklog[w], "review_required")
       \/ /\ worklog[w] = Gone
          /\ \E i \in From(w) : Imports(t, w, entry[i].seen, "deleted")
  /\ Reads

\* What the preview does not skip.
ImportPreview(t) ==
  /\ job[t].call = "import"
  /\ ~\E i \in Live \ From(job[t].worklog) : entry[i].value = job[t].said
  /\ \A i \in From(job[t].worklog) :
       job[t].flag = "deleted" \/ entry[i].seen # job[t].said
  /\ job' = [job EXCEPT ![t].call = "commit"]
  /\ Reads

\* The query for the existing entry, or else for a duplicate of the new one.
ImportRead(t) ==
  /\ job[t].call = "commit"
  /\ \/ \E i \in From(job[t].worklog) :
          job' = [job EXCEPT ![t].call = "write", ![t].key = i,
                             ![t].row = entry[i]]
     \/ /\ From(job[t].worklog) = {}
        /\ ~Duplicate(NoRow, job[t].said)
        /\ job' = [job EXCEPT ![t].call = "insert"]
  /\ Reads

\* An approved entry keeps its content; the metadata is merged and saved.
ImportFlag(t) ==
  /\ job[t].call = "write" /\ job[t].row.status = "approved"
  /\ SaveFields(t, [entry[job[t].key] EXCEPT !.seen = job[t].said,
                                             !.flag = job[t].flag])

Overwritten(t) ==
  [job[t].row EXCEPT !.value = job[t].said, !.seen = job[t].said,
                     !.flag = job[t].flag]

\* Mutation of ImportOverwrite: whatever the status of the entry.
ImportOverwriteAny(t) ==
  job[t].call = "write" /\ SaveCopy(t, Overwritten(t))

ImportOverwrite(t) ==
  /\ job[t].call = "write" /\ job[t].row.status # "approved"
  /\ SaveCopy(t, Overwritten(t))

ImportInsert(t) ==
  /\ job[t].call = "insert"
  /\ LET r == NewRow(job[t].worklog, "draft", job[t].said) IN
       \E i \in clients.keys :
         /\ entry[i] = NoRow /\ Unique(i, r)
         /\ entry' = [entry EXCEPT ![i] = r]
  /\ Done(t) /\ Others

ResolveLoad(t) ==
  /\ \E c \in Resolutions, i \in Live :
       /\ Free(t, c)
       /\ c = "apply_source" => entry[i].status # "approved"
       /\ Take(t, c, i, entry[i])
  /\ Reads

\* The metadata of the copy, the flag taken off.
AcceptCurrent(t) ==
  /\ job[t].call = "accept_current"
  /\ SaveFields(t, [entry[job[t].key] EXCEPT !.seen = job[t].row.seen,
                                             !.flag = "none"])

\* Nothing writes the source_pending_update that would be applied here.
ApplySource(t) ==
  /\ job[t].call = "apply_source"
  /\ SaveCopy(t, [job[t].row EXCEPT !.flag = "none"])

\* A check that fails, a duplicate, an exception, a dead worker.
Abort(t) == job[t] # Idle /\ Done(t) /\ Reads

-----------------------------------------------------------------------------
Init ==
  /\ entry = [i \in Entries |-> NoRow]
  /\ worklog \in [Worklogs -> Values]
  /\ job = [t \in Threads |-> Idle]
  /\ clients \in Clients

EntryStep(t) ==
  \/ Create(t) \/ EditLoad(t) \/ EditCheck(t) \/ EditSave(t)
  \/ DeleteLoad(t) \/ Delete(t) \/ Submit(t)
  \/ DecideLoad(t) \/ Approve(t) \/ Reject(t) \/ AssistantDecide(t)

ImportStep(t) ==
  \/ ImportFetch(t) \/ ImportPreview(t) \/ ImportRead(t)
  \/ ImportFlag(t) \/ ImportOverwrite(t) \/ ImportInsert(t)
  \/ ResolveLoad(t) \/ AcceptCurrent(t) \/ ApplySource(t)

Next == SourceChanges \/ \E t \in Threads : EntryStep(t) \/ ImportStep(t) \/ Abort(t)

Spec == Init /\ [][Next]_vars

-----------------------------------------------------------------------------
(* Properties.                                                             *)

\* Entries, worklogs and the copies held keep their range, whatever is saved or imported.
TypeOK ==
  /\ entry \in [Entries -> Rows \cup {NoRow, Deleted}]
  /\ worklog \in [Worklogs -> Values \cup {Gone}]
  /\ clients \in Clients

OneAtATime == \A t, u \in clients.threads : t = u

\* The web, and no body that writes a status.
PlainWeb == clients.calls \cap AssistantCalls = {} /\ clients.statuses = {}

Stamped(r) ==
  /\ r.approved <=> r.status = "approved"
  /\ r.rejected <=> r.status = "rejected"
  /\ r.status # "draft" => r.submitted

\* The decision that an entry shows and the stamps of who decided agree,
\* however edits, submissions, two reviewers and imports overwrite each other:
\* no entry is approved that was never submitted.
StampsTellStatus == PlainWeb => \A i \in Live : Stamped(entry[i])

FollowsWorkflow(r, q) ==
  \/ q.status = r.status /\ (r.status = "approved" => q.value = r.value)
  \/ /\ q.value = r.value
     /\ <<r.status, q.status>> \in
          {<<"draft", "submitted">>, <<"rejected", "submitted">>,
           <<"submitted", "approved">>, <<"submitted", "rejected">>}

\* One call at a time, what a reviewer approved is neither edited nor
\* overwritten by its source, and a decision is only made on what was
\* submitted; a deleted entry does not come back.
EntriesFollowWorkflow ==
  [][OneAtATime /\ PlainWeb =>
       \A i \in Entries :
         /\ entry[i] \in Rows /\ entry'[i] \in Rows =>
              FollowsWorkflow(entry[i], entry'[i])
         /\ entry[i] = Deleted => entry'[i] = Deleted]_vars
-----------------------------------------------------------------------------
(* The instance that TLC checks.                                           *)

\* One web client with two entries; one of the web and the assistant whose
\* bodies name statuses; two web clients on one entry, and the same with
\* imports.
MCClients ==
  {[threads |-> {t}, keys |-> Entries, statuses |-> {},
    calls |-> Calls \ AssistantCalls] : t \in Threads}
  \cup
  {[threads |-> {t}, keys |-> {e}, statuses |-> Statuses,
    calls |-> Calls] : t \in Threads, e \in Entries}
  \cup
  {[threads |-> Threads, keys |-> {e}, statuses |-> {},
    calls |-> {"create", "edit", "submit", "approve", "reject", "delete"}] :
     e \in Entries}
  \cup
  {[threads |-> Threads, keys |-> {e}, statuses |-> {},
    calls |-> {"submit", "approve", "reject", "import", "accept_current",
               "apply_source"}] : e \in Entries}

\* TLC need not tell entries, threads and values of working days apart.
TimeSymmetry ==
  Permutations(Entries) \cup Permutations(Threads)
    \cup Permutations(Values \ Weekend)
=============================================================================
