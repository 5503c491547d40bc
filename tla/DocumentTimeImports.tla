------------------------ MODULE DocumentTimeImports ------------------------
(***************************************************************************)
(* Time entries imported from an uploaded table: upload, mapping of the    *)
(* columns, preview and commit; and the batches that Jira and Tempo        *)
(* imports leave behind, which the same endpoints accept.                  *)
(*                                                                         *)
(* The views prefetch the rows of a batch before anything else.  Each      *)
(* validation looks for duplicates first and saves its verdicts later;     *)
(* only a commit keeps the rows locked from then on.                       *)
(***************************************************************************)
EXTENDS Naturals, WebThreads

CONSTANTS
  Batches,   \* primary keys; bound on the batches
  RowCount,  \* rows per batch
  MaxEntries, \* bound on the time entries
  Contents,  \* what a row says, as far as the duplicate fingerprint goes
  Bad,       \* a row that cannot be parsed or matched
  Deleted

Calls == {"upload", "external", "map", "preview", "commit", "edit", "delete"}
Positions == 1..RowCount
Entries == 1..MaxEntries  \* primary keys
RowStatuses == {"valid", "error", "skipped", "committed"}
BatchStatuses == {"previewed", "needs_mapping", "partially_committed", "committed", "failed"}

Batch == [mapped : BOOLEAN, status : BatchStatuses,
          says : [Positions -> Contents \cup {Bad}], rows : [Positions -> RowStatuses]]
\* row: batch and position, as in source_external_id
EntryRows == [batch : Batches, row : Positions, content : Contents]

DocumentConstants ==
  /\ RowCount \in Nat \ {0} /\ MaxEntries \in Nat
  /\ Bad \notin Contents
  /\ {Nil, Deleted} \cap (Batch \cup EntryRows) = {} /\ Nil # Deleted

VARIABLES
  batch,  \* TimeImportBatch and its TimeImportRow rows
  entry,  \* TimeEntry
  lock    \* who holds the rows of a batch

vars == <<batch, entry, lock, job, clients>>

-----------------------------------------------------------------------------
Exists(b) == batch[b] \in Batch
Live == {k \in Entries : entry[k] \in EntryRows}
Known == {entry[k].content : k \in Live}
From(b, i) == {k \in Live : entry[k].batch = b /\ entry[k].row = i}
With(r, s) == {i \in Positions : r[i] = s}

\* parse_import_row and the verdict on its messages.
Verdict(mapped, content, known) ==
  IF ~mapped \/ content = Bad THEN "error"
  ELSE IF content \in known THEN "skipped" ELSE "valid"

\* Mutation of Validated: rows that are committed are validated again.
ValidatedAll(b, known) ==
  [i \in Positions |-> Verdict(b.mapped, b.says[i], known)]

Validated(b, known) ==
  [i \in Positions |-> IF b.rows[i] = "committed" THEN "committed"
                       ELSE Verdict(b.mapped, b.says[i], known)]

\* _refresh_batch_counts: status is the one of the copy unless it is decided.
Refreshed(status, r) ==
  IF With(r, "valid") # {} THEN "previewed"
  ELSE IF With(r, "error") # {} THEN "needs_mapping" ELSE status

\* Mutation of Concluded: rows in error are not looked at.
ConcludedAnyway(status, r) ==
  IF With(r, "committed") # {} \/ With(r, "skipped") # {} THEN "committed"
  ELSE IF With(r, "error") # {} THEN "failed" ELSE status

Concluded(status, r) ==
  LET has(s) == With(r, s) # {} IN
  IF has("committed") /\ (has("error") \/ has("skipped")) THEN "partially_committed"
  ELSE IF has("committed") \/ (has("skipped") /\ ~has("error")) THEN "committed"
  ELSE IF has("error") THEN "failed" ELSE status

Uploaded(f, m) ==
  [mapped |-> m, status |-> IF m THEN "previewed" ELSE "needs_mapping",
   says |-> f, rows |-> [i \in Positions |-> "error"]]

\* New entries for the rows R of b, in their order.
Used == Cardinality({k \in Entries : entry[k] # Nil})
KeyOf(R, i) == Used + Cardinality({j \in R : j <= i})

Inserted(b, R) ==
  /\ Used + Cardinality(R) <= MaxEntries
  /\ entry' = [k \in Entries |->
       IF \E i \in R : KeyOf(R, i) = k
       THEN LET i == CHOOSE i \in R : KeyOf(R, i) = k
            IN [batch |-> b, row |-> i, content |-> batch'[b].says[i]]
       ELSE entry[k]]

\* Mutation of Firsts: only entries of earlier imports are duplicates.
FirstsAll(b, R) == {i \in R : b.says[i] # Bad}

\* The first of several rows with one content.
Firsts(b, R) == {i \in R : \A j \in R : j < i => b.says[j] # b.says[i]}

-----------------------------------------------------------------------------
Upload(t) ==
  /\ Free(t, "upload")
  /\ \E b \in clients.batches, f \in clients.files, m \in BOOLEAN :
       /\ batch[b] = Nil
       /\ batch' = [batch EXCEPT ![b] = Uploaded(f, m)]
       /\ Take(t, "preview", b, Uploaded(f, m))
  /\ UNCHANGED <<entry, lock, clients>>

\* A Jira or Tempo import and the batch that records it.  It has no columns.
External(t) ==
  /\ Free(t, "external")
  /\ \E b \in clients.batches, f \in clients.files :
       LET R == Firsts([says |-> f], {i \in Positions : f[i] \notin Known \cup {Bad}})
           bad == {i \in Positions : f[i] = Bad}
       IN /\ batch[b] = Nil
          /\ batch' = [batch EXCEPT ![b] =
               [mapped |-> FALSE, says |-> f,
                status |-> IF bad # {} THEN "partially_committed" ELSE "committed",
                rows |-> [i \in Positions |-> IF i \in bad THEN "error"
                                              ELSE IF i \in R THEN "committed" ELSE "skipped"]]]
          /\ Inserted(b, R)
  /\ UNCHANGED <<lock, job, clients>>

\* The prefetched copy of the batch and its rows.
Load(t) ==
  /\ \E c \in {"map", "preview", "commit"}, b \in Batches :
       /\ Free(t, c) /\ Exists(b)
       /\ Take(t, c, b, batch[b])
  /\ UNCHANGED <<batch, entry, lock, clients>>

MapColumns(t) ==
  /\ At(t, "map")
  /\ \E m \in BOOLEAN :
       LET s == IF m THEN "previewed" ELSE "needs_mapping" IN
       /\ batch' = [batch EXCEPT ![job[t].key].mapped = m, ![job[t].key].status = s]
       /\ job' = [job EXCEPT ![t].call = "preview", ![t].row.mapped = m,
                             ![t].row.status = s]
  /\ UNCHANGED <<entry, lock, clients>>

\* parse_import_row for every row, duplicates among today's entries.
Parse(t) ==
  /\ job[t].call \in {"preview", "commit"}
  /\ job' = [job EXCEPT ![t].call = IF @ = "commit" THEN "commit_save" ELSE "preview_save",
                        ![t].row.rows = Validated(job[t].row, Known)]
  /\ UNCHANGED <<batch, entry, lock, clients>>

\* The verdicts are saved, over whatever the rows have become.
SaveVerdicts(t) ==
  /\ job[t].call \in {"preview_save", "commit_save"}
  /\ LET b == job[t].key
         \* rows that were committed in the copy are not saved
         saved == [i \in Positions |-> IF job[t].row.rows[i] = "committed"
                                       THEN batch[b].rows[i] ELSE job[t].row.rows[i]]
         s == Refreshed(job[t].row.status, saved)
     IN /\ lock[b] = Nil
        /\ \/ /\ At(t, "preview_save")
              /\ batch' = [batch EXCEPT ![b].rows = saved, ![b].status = s]
              /\ Done(t) /\ UNCHANGED lock
           \/ /\ At(t, "commit_save")
              /\ lock' = [lock EXCEPT ![b] = t]
              /\ Take(t, "insert", b, [batch[b] EXCEPT !.rows = saved, !.status = s])
              /\ UNCHANGED batch
  /\ UNCHANGED <<entry, clients>>

\* find_duplicate for every valid row, and one for the rows before it.
Find(t) ==
  /\ At(t, "insert")
  /\ Take(t, "save", job[t].key,
          [job[t].row EXCEPT !.rows = [i \in Positions |->
             LET valid == With(job[t].row.rows, "valid") IN
             IF i \notin valid THEN job[t].row.rows[i]
             ELSE IF job[t].row.says[i] \in Known \/ i \notin Firsts(job[t].row, valid)
             THEN "skipped" ELSE "valid"]])
  /\ UNCHANGED <<batch, entry, lock, clients>>

\* Mutation of Refused: the source of an entry is not unique.
RefusedNever(b, i) == b \notin Batches

\* unique_time_entry_external_source: the row has an entry, whatever it says now.
Refused(b, i) == From(b, i) # {}

Commit(t) ==
  /\ At(t, "save")
  /\ LET b == job[t].key
         r == job[t].row
         verdict == [i \in Positions |-> IF r.rows[i] # "valid" THEN r.rows[i]
                                         ELSE IF Refused(b, i) THEN "error" ELSE "committed"]
     IN /\ batch' = [batch EXCEPT ![b] = [r EXCEPT !.rows = verdict,
                       !.status = Concluded(Refreshed(r.status, verdict), verdict)]]
        /\ Inserted(b, {i \in With(r.rows, "valid") : ~Refused(b, i)})
        /\ lock' = [lock EXCEPT ![b] = Nil]
  /\ Done(t) /\ UNCHANGED clients

Rollback(t) ==
  /\ Fault("rollback") /\ job[t] # Idle
  /\ lock' = [b \in Batches |-> IF lock[b] = t THEN Nil ELSE lock[b]]
  /\ Done(t)
  /\ UNCHANGED <<batch, entry, clients>>

\* Somebody edits or deletes an entry that was imported.
EditEntry(t) ==
  /\ Free(t, "edit")
  /\ \E k \in Live, c \in Contents : entry' = [entry EXCEPT ![k].content = c]
  /\ UNCHANGED <<batch, lock, job, clients>>

DeleteEntry(t) ==
  /\ Free(t, "delete")
  /\ \E k \in Live : entry' = [entry EXCEPT ![k] = Deleted]
  /\ UNCHANGED <<batch, lock, job, clients>>

-----------------------------------------------------------------------------
Start ==
  /\ batch = [b \in Batches |-> Nil]
  /\ entry = [k \in Entries |-> Nil]
  /\ lock = [b \in Batches |-> Nil]

Init == Start /\ Begin

Next == \E t \in Threads :
  \/ Upload(t) \/ External(t) \/ Load(t) \/ MapColumns(t) \/ Parse(t)
  \/ SaveVerdicts(t) \/ Find(t) \/ Commit(t) \/ Rollback(t)
  \/ EditEntry(t) \/ DeleteEntry(t)

Spec == Init /\ [][Next]_vars

-----------------------------------------------------------------------------
(* Properties.                                                             *)

\* Batches, rows and entries are in their columns' range, whatever validations and
\* commits race.
TypeOK ==
  /\ batch \in [Batches -> Batch \cup {Nil}]
  /\ entry \in [Entries -> EntryRows \cup {Nil, Deleted}]
  /\ lock \in [Batches -> Threads \cup {Nil}]

\* However commits of one batch race with each other and with previews that
\* overwrite their verdicts, a row of a table becomes one time entry.
RowImportedOnce ==
  \A b \in Batches, i \in Positions : Cardinality(From(b, i)) <= 1

\* One call at a time, whatever is imported again, from another table or from
\* Jira, no two entries say the same.
NoDuplicateEntries ==
  OneAtATime /\ "edit" \notin clients.calls =>
    \A k, l \in Live : entry[k].content = entry[l].content => k = l

\* One call at a time, a batch that is shown as committed has nothing left to
\* commit or to correct.
BatchTellsRows ==
  OneAtATime /\ AllIdle =>
    \A b \in Batches : Exists(b) /\ batch[b].status = "committed" =>
      With(batch[b].rows, "valid") \cup With(batch[b].rows, "error") = {}

\* One call at a time, what was committed is never up for import again.
CommittedRowStays ==
  [][OneAtATime =>
      \A b \in Batches : Exists(b) =>
        With(batch[b].rows, "committed") \subseteq With(batch'[b].rows, "committed")]_vars
=============================================================================
