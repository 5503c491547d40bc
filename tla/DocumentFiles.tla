---------------------------- MODULE DocumentFiles ----------------------------
(***************************************************************************)
(* Managed documents: their rows, and their files in a storage that knows  *)
(* nothing of transactions.  An upload stores the file before it inserts   *)
(* the row; a deletion removes the file before it deletes the row, and     *)
(* takes the storage's errors for nothing.                                 *)
(***************************************************************************)
EXTENDS WebThreads

CONSTANTS
  Documents,  \* primary keys
  Keys,       \* file keys; bound on the names the storage finds
  Deleted

Calls == {"upload", "delete", "bulk_delete", "archive", "unarchive", "bulk_archive", "visibility"}
Faults == {"crash", "storage", "rollback"}

Rows == [file_key : Keys, archived : BOOLEAN, visibility_scope : {"roles", "only_me"}]

DocumentConstants ==
  /\ {Nil, Deleted} \cap (Rows \cup Documents) = {} /\ Nil # Deleted
  \* Clients also say the documents there may be, the names of their files, and
  \* whether the storage overwrites (AWS_S3_FILE_OVERWRITE) or finds another.
  /\ \A c \in Clients : c.area = "files" =>
       c.documents \subseteq Documents /\ c.names \subseteq Keys /\ c.overwrite \in BOOLEAN

VARIABLES
  document, \* Document
  stored    \* file key -> the document it was uploaded for, or Nil

vars == <<document, stored, job, clients>>

-----------------------------------------------------------------------------
Live == {d \in Documents : document[d] \in Rows}
Unused(d) == document[d] = Nil /\ \A t \in Threads : job[t].key # d

\* The key default_storage.save chooses for a name.
Available(name) ==
  IF clients.overwrite \/ stored[name] = Nil THEN {name} ELSE {k \in Keys : stored[k] = Nil}

\* save(update_fields) raises an error when the row is gone.
Save(d, row) ==
  document' = IF d \in Live THEN [document EXCEPT ![d] = row] ELSE document

-----------------------------------------------------------------------------
(* Uploads.                                                                *)

SaveFile(t) ==
  /\ Free(t, "upload")
  /\ \E d \in clients.documents, name \in clients.names : \E k \in Available(name) :
       /\ Unused(d)
       /\ stored' = [stored EXCEPT ![k] = d]
       /\ Take(t, "insert", d, k)
  /\ UNCHANGED <<document, clients>>

Insert(t) ==
  /\ At(t, "insert")
  /\ \E s \in {"roles", "only_me"} :
       document' = [document EXCEPT ![job[t].key] =
                      [file_key |-> job[t].row, archived |-> FALSE, visibility_scope |-> s]]
  /\ Done(t)
  /\ UNCHANGED <<stored, clients>>

-----------------------------------------------------------------------------
(* Deletions.                                                              *)

\* hard_delete_document, alone.
Load(t) ==
  /\ Free(t, "delete")
  /\ \E d \in Live : Take(t, "unlink", d, document[d])
  /\ UNCHANGED <<document, stored, clients>>

\* Best effort.
Removed(k) ==
  \/ stored' = [stored EXCEPT ![k] = Nil]
  \/ Fault("storage") /\ UNCHANGED stored

\* Mutation of DeleteFile: the row is all that is deleted.
DeleteFileNot(t) ==
  /\ At(t, "unlink")
  /\ Take(t, "delete", job[t].key, job[t].row)
  /\ UNCHANGED <<document, stored, clients>>

DeleteFile(t) ==
  /\ At(t, "unlink")
  /\ Removed(job[t].row.file_key)
  /\ Take(t, "delete", job[t].key, job[t].row)
  /\ UNCHANGED <<document, clients>>

DeleteRow(t) ==
  /\ At(t, "delete")
  /\ document' = [document EXCEPT ![job[t].key] = Deleted]
  /\ Done(t)
  /\ UNCHANGED <<stored, clients>>

\* bulk_hard_delete: the files one by one, the rows with the commit.
LoadBulk(t) ==
  /\ Free(t, "bulk_delete")
  /\ \E D \in SUBSET Live \ {{}} :
       Take(t, "bulk", D, [left |-> D, copy |-> [d \in D |-> document[d]]])
  /\ UNCHANGED <<document, stored, clients>>

BulkDeleteFile(t) ==
  /\ At(t, "bulk")
  /\ \E d \in job[t].row.left :
       /\ Removed(job[t].row.copy[d].file_key)
       /\ job' = [job EXCEPT ![t].row.left = @ \ {d}]
  /\ UNCHANGED <<document, clients>>

\* Mutation of BulkDeleteRows: outside of a transaction, what failed is left.
BulkDeleteRowsLoose(t) ==
  /\ At(t, "bulk") /\ job[t].row.left = {}
  /\ \E D \in SUBSET job[t].key :
       document' = [d \in Documents |-> IF d \in D THEN Deleted ELSE document[d]]
  /\ Done(t)
  /\ UNCHANGED <<stored, clients>>

BulkDeleteRows(t) ==
  /\ At(t, "bulk") /\ job[t].row.left = {}
  /\ document' = [d \in Documents |-> IF d \in job[t].key THEN Deleted ELSE document[d]]
  /\ Done(t)
  /\ UNCHANGED <<stored, clients>>

\* The transaction is rolled back, and the files do not come back.
BulkRollBack(t) ==
  /\ At(t, "bulk") /\ Fault("rollback")
  /\ Done(t)
  /\ UNCHANGED <<document, stored, clients>>

-----------------------------------------------------------------------------
(* Archives and visibility.                                                *)

LoadChange(t) ==
  /\ \E c \in {"archive", "unarchive", "visibility"}, d \in Live :
       /\ Free(t, c)
       /\ c = "archive" => ~document[d].archived
       /\ c = "unarchive" => document[d].archived
       /\ Take(t, c, d, document[d])
  /\ UNCHANGED <<document, stored, clients>>

SaveArchived(t) ==
  /\ job[t].call \in {"archive", "unarchive"}
  /\ LET d == job[t].key IN
       Save(d, [document[d] EXCEPT !.archived = At(t, "archive")])
  /\ Done(t)
  /\ UNCHANGED <<stored, clients>>

\* Mutation of SaveVisibility: the whole copy is saved.
SaveVisibilityWhole(t) ==
  /\ At(t, "visibility")
  /\ \E s \in {"roles", "only_me"} :
       Save(job[t].key, [job[t].row EXCEPT !.visibility_scope = s])
  /\ Done(t)
  /\ UNCHANGED <<stored, clients>>

SaveVisibility(t) ==
  /\ At(t, "visibility")
  /\ LET d == job[t].key IN
       \E s \in {"roles", "only_me"} :
         Save(d, [document[d] EXCEPT !.visibility_scope = s])
  /\ Done(t)
  /\ UNCHANGED <<stored, clients>>

\* bulk_archive: an UPDATE that finds no row undoes those before it.
LoadBulkArchive(t) ==
  /\ Free(t, "bulk_archive")
  /\ \E D \in SUBSET Live \ {{}} :
       Take(t, "bulk_archive", D, {d \in D : ~document[d].archived})
  /\ UNCHANGED <<document, stored, clients>>

BulkArchive(t) ==
  /\ At(t, "bulk_archive")
  /\ document' = IF job[t].row \subseteq Live
                 THEN [d \in Documents |-> IF d \in job[t].row
                                           THEN [document[d] EXCEPT !.archived = TRUE]
                                           ELSE document[d]]
                 ELSE document
  /\ Done(t)
  /\ UNCHANGED <<stored, clients>>

Crash(t) ==
  /\ Fault("crash") /\ job[t] # Idle
  /\ Done(t)
  /\ UNCHANGED <<document, stored, clients>>

-----------------------------------------------------------------------------
Start ==
  /\ document = [d \in Documents |-> Nil]
  /\ stored = [k \in Keys |-> Nil]

Init == Start /\ Begin

Next == \E t \in Threads :
  \/ SaveFile(t) \/ Insert(t) \/ Load(t) \/ DeleteFile(t) \/ DeleteRow(t)
  \/ LoadBulk(t) \/ BulkDeleteFile(t) \/ BulkDeleteRows(t) \/ BulkRollBack(t)
  \/ LoadChange(t) \/ SaveArchived(t) \/ SaveVisibility(t)
  \/ LoadBulkArchive(t) \/ BulkArchive(t) \/ Crash(t)

Spec == Init /\ [][Next]_vars

-----------------------------------------------------------------------------
(* Properties.                                                             *)

\* Rows and files are in their range, whatever copies uploads, archives and deletions
\* save over each other.
TypeOK ==
  /\ document \in [Documents -> Rows \cup {Nil, Deleted}]
  /\ stored \in [Keys -> Documents \cup {Nil}]

\* One call at a time, in a storage that finds another name for a file whose
\* name is taken, and if nothing fails: every document has the file that was
\* uploaded for it, and no file is without its document.
FilesFollowRows ==
  OneAtATime /\ clients.faults = {} /\ ~clients.overwrite /\ AllIdle =>
    /\ \A d \in Live : stored[document[d].file_key] = d
    /\ \A k \in Keys : stored[k] # Nil => stored[k] \in Live

\* Whatever fails and however the calls race, the rows of a bulk deletion go
\* together or not at all.
BulkDeletionIsWhole ==
  [][\A t \in Threads :
       At(t, "bulk") /\ job'[t] = Idle
       => \/ document' = document
          \/ \A d \in job[t].key : document'[d] = Deleted]_vars

\* An archived document leaves the archive by nothing but a restore or a
\* deletion: no other change that was under way brings it back.
ArchivedUntilRestored ==
  [][\A d \in Live :
       document[d].archived /\ document'[d] \in Rows /\ ~document'[d].archived
       => \E t \in Threads : At(t, "unarchive") /\ job[t].key = d]_vars
=============================================================================
