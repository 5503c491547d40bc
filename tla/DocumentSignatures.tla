------------------------- MODULE DocumentSignatures -------------------------
(***************************************************************************)
(* The e-signature workflow of one document: the Document row, its         *)
(* DocumentSigner rows and its signature audit log.                        *)
(*                                                                         *)
(* A view loads the document (and the signer) without a lock and checks    *)
(* that copy; the service then takes the row lock of the document          *)
(* (select_for_update), reads everything again, checks it again and        *)
(* commits.  A transaction is two steps: Lock, which reads, and the step   *)
(* named after the service, which commits all its writes.  archive and     *)
(* unarchive take no lock of their own, but their UPDATE waits for it.     *)
(***************************************************************************)
EXTENDS Naturals
LOCAL INSTANCE TLC

CONSTANTS
  SignerIds,   \* primary keys of DocumentSigner rows; bound on those created
  Emails,      \* e-mail addresses of active users, in lower case
  Threads,     \* web threads
  NoSigner,    \* primary key not used yet
  Deleted,     \* primary key whose row was deleted
  NoId, NoThread

SignerStatuses == {"pending", "signed", "rejected"}
Verdicts == {"not_required", "pending", "signed", "rejected"}
Events == {"requested", "signed", "rejected", "reminded"}
Calls == {"request", "sign", "reject", "reset", "remind", "archive",
          "unarchive"}

Signers == [email : Emails, status : SignerStatuses]
Tables == [SignerIds -> Signers \cup {NoSigner, Deleted}]
Documents == [status : Verdicts, archived : BOOLEAN]

ASSUME SignatureNulls ==
  /\ NoSigner \notin Signers /\ Deleted \notin Signers /\ NoSigner # Deleted
  /\ NoId \notin SignerIds /\ NoThread \notin Threads

VARIABLES
  doc,      \* the Document row
  signer,   \* the DocumentSigner table
  audit,    \* DocumentSignatureAuditLog: the events and the signer of each
  lock,     \* the thread that holds the document's row lock
  job       \* thread -> the call it serves and the copies it holds

vars == <<doc, signer, audit, lock, job>>

NewTable == [i \in SignerIds |-> NoSigner]
NewDocument == [status |-> "not_required", archived |-> FALSE]

Jobs == [call : Calls \cup {"none"},
         at   : {"idle", "loaded", "locked"},
         id   : SignerIds \cup {NoId},   \* the signer that the view found
         doc  : Documents,               \* the document as last read
         signer : Tables]                \* the signers as read under the lock

Idle == [call |-> "none", at |-> "idle", id |-> NoId, doc |-> NewDocument,
         signer |-> NewTable]

-----------------------------------------------------------------------------
Current(table) == {i \in SignerIds : table[i] \in Signers}
WithStatus(table, status) == {i \in Current(table) : table[i].status = status}

\* recompute_document_signature_status
StatusOf(table) ==
  IF Current(table) = {} THEN "not_required"
  ELSE IF WithStatus(table, "rejected") # {} THEN "rejected"
  ELSE IF Current(table) = WithStatus(table, "signed") THEN "signed"
  ELSE "pending"

\* An event is logged about each signer of a set.
Logged(event, ids) == audit \cup {[event |-> event, of |-> i] : i \in ids}

Serves(t, c) == job[t].call = c /\ job[t].at = "locked"

Release(t) == lock' = NoThread /\ job' = [job EXCEPT ![t] = Idle]

-----------------------------------------------------------------------------
(* Views: unlocked reads and the checks made on them.                      *)

Load(t, c) ==
  /\ job[t] = Idle
  /\ c \in {"request", "sign", "archive"} => ~doc.archived
  /\ c = "unarchive" => doc.archived
  /\ \E i \in IF c \in {"sign", "reject"} THEN Current(signer) ELSE {NoId} :
       job' = [job EXCEPT ![t] = [Idle EXCEPT !.call = c, !.at = "loaded",
                                              !.id = i, !.doc = doc]]
  /\ UNCHANGED <<doc, signer, audit, lock>>

-----------------------------------------------------------------------------
(* Services.                                                               *)

\* Mutation of Lock: a plain get() instead of select_for_update().
LockWithoutWaiting(t) ==
  /\ job[t].at = "loaded" /\ job[t].call \notin {"archive", "unarchive"}
  /\ lock' = t
  /\ job' = [job EXCEPT ![t].at = "locked", ![t].doc = doc,
                        ![t].signer = signer]
  /\ UNCHANGED <<doc, signer, audit>>

Lock(t) ==
  /\ job[t].at = "loaded" /\ job[t].call \notin {"archive", "unarchive"}
  /\ lock = NoThread
  /\ lock' = t
  /\ job' = [job EXCEPT ![t].at = "locked", ![t].doc = doc,
                        ![t].signer = signer]
  /\ UNCHANGED <<doc, signer, audit>>

RequestSignatures(t) ==
  /\ Serves(t, "request")
  /\ ~job[t].doc.archived
  /\ job[t].doc.status # "pending"
  /\ WithStatus(job[t].signer, "pending") = {}
  /\ \E asked \in (SUBSET Emails) \ {{}} :
       \E id \in [asked -> {i \in SignerIds : signer[i] = NoSigner}] :
         /\ \A e, f \in asked : e # f => id[e] # id[f]
         /\ signer' = [i \in SignerIds |->
                         IF \E e \in asked : id[e] = i
                         THEN [email |-> CHOOSE e \in asked : id[e] = i,
                               status |-> "pending"]
                         ELSE IF i \in Current(job[t].signer) THEN Deleted
                         ELSE signer[i]]
         /\ audit' = Logged("requested", {id[e] : e \in asked})
  /\ doc' = [doc EXCEPT !.status = "pending"]
  /\ Release(t)

\* save(update_fields) of one signer, then the status of the document computed
\* from the signers that the transaction sees, written when the copy differs.
Settle(t, status) ==
  LET i == job[t].id
      seen == [job[t].signer EXCEPT ![i].status = status]
  IN /\ i \in Current(signer)
     /\ signer' = [signer EXCEPT ![i].status = status]
     /\ audit' = Logged(status, {i})
     /\ doc' = IF StatusOf(seen) # job[t].doc.status
               THEN [doc EXCEPT !.status = StatusOf(seen)] ELSE doc
     /\ Release(t)

\* Mutation of Sign: only the view checks that the document is not archived.
SignUnchecked(t) ==
  /\ Serves(t, "sign")
  /\ job[t].id \in WithStatus(job[t].signer, "pending")
  /\ Settle(t, "signed")

Sign(t) ==
  /\ Serves(t, "sign")
  /\ ~job[t].doc.archived
  /\ job[t].id \in WithStatus(job[t].signer, "pending")
  /\ Settle(t, "signed")

\* A signer who has declined may decline again.
Reject(t) ==
  /\ Serves(t, "reject")
  /\ ~job[t].doc.archived
  /\ job[t].id \in Current(job[t].signer)
  /\ job[t].id \notin WithStatus(job[t].signer, "signed")
  /\ Settle(t, "rejected")

\* Mutation of Reset: the document is marked with a status of the enumeration
\* that no computation yields.
ResetToExpired(t) ==
  /\ Serves(t, "reset")
  /\ signer' = [i \in SignerIds |->
                  IF i \in Current(job[t].signer) THEN Deleted ELSE signer[i]]
  /\ audit' = Logged("rejected", Current(job[t].signer))
  /\ doc' = [doc EXCEPT !.status = "expired"]
  /\ Release(t)

Reset(t) ==
  /\ Serves(t, "reset")
  /\ signer' = [i \in SignerIds |->
                  IF i \in Current(job[t].signer) THEN Deleted ELSE signer[i]]
  /\ audit' = Logged("rejected", Current(job[t].signer))
  /\ doc' = [doc EXCEPT !.status = "not_required"]
  /\ Release(t)

Remind(t) ==
  /\ Serves(t, "remind")
  /\ audit' = Logged("reminded", WithStatus(job[t].signer, "pending"))
  /\ Release(t)
  /\ UNCHANGED <<doc, signer>>

SaveArchived(t) ==
  /\ job[t].at = "loaded" /\ job[t].call \in {"archive", "unarchive"}
  /\ lock = NoThread
  /\ doc' = [doc EXCEPT !.archived = (job[t].call = "archive")]
  /\ job' = [job EXCEPT ![t] = Idle]
  /\ UNCHANGED <<signer, audit, lock>>

\* A check that fails under the lock, an exception, or a dead worker.
Abort(t) ==
  /\ job[t] # Idle
  /\ lock' = IF lock = t THEN NoThread ELSE lock
  /\ job' = [job EXCEPT ![t] = Idle]
  /\ UNCHANGED <<doc, signer, audit>>

-----------------------------------------------------------------------------
Init ==
  /\ doc = NewDocument
  /\ signer = NewTable
  /\ audit = {}
  /\ lock = NoThread
  /\ job = [t \in Threads |-> Idle]

ThreadStep(t) ==
  \/ \E c \in Calls : Load(t, c)
  \/ Lock(t)
  \/ RequestSignatures(t) \/ Sign(t) \/ Reject(t) \/ Reset(t) \/ Remind(t)
  \/ SaveArchived(t)
  \/ Abort(t)

Next == \E t \in Threads : ThreadStep(t)

Spec == Init /\ [][Next]_vars

-----------------------------------------------------------------------------
(* Properties.                                                             *)

\* Document, signers and log are in their columns' range, whichever service ends.
TypeOK ==
  /\ doc \in Documents
  /\ signer \in Tables
  /\ audit \subseteq [event : Events, of : SignerIds]
  /\ lock \in Threads \cup {NoThread}
  /\ job \in [Threads -> Jobs]

\* The status stored in the document is the one its signers make up, in every
\* committed state (recompute_document_signature_status runs on a copy of the
\* document, and writes only when that copy disagrees).
StatusTellsSigners == doc.status = StatusOf(signer)

\* At most one current signer for an address, as `signers.filter(email).first()`
\* of the sign view relies on, although requests may race each other.
OneSignerPerEmail ==
  \A i, j \in Current(signer) : signer[i].email = signer[j].email => i = j

\* The log and the table tell the same story about a current signer: who has
\* signed never declined, and who declined never signed.
LogTellsSigners ==
  \A i \in Current(signer) :
    /\ signer[i].status = "signed" <=> [event |-> "signed", of |-> i] \in audit
    /\ signer[i].status = "rejected" <=> [event |-> "rejected", of |-> i] \in audit

\* "Archived documents cannot be signed", however the archiving is interleaved
\* with a signature whose view saw the document before it was archived.
NothingSignedWhenArchived ==
  [][\A i \in SignerIds :
       i \in WithStatus(signer', "signed") \ WithStatus(signer, "signed")
       => ~doc.archived]_vars

-----------------------------------------------------------------------------
(* The promise of the workflow: each address stands as its current signer. *)

StandingOf(table, e) ==
  IF \E i \in Current(table) : table[i].email = e
  THEN table[CHOOSE i \in Current(table) : table[i].email = e].status
  ELSE "none"

Signing == INSTANCE DocumentSigning WITH
  People <- Emails,
  standing <- [e \in Emails |-> StandingOf(signer, e)],
  verdict <- doc.status

\* The services implement the promise, whatever threads call them together.
ImplementsSigning == Signing!SigningSpec

-----------------------------------------------------------------------------
\* TLC need not tell rows, addresses and threads apart.
SignatureSymmetry ==
  Permutations(SignerIds) \cup Permutations(Emails) \cup Permutations(Threads)
=============================================================================
