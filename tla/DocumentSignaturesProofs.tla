---------------------- MODULE DocumentSignaturesProofs ----------------------
(***************************************************************************)
(* Theorems about DocumentSignatures for every set of signers, addresses   *)
(* and threads.                                                            *)
(*                                                                         *)
(* The inductive invariant is the lock discipline: only the thread that    *)
(* holds the row lock is past Lock, and what it read is still what is      *)
(* stored.  From it each service acts on the current table.                *)
(***************************************************************************)
EXTENDS DocumentSignatures, TLAPS

\* The copies of the thread past Lock are the stored rows.
CopiesAreCurrent ==
  \A t \in Threads :
    job[t].at = "locked" =>
      lock = t /\ job[t].doc = doc /\ job[t].signer = signer

SignatureInv ==
  /\ TypeOK
  /\ CopiesAreCurrent
  /\ StatusTellsSigners
  /\ OneSignerPerEmail

-----------------------------------------------------------------------------
LEMMA IdleIsJob == Idle \in Jobs /\ Idle.at = "idle"
BY DEF Idle, Jobs, NewDocument, NewTable, Documents, Tables, Verdicts

LEMMA StatusIsVerdict == ASSUME NEW table PROVE StatusOf(table) \in Verdicts
BY DEF StatusOf, Verdicts

\* The table that follows a request: one pending signer for each address asked.
LEMMA RequestTable ==
  ASSUME TypeOK, NEW t \in Threads, job[t].signer = signer,
         RequestSignatures(t)
  PROVE  \E asked \in (SUBSET Emails) \ {{}} :
           /\ signer' \in Tables
           /\ \A i \in Current(signer') : signer'[i].status = "pending"
           /\ \A i \in Current(signer') : signer'[i].email \in asked
           /\ \A e \in asked : \E i \in Current(signer') : signer'[i].email = e
           /\ \A i, j \in Current(signer') :
                signer'[i].email = signer'[j].email => i = j
           /\ audit' \subseteq [event : Events, of : SignerIds]
<1>1. PICK asked \in (SUBSET Emails) \ {{}} :
        \E id \in [asked -> {i \in SignerIds : signer[i] = NoSigner}] :
         /\ \A e, f \in asked : e # f => id[e] # id[f]
         /\ signer' = [i \in SignerIds |->
                         IF \E e \in asked : id[e] = i
                         THEN [email |-> CHOOSE e \in asked : id[e] = i,
                               status |-> "pending"]
                         ELSE IF i \in Current(job[t].signer) THEN Deleted
                         ELSE signer[i]]
         /\ audit' = Logged("requested", {id[e] : e \in asked})
  BY DEF RequestSignatures
<1>2. PICK id \in [asked -> {i \in SignerIds : signer[i] = NoSigner}] :
         /\ \A e, f \in asked : e # f => id[e] # id[f]
         /\ signer' = [i \in SignerIds |->
                         IF \E e \in asked : id[e] = i
                         THEN [email |-> CHOOSE e \in asked : id[e] = i,
                               status |-> "pending"]
                         ELSE IF i \in Current(job[t].signer) THEN Deleted
                         ELSE signer[i]]
         /\ audit' = Logged("requested", {id[e] : e \in asked})
  BY <1>1
<1> DEFINE new(i) == CHOOSE e \in asked : id[e] = i
<1>3. ASSUME NEW i \in SignerIds, NEW e \in asked, id[e] = i
      PROVE  signer'[i] = [email |-> e, status |-> "pending"]
  <2>1. new(i) \in asked /\ id[new(i)] = i
    BY <1>3
  <2>2. new(i) = e
    BY <1>2, <1>3, <2>1
  <2> QED
    BY <1>2, <1>3, <2>2
<1>4. ASSUME NEW i \in SignerIds, ~\E e \in asked : id[e] = i
      PROVE  signer'[i] \in {NoSigner, Deleted}
  BY <1>2, <1>4 DEF Current, TypeOK, Tables
<1>5. \A e \in asked : [email |-> e, status |-> "pending"] \in Signers
  BY DEF Signers, SignerStatuses
<1>6. signer' \in Tables
  <2>1. ASSUME NEW i \in SignerIds
        PROVE  signer'[i] \in Signers \cup {NoSigner, Deleted}
    <3>1. CASE \E e \in asked : id[e] = i
      <4>1. PICK e \in asked : id[e] = i
        BY <3>1
      <4>2. signer'[i] = [email |-> e, status |-> "pending"]
        BY <1>3, <4>1
      <4> QED
        BY <1>5, <4>2
    <3>2. CASE ~\E e \in asked : id[e] = i
      BY <1>4, <3>2
    <3> QED
      BY <3>1, <3>2
  <2>2. DOMAIN signer' = SignerIds /\ signer' = [i \in SignerIds |-> signer'[i]]
    BY <1>2
  <2> QED
    BY <2>1, <2>2 DEF Tables
<1>7. \A i \in Current(signer') : \E e \in asked :
         id[e] = i /\ signer'[i] = [email |-> e, status |-> "pending"]
  BY <1>3, <1>4, SignatureNulls DEF Current
<1>8. \A e \in asked : /\ id[e] \in Current(signer')
                       /\ signer'[id[e]] = [email |-> e, status |-> "pending"]
  BY <1>3, <1>5 DEF Current
<1>9. audit' \subseteq [event : Events, of : SignerIds]
  BY <1>2 DEF Logged, TypeOK, Events
<1>10. \A e \in asked : /\ [email |-> e, status |-> "pending"].email = e
                        /\ [email |-> e, status |-> "pending"].status = "pending"
  OBVIOUS
<1>11. \A i, j \in Current(signer') :
         signer'[i].email = signer'[j].email => i = j
  <2> TAKE i, j \in Current(signer')
  <2>1. PICK e \in asked :
          id[e] = i /\ signer'[i] = [email |-> e, status |-> "pending"]
    BY <1>7
  <2>2. PICK f \in asked :
          id[f] = j /\ signer'[j] = [email |-> f, status |-> "pending"]
    BY <1>7
  <2> QED
    BY <2>1, <2>2
<1>12. \A i \in Current(signer') : /\ signer'[i].status = "pending"
                                   /\ signer'[i].email \in asked
  <2> TAKE i \in Current(signer')
  <2>1. PICK e \in asked :
          id[e] = i /\ signer'[i] = [email |-> e, status |-> "pending"]
    BY <1>7
  <2> QED
    BY <2>1
<1>13. \A e \in asked : \E i \in Current(signer') : signer'[i].email = e
  BY <1>8, <1>10
<1> QED
  BY <1>6, <1>9, <1>11, <1>12, <1>13

\* Settling an answer changes the status of one current signer.
LEMMA SettleTable ==
  ASSUME TypeOK, NEW t \in Threads, NEW s \in {"signed", "rejected"},
         Settle(t, s)
  PROVE  /\ job[t].id \in Current(signer)
         /\ signer' \in Tables
         /\ Current(signer') = Current(signer)
         /\ \A i \in Current(signer) : signer'[i].email = signer[i].email
         /\ \A i \in Current(signer) :
              signer'[i].status = IF i = job[t].id THEN s ELSE signer[i].status
         /\ audit' \subseteq [event : Events, of : SignerIds]
<1> DEFINE i == job[t].id
<1>0. i \in Current(signer)
  BY DEF Settle
<1>1. i \in SignerIds /\ signer[i] \in Signers
  BY <1>0 DEF Current
<1>2. signer' = [signer EXCEPT ![i].status = s]
  BY DEF Settle
<1>3. [signer[i] EXCEPT !.status = s] \in Signers
  BY <1>1 DEF Signers, SignerStatuses
<1>4. signer'[i] = [signer[i] EXCEPT !.status = s]
  BY <1>1, <1>2 DEF TypeOK, Tables
<1>5. \A k \in SignerIds \ {i} : signer'[k] = signer[k]
  BY <1>1, <1>2 DEF TypeOK, Tables
<1>6. signer' \in Tables
  BY <1>1, <1>2, <1>3 DEF TypeOK, Tables
<1>7. Current(signer') = Current(signer)
  BY <1>1, <1>3, <1>4, <1>5 DEF Current
<1>8. signer'[i].status = s /\ signer'[i].email = signer[i].email
  BY <1>1, <1>4 DEF Signers
<1>9. audit' \subseteq [event : Events, of : SignerIds]
  BY <1>1 DEF Settle, Logged, TypeOK, Events
<1> QED
  BY <1>0, <1>5, <1>6, <1>7, <1>8, <1>9 DEF Current

\* Deleting every current signer leaves none.
LEMMA ResetTable ==
  ASSUME TypeOK, NEW t \in Threads, job[t].signer = signer, Reset(t)
  PROVE  signer' \in Tables /\ Current(signer') = {}
BY SignatureNulls DEF Reset, TypeOK, Tables, Current

-----------------------------------------------------------------------------
LEMMA SignatureInit == Init => SignatureInv
<1> SUFFICES ASSUME Init PROVE SignatureInv
  OBVIOUS
<1>1. doc \in Documents /\ signer \in Tables
  BY DEF Init, NewDocument, NewTable, Documents, Tables, Verdicts
<1>2. job \in [Threads -> Jobs] /\ \A t \in Threads : job[t].at = "idle"
  BY IdleIsJob DEF Init
<1>3. TypeOK
  BY <1>1, <1>2 DEF Init, TypeOK
<1>4. Current(signer) = {}
  BY SignatureNulls DEF Init, NewTable, Current
<1>5. StatusTellsSigners /\ OneSignerPerEmail
  BY <1>4 DEF StatusTellsSigners, OneSignerPerEmail, StatusOf, Init, NewDocument
<1> QED
  BY <1>2, <1>3, <1>5 DEF SignatureInv, CopiesAreCurrent

\* A thread that commits under the lock: the others are not past Lock, and it
\* leaves.  What remains is the new table and its status.
LEMMA Committed ==
  ASSUME SignatureInv, NEW t \in Threads, job[t].at = "locked", Release(t),
         doc' \in Documents, signer' \in Tables,
         audit' \subseteq [event : Events, of : SignerIds],
         StatusTellsSigners', OneSignerPerEmail'
  PROVE  SignatureInv'
<1>1. lock = t
  BY DEF SignatureInv, CopiesAreCurrent
<1>2. \A u \in Threads \ {t} : job[u].at # "locked"
  BY <1>1 DEF SignatureInv, CopiesAreCurrent
<1>3. /\ job' \in [Threads -> Jobs] /\ job'[t].at = "idle"
      /\ \A u \in Threads \ {t} : job'[u] = job[u]
  BY IdleIsJob DEF Release, SignatureInv, TypeOK
<1>4. TypeOK'
  BY <1>3 DEF Release, TypeOK
<1>5. CopiesAreCurrent'
  BY <1>2, <1>3 DEF CopiesAreCurrent
<1> QED
  BY <1>4, <1>5 DEF SignatureInv

\* A current signer who answers keeps the addresses distinct, and the document
\* shows the status of the new table whether or not it is written again.
LEMMA SettleInv ==
  ASSUME SignatureInv, NEW t \in Threads, job[t].at = "locked",
         NEW s \in {"signed", "rejected"}, Settle(t, s)
  PROVE  SignatureInv'
<1>1. TypeOK /\ job[t].doc = doc /\ job[t].signer = signer
  BY DEF SignatureInv, CopiesAreCurrent
<1>2. /\ signer' \in Tables
      /\ Current(signer') = Current(signer)
      /\ \A i \in Current(signer) : signer'[i].email = signer[i].email
      /\ audit' \subseteq [event : Events, of : SignerIds]
  BY <1>1, SettleTable
<1>3. OneSignerPerEmail'
  BY <1>2 DEF SignatureInv, OneSignerPerEmail
<1>4. doc' = IF StatusOf(signer') # doc.status
             THEN [doc EXCEPT !.status = StatusOf(signer')] ELSE doc
  <2>1. signer' = [job[t].signer EXCEPT ![job[t].id].status = s]
    BY <1>1 DEF Settle
  <2> QED
    BY <1>1, <2>1 DEF Settle
<1>5. doc' \in Documents /\ doc'.status = StatusOf(signer')
  BY <1>1, <1>4, StatusIsVerdict DEF TypeOK, Documents
<1>6. Release(t)
  BY DEF Settle
<1> QED
  BY <1>2, <1>3, <1>5, <1>6, Committed DEF StatusTellsSigners

LEMMA SignatureStep == SignatureInv /\ [Next]_vars => SignatureInv'
<1> SUFFICES ASSUME SignatureInv, [Next]_vars PROVE SignatureInv'
  OBVIOUS
<1>1. CASE UNCHANGED vars
  BY <1>1 DEF vars, SignatureInv, TypeOK, CopiesAreCurrent, StatusTellsSigners,
              OneSignerPerEmail, StatusOf, WithStatus, Current
<1>2. ASSUME NEW t \in Threads, ThreadStep(t) PROVE SignatureInv'
  <2>0. TypeOK /\ StatusTellsSigners /\ OneSignerPerEmail
    BY DEF SignatureInv
  <2>1. ASSUME NEW c \in Calls, Load(t, c) PROVE SignatureInv'
    <3>1. PICK i \in SignerIds \cup {NoId} :
            job' = [job EXCEPT ![t] = [Idle EXCEPT !.call = c, !.at = "loaded",
                                                   !.id = i, !.doc = doc]]
      BY <2>1 DEF Load, Current
    <3> DEFINE k == [Idle EXCEPT !.call = c, !.at = "loaded", !.id = i,
                                 !.doc = doc]
    <3>2. k \in Jobs /\ k.at = "loaded"
      BY <2>0, IdleIsJob DEF Jobs, TypeOK
    <3>3. /\ job' \in [Threads -> Jobs] /\ job'[t].at = "loaded"
          /\ \A u \in Threads \ {t} : job'[u] = job[u]
      BY <2>0, <3>1, <3>2 DEF TypeOK
    <3>4. UNCHANGED <<doc, signer, audit, lock>>
      BY <2>1 DEF Load
    <3>5. TypeOK'
      BY <2>0, <3>3, <3>4 DEF TypeOK
    <3>6. CopiesAreCurrent'
      BY <3>3, <3>4 DEF SignatureInv, CopiesAreCurrent
    <3>7. StatusTellsSigners' /\ OneSignerPerEmail'
      BY <2>0, <3>4 DEF StatusTellsSigners, OneSignerPerEmail, StatusOf,
                        WithStatus, Current
    <3> QED
      BY <3>5, <3>6, <3>7 DEF SignatureInv
  <2>2. CASE Lock(t)
    <3> DEFINE k == [job[t] EXCEPT !.at = "locked", !.doc = doc,
                                   !.signer = signer]
    <3>1. k \in Jobs /\ k.doc = doc /\ k.signer = signer
      BY <2>0 DEF TypeOK, Jobs
    <3>2. job' = [job EXCEPT ![t] = k] /\ lock' = t
      BY <2>2 DEF Lock
    <3>3. \A u \in Threads : job[u].at # "locked"
      BY <2>2, SignatureNulls DEF Lock, SignatureInv, CopiesAreCurrent
    <3>4. /\ job' \in [Threads -> Jobs] /\ job'[t] = k
          /\ \A u \in Threads \ {t} : job'[u] = job[u]
      BY <2>0, <3>1, <3>2 DEF TypeOK
    <3>5. UNCHANGED <<doc, signer, audit>>
      BY <2>2 DEF Lock
    <3>6. TypeOK'
      BY <2>0, <3>2, <3>4, <3>5 DEF TypeOK
    <3>7. CopiesAreCurrent'
      BY <3>1, <3>2, <3>3, <3>4, <3>5 DEF CopiesAreCurrent
    <3>8. StatusTellsSigners' /\ OneSignerPerEmail'
      BY <2>0, <3>5 DEF StatusTellsSigners, OneSignerPerEmail, StatusOf,
                        WithStatus, Current
    <3> QED
      BY <3>6, <3>7, <3>8 DEF SignatureInv
  <2>3. CASE RequestSignatures(t)
    <3>0. job[t].signer = signer
      BY <2>3 DEF RequestSignatures, Serves, SignatureInv, CopiesAreCurrent
    <3>1. PICK asked \in (SUBSET Emails) \ {{}} :
            /\ signer' \in Tables
            /\ \A i \in Current(signer') : signer'[i].status = "pending"
            /\ \A e \in asked : \E i \in Current(signer') : signer'[i].email = e
            /\ \A i, j \in Current(signer') :
                 signer'[i].email = signer'[j].email => i = j
            /\ audit' \subseteq [event : Events, of : SignerIds]
      BY <2>0, <2>3, <3>0, RequestTable
    <3>2. StatusOf(signer') = "pending"
      BY <3>1 DEF StatusOf, WithStatus
    <3>3. doc' \in Documents /\ doc'.status = "pending"
      BY <2>0, <2>3 DEF RequestSignatures, TypeOK, Documents, Verdicts
    <3>4. job[t].at = "locked" /\ Release(t)
      BY <2>3 DEF RequestSignatures, Serves
    <3>5. StatusTellsSigners' /\ OneSignerPerEmail'
      BY <3>1, <3>2, <3>3 DEF StatusTellsSigners, OneSignerPerEmail
    <3> QED
      BY <3>1, <3>3, <3>4, <3>5, Committed
  <2>4. CASE Sign(t)
    BY <2>4, SettleInv DEF Sign, Serves
  <2>5. CASE Reject(t)
    BY <2>5, SettleInv DEF Reject, Serves
  <2>6. CASE Reset(t)
    <3>0. job[t].signer = signer
      BY <2>6 DEF Reset, Serves, SignatureInv, CopiesAreCurrent
    <3>1. signer' \in Tables /\ Current(signer') = {}
      BY <2>0, <2>6, <3>0, ResetTable
    <3>2. doc' \in Documents /\ doc'.status = "not_required"
      BY <2>0, <2>6 DEF Reset, TypeOK, Documents, Verdicts
    <3>3. audit' \subseteq [event : Events, of : SignerIds]
      BY <2>0, <2>6, <3>0 DEF Reset, Logged, TypeOK, Events, Current
    <3>4. StatusTellsSigners' /\ OneSignerPerEmail'
      BY <3>1, <3>2 DEF StatusTellsSigners, OneSignerPerEmail, StatusOf
    <3>5. job[t].at = "locked" /\ Release(t)
      BY <2>6 DEF Reset, Serves
    <3> QED
      BY <3>1, <3>2, <3>3, <3>4, <3>5, Committed
  <2>7. CASE Remind(t)
    <3>1. UNCHANGED <<doc, signer>> /\ job[t].at = "locked" /\ Release(t)
      BY <2>7 DEF Remind, Serves
    <3>2. audit' \subseteq [event : Events, of : SignerIds]
      <4>1. job[t].signer = signer
        BY <3>1 DEF SignatureInv, CopiesAreCurrent
      <4> QED
        BY <2>0, <2>7, <4>1
           DEF Remind, Logged, TypeOK, Events, WithStatus, Current
    <3>3. StatusTellsSigners' /\ OneSignerPerEmail'
      BY <2>0, <3>1 DEF StatusTellsSigners, OneSignerPerEmail, StatusOf,
                        WithStatus, Current
    <3> QED
      BY <2>0, <3>1, <3>2, <3>3, Committed DEF TypeOK
  <2>8. CASE SaveArchived(t)
    <3>1. /\ job' = [job EXCEPT ![t] = Idle] /\ lock = NoThread
          /\ UNCHANGED <<signer, audit, lock>>
      BY <2>8 DEF SaveArchived
    <3>2. doc' \in Documents /\ doc'.status = doc.status
      BY <2>0, <2>8 DEF SaveArchived, TypeOK, Documents
    <3>3. \A u \in Threads : job[u].at # "locked"
      BY <3>1, SignatureNulls DEF SignatureInv, CopiesAreCurrent
    <3>4. /\ job' \in [Threads -> Jobs]
          /\ \A u \in Threads : job'[u].at # "locked"
      BY <2>0, <3>1, <3>3, IdleIsJob DEF TypeOK
    <3>5. TypeOK' /\ CopiesAreCurrent'
      BY <2>0, <3>1, <3>2, <3>4 DEF TypeOK, CopiesAreCurrent
    <3>6. StatusTellsSigners' /\ OneSignerPerEmail'
      BY <2>0, <3>1, <3>2 DEF StatusTellsSigners, OneSignerPerEmail, StatusOf,
                              WithStatus, Current
    <3> QED
      BY <3>5, <3>6 DEF SignatureInv
  <2>9. CASE Abort(t)
    <3>1. /\ job' \in [Threads -> Jobs] /\ job'[t].at = "idle"
          /\ \A u \in Threads \ {t} : job'[u] = job[u]
      BY <2>0, <2>9, IdleIsJob DEF Abort, TypeOK
    <3>2. UNCHANGED <<doc, signer, audit>> /\ lock' \in {lock, NoThread}
      BY <2>9 DEF Abort
    <3>3. \A u \in Threads \ {t} : job[u].at = "locked" => lock' = u
      BY <2>9 DEF Abort, SignatureInv, CopiesAreCurrent
    <3>4. TypeOK' /\ CopiesAreCurrent'
      BY <2>0, <3>1, <3>2, <3>3 DEF TypeOK, SignatureInv, CopiesAreCurrent
    <3>5. StatusTellsSigners' /\ OneSignerPerEmail'
      BY <2>0, <3>2 DEF StatusTellsSigners, OneSignerPerEmail, StatusOf,
                        WithStatus, Current
    <3> QED
      BY <3>4, <3>5 DEF SignatureInv
  <2> QED
    BY <1>2, <2>1, <2>2, <2>3, <2>4, <2>5, <2>6, <2>7, <2>8, <2>9 DEF ThreadStep
<1> QED
  BY <1>1, <1>2 DEF Next

LEMMA SignatureInvariant == Spec => []SignatureInv
BY SignatureInit, SignatureStep, PTL DEF Spec

-----------------------------------------------------------------------------
(* Theorems.                                                               *)

\* The tables, the lock and the held copies keep their shape.
THEOREM SignaturesTypeCorrect == Spec => []TypeOK
<1>1. SignatureInv => TypeOK
  BY DEF SignatureInv
<1> QED
  BY <1>1, SignatureInvariant, PTL

\* Whatever the threads interleave, the status stored in the document is the
\* one its signers make up (recompute_document_signature_status).
THEOREM StatusTellsSignersHolds == Spec => []StatusTellsSigners
<1>1. SignatureInv => StatusTellsSigners
  BY DEF SignatureInv
<1> QED
  BY <1>1, SignatureInvariant, PTL

\* Requests that race each other never leave two current signers for one
\* address (request_document_signatures).
THEOREM OneSignerPerEmailHolds == Spec => []OneSignerPerEmail
<1>1. SignatureInv => OneSignerPerEmail
  BY DEF SignatureInv
<1> QED
  BY <1>1, SignatureInvariant, PTL

-----------------------------------------------------------------------------
(* The log.                                                                *)

Said(log, event, i) == [event |-> event, of |-> i] \in log

TellsOf(table, log, i) ==
  /\ table[i].status = "signed" <=> Said(log, "signed", i)
  /\ table[i].status = "rejected" <=> Said(log, "rejected", i)

\* Nothing is logged about a primary key that is still free.
LogInv ==
  /\ \A i \in Current(signer) : TellsOf(signer, audit, i)
  /\ \A a \in audit : signer[a.of] # NoSigner

LEMMA LogInit == Init => LogInv
BY SignatureNulls DEF Init, LogInv, NewTable, Current

\* A service logs a set of events of one kind.
LEMMA Saying ==
  ASSUME NEW event \in Events, NEW ids \in SUBSET SignerIds, NEW i \in SignerIds,
         audit' = Logged(event, ids), NEW other
  PROVE  Said(audit', other, i) <=>
           (Said(audit, other, i) \/ (other = event /\ i \in ids))
<1>1. \A j \in ids : [event |-> event, of |-> j].of = j
                     /\ [event |-> event, of |-> j].event = event
  OBVIOUS
<1>2. /\ [event |-> other, of |-> i].of = i
      /\ [event |-> other, of |-> i].event = other
  OBVIOUS
<1> QED
  BY <1>1, <1>2 DEF Said, Logged

\* What an answer, and the log of it, say of the signers.
LEMMA SettleLog ==
  ASSUME SignatureInv, LogInv, NEW t \in Threads, job[t].at = "locked",
         NEW s \in {"signed", "rejected"}, Settle(t, s),
         signer[job[t].id].status # IF s = "signed" THEN "rejected" ELSE "signed"
  PROVE  LogInv'
<1> DEFINE k == job[t].id
<1>1. /\ k \in Current(signer) /\ Current(signer') = Current(signer)
      /\ \A i \in Current(signer) :
           signer'[i].status = IF i = k THEN s ELSE signer[i].status
      /\ signer' \in Tables
  BY SettleTable DEF SignatureInv
<1>2. k \in SignerIds /\ audit' = Logged(s, {k}) /\ s \in Events
  BY <1>1 DEF Current, Settle, Events
<1>3. ASSUME NEW i \in Current(signer) PROVE TellsOf(signer', audit', i)
  <2>1. i \in SignerIds /\ TellsOf(signer, audit, i)
    BY DEF Current, LogInv
  <2>2. \A other \in {"signed", "rejected"} :
          Said(audit', other, i) <=>
            (Said(audit, other, i) \/ (other = s /\ i = k))
    BY <1>2, <2>1, Saying
  <2>3. signer'[i].status = IF i = k THEN s ELSE signer[i].status
    BY <1>1
  <2> HIDE DEF k
  <2>4. CASE i = k
    <3>1. signer[i].status # IF s = "signed" THEN "rejected" ELSE "signed"
      BY <2>4 DEF k
    <3> QED
      BY <2>1, <2>2, <2>3, <2>4, <3>1 DEF TellsOf
  <2>5. CASE i # k
    BY <2>1, <2>2, <2>3, <2>5 DEF TellsOf
  <2> QED
    BY <2>4, <2>5
<1>4. ASSUME NEW a \in audit' PROVE signer'[a.of] # NoSigner
  <2>1. \A i \in SignerIds : signer[i] # NoSigner => signer'[i] # NoSigner
    BY <1>1, SignatureNulls DEF Settle, Current, SignatureInv, TypeOK, Tables
  <2>2. CASE a \in audit
    BY <2>1, <2>2 DEF LogInv, SignatureInv, TypeOK
  <2>3. CASE a \notin audit
    <3>1. a.of = k
      BY <1>2, <2>3 DEF Logged
    <3> QED
      BY <1>1, <2>1, <3>1, SignatureNulls DEF Current
  <2> QED
    BY <2>2, <2>3
<1> QED
  BY <1>1, <1>3, <1>4 DEF LogInv

LEMMA RequestLog ==
  ASSUME SignatureInv, LogInv, NEW t \in Threads, RequestSignatures(t)
  PROVE  LogInv'
<1>1. job[t].signer = signer
  BY DEF RequestSignatures, Serves, SignatureInv, CopiesAreCurrent
<1>9. PICK asked \in (SUBSET Emails) \ {{}} :
        \E id \in [asked -> {i \in SignerIds : signer[i] = NoSigner}] :
         /\ \A e, f \in asked : e # f => id[e] # id[f]
         /\ signer' = [i \in SignerIds |->
                         IF \E e \in asked : id[e] = i
                         THEN [email |-> CHOOSE e \in asked : id[e] = i,
                               status |-> "pending"]
                         ELSE IF i \in Current(job[t].signer) THEN Deleted
                         ELSE signer[i]]
         /\ audit' = Logged("requested", {id[e] : e \in asked})
  BY DEF RequestSignatures
<1>2. PICK id \in [asked -> {i \in SignerIds : signer[i] = NoSigner}] :
         /\ signer' = [i \in SignerIds |->
                         IF \E e \in asked : id[e] = i
                         THEN [email |-> CHOOSE e \in asked : id[e] = i,
                               status |-> "pending"]
                         ELSE IF i \in Current(job[t].signer) THEN Deleted
                         ELSE signer[i]]
         /\ audit' = Logged("requested", {id[e] : e \in asked})
  BY <1>9
<1> DEFINE ids == {id[e] : e \in asked}
<1>3. ids \subseteq SignerIds /\ \A i \in ids : signer[i] = NoSigner
  OBVIOUS
<1>4. \A i \in Current(signer') : signer'[i].status = "pending" /\ i \in ids
  BY <1>1, <1>2, SignatureNulls DEF Current, SignatureInv, TypeOK, Tables
<1>5. \A i \in SignerIds : signer[i] # NoSigner => signer'[i] # NoSigner
  BY <1>1, <1>2, <1>3, SignatureNulls DEF Current, SignatureInv, TypeOK, Tables
<1>6. \A i \in ids : signer'[i] # NoSigner
  <2> TAKE i \in ids
  <2>1. i \in SignerIds /\ \E e \in asked : id[e] = i
    OBVIOUS
  <2>2. [email |-> CHOOSE e \in asked : id[e] = i, status |-> "pending"]
          \in Signers
    BY <2>1 DEF Signers, SignerStatuses
  <2> QED
    BY <1>2, <2>1, <2>2, SignatureNulls
<1> HIDE DEF ids
<1>7. ASSUME NEW i \in Current(signer') PROVE TellsOf(signer', audit', i)
  <2>1. i \in ids /\ signer'[i].status = "pending" /\ i \in SignerIds
    BY <1>4 DEF Current
  <2>2. ~Said(audit, "signed", i) /\ ~Said(audit, "rejected", i)
    BY <1>3, <2>1 DEF LogInv, Said
  <2>3. ~Said(audit', "signed", i) /\ ~Said(audit', "rejected", i)
    BY <1>2, <1>3, <2>1, <2>2, Saying DEF ids, Events
  <2> QED
    BY <2>1, <2>3 DEF TellsOf
<1>8. ASSUME NEW a \in audit' PROVE signer'[a.of] # NoSigner
  <2>1. CASE a \in audit
    BY <1>5, <2>1 DEF LogInv, SignatureInv, TypeOK
  <2>2. CASE a \notin audit
    <3>1. a.of \in ids
      BY <1>2, <2>2 DEF Logged, ids
    <3> QED
      BY <1>6, <3>1
  <2> QED
    BY <2>1, <2>2
<1> QED
  BY <1>7, <1>8 DEF LogInv

LEMMA LogStep ==
  ASSUME SignatureInv, LogInv, [Next]_vars PROVE LogInv'
<1>1. CASE UNCHANGED <<signer, audit>>
  BY <1>1 DEF LogInv, TellsOf, Current
<1>2. ASSUME NEW t \in Threads, ThreadStep(t), ~UNCHANGED <<signer, audit>>
      PROVE  LogInv'
  <2>1. RequestSignatures(t) \/ Sign(t) \/ Reject(t) \/ Reset(t) \/ Remind(t)
    BY <1>2 DEF ThreadStep, Load, Lock, SaveArchived, Abort
  <2>2. job[t].at = "locked" /\ job[t].signer = signer /\ TypeOK
    BY <2>1 DEF RequestSignatures, Sign, Reject, Reset, Remind, Serves,
                SignatureInv, CopiesAreCurrent
  <2>3. CASE RequestSignatures(t)
    BY <2>3, RequestLog
  <2>4. CASE Sign(t)
    BY <2>2, <2>4, SettleLog DEF Sign, WithStatus
  <2>5. CASE Reject(t)
    <3>1. signer[job[t].id].status # "signed"
      BY <2>2, <2>5 DEF Reject, WithStatus
    <3> QED
      BY <2>2, <2>5, <3>1, SettleLog DEF Reject
  <2>6. CASE Reset(t)
    <3>1. Current(signer') = {}
      BY <2>2, <2>6, ResetTable
    <3>2. \A i \in SignerIds : signer[i] # NoSigner => signer'[i] # NoSigner
      BY <2>2, <2>6, SignatureNulls DEF Reset, TypeOK, Tables
    <3>3. \A a \in audit' : a.of \in SignerIds /\ signer[a.of] # NoSigner
      BY <2>2, <2>6, SignatureNulls DEF Reset, Logged, Current, LogInv, TypeOK
    <3> QED
      BY <3>1, <3>2, <3>3 DEF LogInv
  <2>7. CASE Remind(t)
    <3> DEFINE ids == WithStatus(signer, "pending")
    <3>1. /\ audit' = Logged("reminded", ids) /\ ids \subseteq SignerIds
          /\ UNCHANGED signer /\ ids \subseteq Current(signer)
      BY <2>2, <2>7 DEF Remind, WithStatus, Current
    <3> HIDE DEF ids
    <3>2. \A i \in SignerIds : \A other \in {"signed", "rejected"} :
            Said(audit', other, i) <=> Said(audit, other, i)
      BY <3>1, Saying DEF Events
    <3>3. \A a \in audit' : signer[a.of] # NoSigner
      BY <3>1, SignatureNulls DEF Logged, LogInv, Current
    <3> QED
      BY <3>1, <3>2, <3>3 DEF LogInv, TellsOf, Current
  <2> QED
    BY <2>1, <2>3, <2>4, <2>5, <2>6, <2>7
<1> QED
  BY <1>1, <1>2 DEF Next, vars

\* The log never contradicts the table: a current signer has signed exactly if
\* the log says so, and declined exactly if it says so (sign_signature,
\* reject_signature, reset_document_signatures).
THEOREM LogTellsSignersHolds == Spec => []LogTellsSigners
<1>1. LogInv => LogTellsSigners
  BY DEF LogInv, LogTellsSigners, TellsOf, Said
<1>2. SignatureInv /\ LogInv /\ [Next]_vars => LogInv'
  BY LogStep
<1> QED
  BY <1>1, <1>2, LogInit, SignatureInvariant, PTL DEF Spec

-----------------------------------------------------------------------------
(* Archived documents.                                                     *)

NewlySigned == WithStatus(signer', "signed") \ WithStatus(signer, "signed")

LEMMA SigningNotArchived ==
  ASSUME SignatureInv, [Next]_vars, NEW i \in NewlySigned PROVE ~doc.archived
<1>1. signer' # signer
  BY DEF NewlySigned
<1>2. PICK t \in Threads :
        RequestSignatures(t) \/ Sign(t) \/ Reject(t) \/ Reset(t)
  BY <1>1 DEF Next, vars, ThreadStep, Load, Lock, Remind, SaveArchived, Abort
<1>3. TypeOK /\ job[t].doc = doc /\ job[t].signer = signer
  BY <1>2 DEF RequestSignatures, Sign, Reject, Reset, Serves, SignatureInv,
              CopiesAreCurrent
<1>4. i \in Current(signer') /\ signer'[i].status = "signed"
      /\ i \notin WithStatus(signer, "signed")
  BY DEF NewlySigned, WithStatus
<1>5. ~RequestSignatures(t)
  BY <1>3, <1>4, RequestTable
<1>6. ~Reject(t)
  <2> SUFFICES ASSUME Reject(t) PROVE FALSE
    OBVIOUS
  <2>1. /\ Current(signer') = Current(signer)
        /\ signer'[i].status = IF i = job[t].id THEN "rejected"
                               ELSE signer[i].status
    BY <1>3, <1>4, SettleTable DEF Reject
  <2> QED
    BY <1>4, <2>1 DEF WithStatus
<1>7. ~Reset(t)
  BY <1>3, <1>4, ResetTable
<1> QED
  BY <1>2, <1>3, <1>5, <1>6, <1>7 DEF Sign

\* "Archived documents cannot be signed": the archiving waits for the lock, and
\* the service looks at the document again once it has it (sign_signature).
THEOREM NothingSignedWhenArchivedHolds == Spec => NothingSignedWhenArchived
<1>1. SignatureInv /\ [Next]_vars =>
        [\A i \in SignerIds :
           i \in WithStatus(signer', "signed") \ WithStatus(signer, "signed")
           => ~doc.archived]_vars
  BY SigningNotArchived DEF NewlySigned
<1> QED
  BY <1>1, SignatureInvariant, PTL DEF Spec, NothingSignedWhenArchived

-----------------------------------------------------------------------------
(* The services implement DocumentSigning.                                 *)

Standing(table) == [e \in Emails |-> StandingOf(table, e)]

DistinctIn(table) ==
  \A i, j \in Current(table) : table[i].email = table[j].email => i = j

\* An address stands as its current signer, and as "none" without one.
LEMMA StandingOfSigner ==
  ASSUME NEW table \in Tables, DistinctIn(table), NEW i \in Current(table)
  PROVE  /\ table[i].email \in Emails
         /\ table[i].status \in SignerStatuses
         /\ StandingOf(table, table[i].email) = table[i].status
<1> DEFINE e == table[i].email
           k == CHOOSE j \in Current(table) : table[j].email = e
<1>1. table[i] \in Signers
  BY DEF Current
<1>2. k \in Current(table) /\ table[k].email = e
  OBVIOUS
<1>3. k = i
  BY <1>2 DEF DistinctIn
<1>4. StandingOf(table, e) = table[k].status
  BY DEF StandingOf
<1> QED
  BY <1>1, <1>3, <1>4 DEF Signers

LEMMA StandingOfNobody ==
  ASSUME NEW table, NEW e, \A i \in Current(table) : table[i].email # e
  PROVE  StandingOf(table, e) = "none"
BY DEF StandingOf

\* The status computed from the rows is the verdict on how people stand.
LEMMA StatusIsVerdictOn ==
  ASSUME NEW table \in Tables, DistinctIn(table)
  PROVE  StatusOf(table) = Signing!VerdictOn(Standing(table))
<1> DEFINE st == Standing(table)
<1>1. \A i \in Current(table) :
        /\ table[i].email \in Emails
        /\ table[i].status \in SignerStatuses
        /\ st[table[i].email] = table[i].status
  BY StandingOfSigner DEF Standing
<1>2. \A e \in Emails :
        \/ st[e] = "none"
        \/ \E i \in Current(table) : table[i].email = e
  BY StandingOfNobody DEF Standing
<1>3. CASE Current(table) = {}
  BY <1>2, <1>3 DEF StatusOf, Signing!VerdictOn
<1>4. CASE Current(table) # {} /\ WithStatus(table, "rejected") # {}
  <2>1. PICK i \in Current(table) : table[i].status = "rejected"
    BY <1>4 DEF WithStatus
  <2>2. table[i].email \in Emails /\ st[table[i].email] = "rejected"
    BY <1>1, <2>1
  <2> QED
    BY <1>4, <2>2 DEF StatusOf, Signing!VerdictOn
<1>5. CASE Current(table) # {} /\ WithStatus(table, "rejected") = {}
  <2>1. \E e \in Emails : st[e] # "none"
    BY <1>1, <1>5 DEF SignerStatuses
  <2>2. ~\E e \in Emails : st[e] = "rejected"
    <3> SUFFICES ASSUME NEW e \in Emails, st[e] = "rejected" PROVE FALSE
      OBVIOUS
    <3>1. PICK i \in Current(table) : table[i].email = e
      BY <1>2
    <3> QED
      BY <1>1, <1>5, <3>1 DEF WithStatus
  <2>3. (Current(table) = WithStatus(table, "signed"))
          <=> \A e \in Emails : st[e] \in {"none", "signed"}
    <3>1. ASSUME Current(table) = WithStatus(table, "signed"), NEW e \in Emails
          PROVE  st[e] \in {"none", "signed"}
      BY <1>1, <1>2, <3>1 DEF WithStatus
    <3>2. ASSUME \A e \in Emails : st[e] \in {"none", "signed"},
                 NEW i \in Current(table)
          PROVE  table[i].status = "signed"
      BY <1>1, <3>2 DEF SignerStatuses
    <3> QED
      BY <3>1, <3>2 DEF WithStatus
  <2>4. StatusOf(table) = IF Current(table) = WithStatus(table, "signed")
                          THEN "signed" ELSE "pending"
    BY <1>5 DEF StatusOf
  <2>5. Signing!VerdictOn(st) =
          IF \A e \in Emails : st[e] \in {"none", "signed"}
          THEN "signed" ELSE "pending"
    BY <2>1, <2>2 DEF Signing!VerdictOn
  <2> QED
    BY <2>3, <2>4, <2>5
<1> QED
  BY <1>3, <1>4, <1>5

\* Every committed state is one that a step of the promise may lead to.
LEMMA BecomesNext ==
  ASSUME SignatureInv, NEW s, Standing(signer') = s
  PROVE  SignatureInv' => Signing!Becomes(s)
<1> SUFFICES ASSUME SignatureInv' PROVE Signing!Becomes(s)
  OBVIOUS
<1>1. signer' \in Tables /\ DistinctIn(signer')
  BY DEF SignatureInv, TypeOK, OneSignerPerEmail, DistinctIn
<1>2. doc'.status = StatusOf(signer')
  BY DEF SignatureInv, StatusTellsSigners
<1>3. doc'.status = Signing!VerdictOn(s)
  BY <1>1, <1>2, StatusIsVerdictOn
<1> QED
  BY <1>3 DEF Signing!Becomes, Standing

LEMMA SigningInitial == Init => Signing!SigningInit
<1> SUFFICES ASSUME Init PROVE Signing!SigningInit
  OBVIOUS
<1>1. Current(signer) = {} /\ doc.status = "not_required"
  BY SignatureNulls DEF Init, NewTable, NewDocument, Current
<1>2. \A e \in Emails : StandingOf(signer, e) = "none"
  BY <1>1, StandingOfNobody
<1> QED
  BY <1>1, <1>2 DEF Signing!SigningInit

\* An answer of a pending signer is the answer of one person; declining a
\* second time changes nothing.
LEMMA SettleRefines ==
  ASSUME SignatureInv, SignatureInv', NEW t \in Threads,
         job[t].at = "locked", NEW s \in {"signed", "rejected"}, Settle(t, s),
         signer[job[t].id].status \in {"pending", s}
  PROVE  [Signing!SigningNext]_(Signing!signingVars)
<1> DEFINE i == job[t].id
           e == signer[i].email
<1>1. TypeOK /\ DistinctIn(signer) /\ DistinctIn(signer')
  BY DEF SignatureInv, OneSignerPerEmail, DistinctIn
<1>2. /\ i \in Current(signer)
      /\ signer' \in Tables
      /\ Current(signer') = Current(signer)
      /\ \A k \in Current(signer) : signer'[k].email = signer[k].email
      /\ \A k \in Current(signer) :
           signer'[k].status = IF k = i THEN s ELSE signer[k].status
  BY <1>1, SettleTable
<1>3. e \in Emails /\ StandingOf(signer, e) = signer[i].status
  BY <1>1, <1>2, StandingOfSigner DEF TypeOK
<1>4. ASSUME NEW f \in Emails
      PROVE  StandingOf(signer', f) =
               IF f = e THEN s ELSE StandingOf(signer, f)
  <2>1. CASE \E k \in Current(signer) : signer[k].email = f
    <3>1. PICK k \in Current(signer) : signer[k].email = f
      BY <2>1
    <3>2. StandingOf(signer, f) = signer[k].status
      BY <1>1, <3>1, StandingOfSigner DEF TypeOK
    <3>3. StandingOf(signer', f) = signer'[k].status
      BY <1>1, <1>2, <3>1, StandingOfSigner
    <3>4. k = i <=> f = e
      BY <1>1, <1>2, <3>1 DEF DistinctIn
    <3> QED
      BY <1>2, <3>1, <3>2, <3>3, <3>4
  <2>2. CASE ~\E k \in Current(signer) : signer[k].email = f
    BY <1>2, <2>2, StandingOfNobody
  <2> QED
    BY <2>1, <2>2
<1>5. CASE signer[i].status = "pending"
  <2>1. Standing(signer') = [Standing(signer) EXCEPT ![e] = s]
    BY <1>3, <1>4 DEF Standing
  <2>2. Signing!Becomes([Standing(signer) EXCEPT ![e] = s])
    BY <2>1, BecomesNext
  <2>3. Signing!Answer(e, s)
    BY <1>3, <1>5, <2>2 DEF Signing!Answer, Standing
  <2> QED
    BY <1>3, <2>3 DEF Signing!SigningNext
<1>6. CASE signer[i].status = s
  <2>1. Standing(signer') = Standing(signer)
    BY <1>3, <1>4, <1>6 DEF Standing
  <2>2. doc'.status = doc.status
    <3>1. doc'.status = Signing!VerdictOn(Standing(signer'))
      BY <1>1, <1>2, StatusIsVerdictOn DEF SignatureInv, StatusTellsSigners
    <3>2. doc.status = Signing!VerdictOn(Standing(signer))
      BY <1>1, StatusIsVerdictOn DEF SignatureInv, StatusTellsSigners, TypeOK
    <3> QED
      BY <2>1, <3>1, <3>2
  <2> QED
    BY <2>1, <2>2 DEF Signing!signingVars, Standing
<1> QED
  BY <1>5, <1>6

LEMMA SigningStep ==
  SignatureInv /\ SignatureInv' /\ [Next]_vars
    => [Signing!SigningNext]_(Signing!signingVars)
<1> SUFFICES ASSUME SignatureInv, SignatureInv', [Next]_vars
             PROVE  [Signing!SigningNext]_(Signing!signingVars)
  OBVIOUS
<1>0. TypeOK /\ DistinctIn(signer)
  BY DEF SignatureInv, OneSignerPerEmail, DistinctIn
<1>1. ASSUME signer' = signer, doc'.status = doc.status
      PROVE  [Signing!SigningNext]_(Signing!signingVars)
  BY <1>1 DEF Signing!signingVars
<1>2. CASE UNCHANGED vars
  BY <1>1, <1>2 DEF vars
<1>3. ASSUME NEW t \in Threads, ThreadStep(t)
      PROVE  [Signing!SigningNext]_(Signing!signingVars)
  <2>1. ASSUME NEW c \in Calls, Load(t, c)
        PROVE  [Signing!SigningNext]_(Signing!signingVars)
    BY <1>1, <2>1 DEF Load
  <2>2. CASE Lock(t) \/ Remind(t) \/ Abort(t)
    BY <1>1, <2>2 DEF Lock, Remind, Abort
  <2>3. CASE SaveArchived(t)
    BY <1>0, <1>1, <2>3 DEF SaveArchived, TypeOK, Documents
  <2>4. CASE RequestSignatures(t)
    <3>0. job[t].signer = signer
      BY <2>4 DEF RequestSignatures, Serves, SignatureInv, CopiesAreCurrent
    <3>1. PICK asked \in (SUBSET Emails) \ {{}} :
            /\ signer' \in Tables
            /\ \A i \in Current(signer') : /\ signer'[i].status = "pending"
                                           /\ signer'[i].email \in asked
            /\ \A e \in asked : \E i \in Current(signer') : signer'[i].email = e
            /\ DistinctIn(signer')
      BY <1>0, <2>4, <3>0, RequestTable DEF DistinctIn
    <3> DEFINE s == [e \in Emails |-> IF e \in asked THEN "pending" ELSE "none"]
    <3>2. ASSUME NEW e \in Emails
          PROVE  StandingOf(signer', e) = IF e \in asked THEN "pending" ELSE "none"
      <4>1. CASE e \in asked
        <5>1. PICK i \in Current(signer') : signer'[i].email = e
          BY <3>1, <4>1
        <5> QED
          BY <3>1, <4>1, <5>1, StandingOfSigner
      <4>2. CASE e \notin asked
        BY <3>1, <4>2, StandingOfNobody
      <4> QED
        BY <4>1, <4>2
    <3>3. Standing(signer') = s
      BY <3>2 DEF Standing
    <3>4. Signing!Becomes(s)
      BY <3>3, BecomesNext
    <3>5. WithStatus(signer, "pending") = {}
      BY <2>4, <3>0 DEF RequestSignatures
    <3>6. \A e \in Emails : StandingOf(signer, e) # "pending"
      <4> TAKE e \in Emails
      <4>1. CASE \E i \in Current(signer) : signer[i].email = e
        BY <1>0, <3>5, <4>1, StandingOfSigner DEF TypeOK, WithStatus
      <4>2. CASE ~\E i \in Current(signer) : signer[i].email = e
        BY <4>2, StandingOfNobody
      <4> QED
        BY <4>1, <4>2
    <3>7. Signing!Ask(asked)
      BY <3>4, <3>6 DEF Signing!Ask
    <3> QED
      BY <3>7 DEF Signing!SigningNext
  <2>5. CASE Sign(t)
    <3>1. job[t].at = "locked" /\ Settle(t, "signed")
      BY <2>5 DEF Sign, Serves
    <3>2. signer[job[t].id].status = "pending"
      BY <2>5, <3>1 DEF Sign, SignatureInv, CopiesAreCurrent, WithStatus
    <3> QED
      BY <3>1, <3>2, SettleRefines
  <2>6. CASE Reject(t)
    <3>1. job[t].at = "locked" /\ Settle(t, "rejected")
      BY <2>6 DEF Reject, Serves
    <3>2. /\ job[t].id \in Current(signer)
          /\ signer[job[t].id].status # "signed"
      BY <2>6, <3>1 DEF Reject, SignatureInv, CopiesAreCurrent, WithStatus
    <3>3. signer[job[t].id].status \in {"pending", "rejected"}
      BY <3>2 DEF Current, Signers, SignerStatuses
    <3> QED
      BY <3>1, <3>3, SettleRefines
  <2>7. CASE Reset(t)
    <3> DEFINE s == [e \in Emails |-> "none"]
    <3>0. job[t].signer = signer
      BY <2>7 DEF Reset, Serves, SignatureInv, CopiesAreCurrent
    <3>1. Current(signer') = {}
      BY <1>0, <2>7, <3>0, ResetTable
    <3>2. Standing(signer') = s
      BY <3>1, StandingOfNobody DEF Standing
    <3>3. Signing!Becomes(s)
      BY <3>2, BecomesNext
    <3> QED
      BY <3>3 DEF Signing!Clear, Signing!SigningNext
  <2> QED
    BY <1>3, <2>1, <2>2, <2>3, <2>4, <2>5, <2>6, <2>7 DEF ThreadStep
<1> QED
  BY <1>2, <1>3 DEF Next

\* The services keep the promise of DocumentSigning: every committed step is a
\* request, one person's answer, a reset, or nothing to the signers.
THEOREM SignaturesImplementSigning == Spec => ImplementsSigning
BY SigningInitial, SignatureInvariant, SigningStep, PTL
   DEF Spec, ImplementsSigning, Signing!SigningSpec
=============================================================================
