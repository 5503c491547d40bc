---------------------------- MODULE EmployeeCVs ----------------------------
(***************************************************************************)
(* The CVs of one employee.  The number of the next one is read before the *)
(* transaction that replaces the current one; what keeps two uploads apart *)
(* is that a number is used once.                                          *)
(***************************************************************************)
EXTENDS Naturals, FiniteSetsExt, WebThreads

CONSTANT MaxVersion  \* bound on the uploads

Calls == {"upload", "delete"}
Faults == {"crash"}
Versions == 1..MaxVersion

CVConstants == MaxVersion \in Nat \ {0} /\ Nil \notin BOOLEAN

VARIABLE
  cv      \* version -> is_current of the EmployeeDocument, or Nil

vars == <<cv, job, clients>>

-----------------------------------------------------------------------------
Live == {v \in Versions : cv[v] # Nil}
Current == {v \in Live : cv[v]}
\* The rows that transactions have updated and not yet committed.
Locked == UNION {job[t].row : t \in {u \in Threads : At(u, "insert")}}

Latest == IF Live = {} THEN 0 ELSE Max(Live)

\* A file or a link.
Upload(t) ==
  /\ Free(t, "upload") /\ Latest < MaxVersion
  /\ Take(t, "replace", Latest + 1, Nil)
  /\ UNCHANGED <<cv, clients>>

\* update(is_current=False) waits for the rows it finds.
ReplaceCurrent(t) ==
  /\ At(t, "replace") /\ Current \cap Locked = {}
  /\ Take(t, "insert", job[t].key, Current)
  /\ UNCHANGED <<cv, clients>>

\* Mutation of Taken: the version is not unique, the row is written over.
TakenNever(v) == FALSE

\* unique_together = ("user_profile", "doc_type", "version")
Taken(v) == cv[v] # Nil

\* The insertion and the commit; the loser keeps nothing.
Insert(t) ==
  /\ At(t, "insert")
  /\ cv' = IF Taken(job[t].key) THEN cv
           ELSE [v \in Versions |->
                   IF v = job[t].key THEN TRUE
                   ELSE IF v \in job[t].row THEN FALSE ELSE cv[v]]
  /\ Done(t)
  /\ UNCHANGED clients

\* On the admin site.
Delete(t) ==
  /\ Free(t, "delete")
  /\ \E v \in Live \ Locked : cv' = [cv EXCEPT ![v] = Nil]
  /\ UNCHANGED <<job, clients>>

Crash(t) ==
  /\ Fault("crash")
  /\ At(t, "replace") \/ At(t, "insert")
  /\ Done(t)
  /\ UNCHANGED <<cv, clients>>

-----------------------------------------------------------------------------
Start == cv = [v \in Versions |-> Nil]
Init == Start /\ Begin

Next ==
  \E t \in Threads :
    Upload(t) \/ ReplaceCurrent(t) \/ Insert(t) \/ Delete(t) \/ Crash(t)

Spec == Init /\ [][Next]_vars

-----------------------------------------------------------------------------
(* Properties.                                                             *)

\* A version is a row with its is_current, or not taken yet.
TypeOK == cv \in [Versions -> BOOLEAN \cup {Nil}]

\* However uploads race and stop, the latest CV is the current one and the only
\* one.  Once one is deleted on the admin site, at most the latest is, as long as
\* uploads do not race with it.
LatestIsCurrent ==
  /\ "delete" \notin clients.calls => Current = {v \in Live : v = Latest}
  /\ OneAtATime => Current \subseteq {v \in Live : v = Latest}
=============================================================================
