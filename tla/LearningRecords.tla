--------------------------- MODULE LearningRecords ---------------------------
(***************************************************************************)
(* Trainings, certificates, registrations for conferences and peer         *)
(* sessions: rows that employees keep about themselves and staff about     *)
(* everybody.  What a PATCH gives is checked against the row it has        *)
(* loaded, and the whole copy is saved.                                    *)
(*                                                                         *)
(* What trainings cost is in TrainingBudgets.  Titles, files and further   *)
(* columns and filters are left out.                                       *)
(***************************************************************************)
EXTENDS Naturals, WebThreads

CONSTANTS
  Users,      \* profiles and their users
  Staff,
  Records,    \* primary keys; bound on the rows
  LastDay     \* bound

Days == 1..LastDay
Kinds == {"training", "certificate", "registration", "session"}
\* Only trainings and certificates end: completed_at and expiration_date.
Ends == {"training", "certificate"}
Rows == [kind : Kinds, owner : Users, begin : Days, end : Days \cup {Nil}]

RecordConstants ==
  /\ Staff \subseteq Users /\ LastDay \in Nat \ {0} /\ Nil \notin Users \cup Rows \cup Days
  \* Clients also say which kinds they work with, and on which rows.
  /\ \A c \in Clients : c.area = "records" =>
       c.kinds \subseteq Kinds /\ c.rows \subseteq Records

VARIABLES
  record,  \* primary key -> row
  status,  \* of the last answer to an update
  today

vars == <<record, status, today, job, clients>>

-----------------------------------------------------------------------------
Live(k) == record[k] # Nil
Unused(k) == k \in clients.rows /\ ~Live(k) /\ \A t \in Threads : job[t].key # k

\* The querysets of the views
Sees(u, k) == Live(k) /\ (u \in Staff \/ record[k].owner = u)
ViewLists(u, kind) == {k \in Records : Sees(u, k) /\ record[k].kind = kind}

\* _profile_for: the others only for those who administer the profiles.
ProfileFor(u, employee) == u = employee \/ u \in Staff
Owned(employee, kind) ==
  {k \in Records : Live(k) /\ record[k].kind = kind /\ record[k].owner = employee}
AssistantLists(u, kind, employee) == IF ProfileFor(u, employee) THEN Owned(employee, kind) ELSE {}

\* get_status
Status(r) == IF r.end # Nil THEN "completed" ELSE IF r.begin > today THEN "planned" ELSE "in-progress"

ExpiredOn(r, day) == r.end # Nil /\ r.end < day
IsExpired(r) == ExpiredOn(r, today)
\* Mutation of Expiring: the last of the days is left out.
ExpiringBefore(u, n) ==
  {k \in AssistantLists(u, "certificate", u) : record[k].end # Nil /\ record[k].end < today + n}
\* expiring_within_days
Expiring(u, n) ==
  {k \in AssistantLists(u, "certificate", u) : record[k].end # Nil /\ record[k].end <= today + n}

-----------------------------------------------------------------------------
(* Forms.                                                                  *)

Gives(g, f) == f \in DOMAIN g /\ g[f] # Nil
Value(g, seen, f) == IF Gives(g, f) THEN g[f] ELSE seen[f]

\* Mutation of NotInFuture: only completions are checked.
CompletedInTime(g) == Gives(g, "end") => g.end <= today
NotInFuture(g) ==
  (Gives(g, "begin") => g.begin <= today) /\ (Gives(g, "end") => g.end <= today)
InOrder(g, seen) ==
  LET end == Value(g, seen, "end") IN end # Nil => Value(g, seen, "begin") <= end
Valid(kind, g, seen) ==
  /\ kind = "training" => NotInFuture(g)
  /\ kind \in Ends => InOrder(g, seen)

\* Mutation of Fields: the employee of every kind of row can be changed.
FieldsOfAll(kind) == {"begin", "employee"} \cup (IF kind \in Ends THEN {"end"} ELSE {})
\* employee_id of a certificate is written.
Fields(kind) ==
  {"begin"} \cup (IF kind \in Ends THEN {"end"} ELSE {})
            \cup (IF kind = "certificate" THEN {"employee"} ELSE {})
Given(kind) ==
  {[begin |-> d] : d \in Days}
  \cup {[end |-> d] : d \in {e \in Days \cup {Nil} : "end" \in Fields(kind)}}
  \cup {[owner |-> u] : u \in {v \in Users : "employee" \in Fields(kind)}}

Create(t) ==
  /\ Free(t, "create")
  /\ \E u \in Users, r \in Rows, k \in Records :
       /\ r.kind \in clients.kinds /\ Unused(k)
       /\ r.owner # u => u \in Staff \/ r.kind = "certificate"
       /\ r.end # Nil => r.kind \in Ends
       /\ Valid(r.kind, r, r)
       /\ record' = [record EXCEPT ![k] = r]
  /\ UNCHANGED <<status, today, job, clients>>

\* The assistant checks no dates.
Logs(kind, u) ==
  /\ kind \in clients.kinds
  /\ \E d \in Days, k \in Records :
       /\ Unused(k)
       /\ record' = [record EXCEPT ![k] = [kind |-> kind, owner |-> u, begin |-> d, end |-> Nil]]
  /\ UNCHANGED <<status, today, job, clients>>

LogPeerSession(t) == Free(t, "ai_create") /\ \E u \in Users : Logs("session", u)
RegisterForConference(t) == Free(t, "ai_create") /\ \E u \in Users : Logs("registration", u)
CreateTrainingEntry(t) ==
  /\ Free(t, "ai_create")
  /\ \E u \in Users, employee \in Users : (u = employee \/ u \in Staff) /\ Logs("training", employee)

Load(t) ==
  /\ Free(t, "update")
  /\ \E u \in Users, k \in Records :
       /\ Sees(u, k)
       /\ \E g \in Given(record[k].kind) :
            /\ Valid(record[k].kind, g, record[k])
            /\ Take(t, "save", k, [who |-> u, given |-> g, seen |-> record[k]])
  /\ UNCHANGED <<record, status, today, clients>>

Merged(g, seen) == [f \in DOMAIN seen |-> IF f \in DOMAIN g THEN g[f] ELSE seen[f]]
\* Mutation of Saved: only the fields that were given are written.
SavedGiven(row, k) == Merged(row.given, IF Live(k) THEN record[k] ELSE row.seen)
Saved(row, k) == Merged(row.given, row.seen)

\* The training is answered from the copy; the others are read anew.
Save(t) ==
  /\ At(t, "save")
  /\ LET r == Saved(job[t].row, job[t].key) IN
       /\ record' = [record EXCEPT ![job[t].key] = r]
       /\ IF r.kind = "training" THEN Done(t) ELSE Take(t, "answer", job[t].key, job[t].row)
  /\ UNCHANGED <<status, today, clients>>

Answer(t) ==
  /\ At(t, "answer")
  /\ status' = IF Sees(job[t].row.who, job[t].key) THEN 200 ELSE 404
  /\ Done(t)
  /\ UNCHANGED <<record, today, clients>>

Delete(t) ==
  /\ Free(t, "delete")
  /\ \E u \in Users, k \in Records : Sees(u, k) /\ record' = [record EXCEPT ![k] = Nil]
  /\ UNCHANGED <<status, today, job, clients>>

NextDay ==
  /\ "wait" \in clients.calls /\ today < LastDay
  /\ today' = today + 1
  /\ UNCHANGED <<record, status, job, clients>>

-----------------------------------------------------------------------------
Start == record = [k \in Records |-> Nil] /\ status = 200 /\ today = 1

Init == Begin /\ Start

Next ==
  \/ \E t \in Threads :
       \/ Create(t) \/ LogPeerSession(t) \/ RegisterForConference(t)
       \/ CreateTrainingEntry(t) \/ Load(t) \/ Save(t) \/ Answer(t) \/ Delete(t)
  \/ NextDay

Spec == Init /\ [][Next]_vars

-----------------------------------------------------------------------------
(* Properties.                                                             *)

\* Every row has its columns, and only what can end does.
TypeOK ==
  /\ \A k \in Records : Live(k) => record[k] \in Rows /\ (record[k].end # Nil => record[k].kind \in Ends)
  /\ status \in {200, 404} /\ today \in Days

\* However PATCHes race, each of which looks at one of the dates only, no training is
\* completed before it took place and no certificate expires before it was issued.
DatesInOrder ==
  \A k \in Records : Live(k) /\ record[k].end # Nil => record[k].begin <= record[k].end

\* Only what the assistant has written is planned for the future, and nothing is
\* completed in it.
PlannedByAssistant ==
  \A k \in Records : Live(k) /\ record[k].kind = "training" =>
    /\ "ai_create" \notin clients.calls => Status(record[k]) # "planned"
    /\ record[k].end # Nil => record[k].end <= today

\* One call at a time, whoever has changed a row is shown it, unless it was a certificate
\* that is another's now.
ChangeIsAnswered ==
  [][OneAtATime =>
       \A t \in Threads : Answer(t) /\ status' = 404 => record[job[t].key].kind = "certificate"]_vars

\* The assistant lists to everybody what they see of their own, and certificates as
\* expiring exactly if they will have expired the day after.
ListsAgree ==
  \A u \in Users :
    /\ \A kind \in Kinds :
         /\ AssistantLists(u, kind, u) \subseteq ViewLists(u, kind)
         /\ u \notin Staff => ViewLists(u, kind) = UNION {AssistantLists(u, kind, e) : e \in Users}
    /\ \A n \in 0..1 : \A k \in AssistantLists(u, "certificate", u) :
         /\ k \in Expiring(u, n) <=> ExpiredOn(record[k], today + n + 1)
         /\ IsExpired(record[k]) => k \in Expiring(u, n)
=============================================================================
