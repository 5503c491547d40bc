------------------------- MODULE PerformanceReviews -------------------------
(***************************************************************************)
(* One performance review, the reminders of it and what its history says   *)
(* its status is.  Every writer saves the review, logs, and then brings    *)
(* the reminders up to date with the copy it holds; so do the list of      *)
(* reminders and the command, with a copy they have only read.             *)
(***************************************************************************)
EXTENDS Naturals, WebThreads

CONSTANTS
  Reviewers,
  Employee,  \* the review is about them
  LastDay,   \* bound: reviews are due on the days 1..LastDay
  Deleted

Calls == {"create", "update", "status", "delete", "list", "read", "ai_schedule", "ai_close",
          "wait"}
Faults == {"crash"}

\* reminder_offsets_days has 1 or is empty.
Rows == [status : {"scheduled", "in_progress", "completed", "cancelled"},
         scheduled_date : 1..LastDay, reviewer : Reviewers \cup {Nil}, offset : BOOLEAN]
Statuses == {"scheduled", "in_progress", "completed", "cancelled"}
Over == {"completed", "cancelled"}

\* perf_review_reminder_unique_slot
Slots == [recipient : Reviewers \cup {Employee},
          reminder_type : {"upcoming", "due_today", "overdue"}, day : 0..LastDay + 1]
Reminders == {"waiting", "sent", "read"}

\* Half days: the odd ones begin at nine, when reminders are due.
LastTime == 2 * (LastDay + 1) + 1
Day(n) == n \div 2
Nine(d) == 2 * d + 1

ReviewConstants ==
  /\ LastDay \in Nat \ {0} /\ Employee \notin Reviewers
  /\ {Nil, Deleted} \cap (Rows \cup Reviewers \cup Reminders) = {} /\ Nil # Deleted
  \* Clients also say which rows their calls may save.
  /\ \A c \in Clients : c.area = "reviews" => c.rows \subseteq Rows

VARIABLES
  review,    \* PerformanceReview, Nil before and Deleted after
  reminder,  \* slot -> its PerformanceReviewReminder, or Nil
  history,   \* the status the last history event about it tells
  now

vars == <<review, reminder, history, now, job, clients>>

-----------------------------------------------------------------------------
Exists == review \in Rows
Recipients(r) == {Employee} \cup ({r.reviewer} \ {Nil})
ReminderOf(p, kind, d) == [recipient |-> p, reminder_type |-> kind, day |-> d]

\* The statuses that calls compare and tell.
Saved(t, new, told) == Take(t, "log", told, new)

(* The review.                                                             *)

Create(t) ==
  /\ Free(t, "create") /\ review = Nil
  /\ \E new \in clients.rows :
       /\ review' = new
       /\ Saved(t, new, new.status)
  /\ UNCHANGED <<reminder, history, now, clients>>

Load(t) ==
  /\ Exists
  /\ \E c \in {"update", "status", "delete"} : Free(t, c) /\ Take(t, c, Nil, review)
  /\ UNCHANGED <<review, reminder, history, now, clients>>

\* Mutation of Told: the old status is read off the copy that was saved.
ToldAfter(old, new) == Nil

\* No event when the status stays; the old status is kept from before the save.
Told(old, new) == IF old.status = new.status THEN Nil ELSE new.status

\* The whole copy, which a deletion does not stop.
Update(t) ==
  /\ At(t, "update")
  /\ \E new \in clients.rows :
       /\ review' = new
       /\ Saved(t, new, Told(job[t].row, new))
  /\ UNCHANGED <<reminder, history, now, clients>>

UpdateStatus(t) ==
  /\ At(t, "status")
  /\ \E s \in Statuses :
       LET new == [job[t].row EXCEPT !.status = s] IN
       review' = new /\ Saved(t, new, s)
  /\ UNCHANGED <<reminder, history, now, clients>>

\* The event refers to the review, which must still be there.
Log(t) ==
  /\ At(t, "log")
  /\ IF Exists
     THEN /\ history' = IF job[t].key = Nil THEN history ELSE job[t].key
          /\ Take(t, "ensure", Nil, job[t].row)
     ELSE Done(t) /\ UNCHANGED history
  /\ UNCHANGED <<review, reminder, now, clients>>

\* Reminders and history go with the review.
Delete(t) ==
  /\ At(t, "delete")
  /\ review' = Deleted
  /\ reminder' = [s \in Slots |-> Nil]
  /\ history' = Nil
  /\ Done(t)
  /\ UNCHANGED <<now, clients>>

\* The assistant writes no history and no reminders.
AssistantSchedule(t) ==
  /\ Free(t, "ai_schedule") /\ review = Nil
  /\ \E new \in clients.rows :
       /\ new.status = "scheduled" /\ ~new.offset /\ new.reviewer # Nil
       /\ review' = new
  /\ UNCHANGED <<reminder, history, now, job, clients>>

\* save(update_fields)
AssistantClose(t) ==
  /\ Free(t, "ai_close") /\ Exists
  /\ review' = [review EXCEPT !.status = "completed"]
  /\ UNCHANGED <<reminder, history, now, job, clients>>

-----------------------------------------------------------------------------
(* The reminders.                                                          *)

\* The list of reminders and the command read the reviews first.
Materialize(t) ==
  /\ Free(t, "list") /\ Exists
  /\ Take(t, "ensure", Nil, review)
  /\ UNCHANGED <<review, reminder, history, now, clients>>

\* Mutation of Wanted: nobody is told that it is late.
WantedInTime(r) ==
  {ReminderOf(p, "upcoming", r.scheduled_date - 1) : p \in {q \in Recipients(r) : r.offset}}
  \cup {ReminderOf(p, "due_today", r.scheduled_date) :
          p \in {q \in Recipients(r) : r.scheduled_date <= Day(now)}}

\* What a review that is not over has by now.
Wanted(r) ==
  {ReminderOf(p, "upcoming", r.scheduled_date - 1) : p \in {q \in Recipients(r) : r.offset}}
  \cup {ReminderOf(p, "due_today", r.scheduled_date) :
          p \in {q \in Recipients(r) : r.scheduled_date <= Day(now)}}
  \cup {ReminderOf(p, "overdue", r.scheduled_date + 1) :
          p \in {q \in Recipients(r) : r.scheduled_date < Day(now)}}

\* Mutation of Ensured: the row that is there is brought back to the defaults.
EnsuredAnew(slots) ==
  [s \in Slots |-> IF s \in slots THEN "waiting" ELSE reminder[s]]

\* get_or_create
Ensured(slots) ==
  [s \in Slots |-> IF s \in slots /\ reminder[s] = Nil THEN "waiting" ELSE reminder[s]]

\* A review that is gone fails the first insertion; the time is read once.
Ensure(t) ==
  /\ At(t, "ensure")
  /\ LET r == job[t].row
         slots == IF r.status \in Over THEN {} ELSE Wanted(r)
     IN IF ~Exists /\ slots # {}
        THEN Done(t) /\ UNCHANGED reminder
        ELSE reminder' = Ensured(slots) /\ Take(t, "mark", now, r)
  /\ UNCHANGED <<review, history, now, clients>>

\* The reminders of the review, those of an earlier date or reviewer too.
Mark(t) ==
  /\ At(t, "mark")
  /\ reminder' =
       [s \in Slots |->
          IF reminder[s] = "waiting" /\ Nine(s.day) <= job[t].key THEN "sent" ELSE reminder[s]]
  /\ Done(t)
  /\ UNCHANGED <<review, history, now, clients>>

MarkRead(t) ==
  /\ Free(t, "read")
  /\ \E s \in Slots : reminder[s] = "sent" /\ reminder' = [reminder EXCEPT ![s] = "read"]
  /\ UNCHANGED <<review, history, now, job, clients>>

-----------------------------------------------------------------------------
Wait ==
  /\ "wait" \in clients.calls /\ now < LastTime
  /\ now' = now + 1
  /\ UNCHANGED <<review, reminder, history, job, clients>>

\* The server stops between two statements.
Crash(t) ==
  /\ Fault("crash")
  /\ At(t, "log") \/ At(t, "ensure") \/ At(t, "mark")
  /\ Done(t)
  /\ UNCHANGED <<review, reminder, history, now, clients>>

Start ==
  review = Nil /\ reminder = [s \in Slots |-> Nil] /\ history = Nil /\ now = 0

Init == Start /\ Begin

Next ==
  \/ \E t \in Threads :
       \/ Create(t) \/ Load(t) \/ Update(t) \/ UpdateStatus(t) \/ Log(t) \/ Delete(t)
       \/ AssistantSchedule(t) \/ AssistantClose(t)
       \/ Materialize(t) \/ Ensure(t) \/ Mark(t) \/ MarkRead(t) \/ Crash(t)
  \/ Wait

Spec == Init /\ [][Next]_vars

-----------------------------------------------------------------------------
(* Properties.                                                             *)

\* Every row is in its columns' range.
TypeOK ==
  /\ review \in Rows \cup {Nil, Deleted}
  /\ reminder \in [Slots -> Reminders \cup {Nil}]
  /\ history \in Statuses \cup {Nil}
  /\ now \in 0..LastTime

\* A reminder goes out once: whatever reads and lists race, it never waits again
\* and what was read stays read, until the review is deleted.
RemindedOnce ==
  [][review' # Deleted =>
       \A s \in Slots :
         /\ reminder[s] = "sent" => reminder'[s] \in {"sent", "read"}
         /\ reminder[s] = "read" => reminder'[s] = "read"]_vars

\* While calls come one at a time, whoever lists the reminders has everybody who
\* is concerned told of a review that is late and not over, even when it was
\* moved, given to another reviewer or left behind by a crash before.
ListTellsOverdue ==
  [][OneAtATime =>
       \A t \in Threads :
         Mark(t) /\ Exists /\ review.status \notin Over =>
           \A p \in Recipients(review) :
             Nine(review.scheduled_date + 1) <= job[t].key =>
               reminder'[ReminderOf(p, "overdue", review.scheduled_date + 1)]
                 \in {"sent", "read"}]_vars

\* While calls come one at a time and none is cut short, the history of a review
\* that the assistant leaves alone ends with its status.
HistoryTellsStatus ==
  (OneAtATime /\ clients.faults = {} /\ {"ai_schedule", "ai_close"} \cap clients.calls = {}
     /\ AllIdle /\ Exists)
  => history = review.status
=============================================================================
