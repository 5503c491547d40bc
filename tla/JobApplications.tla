-------------------------- MODULE JobApplications --------------------------
(***************************************************************************)
(* The applications to one job listing.  A reviewer moves an application   *)
(* along its states and the applicant may withdraw it; both decide on the  *)
(* copy the request loaded.  The assistant has tools of its own, which do  *)
(* not go through job_application_service.                                 *)
(***************************************************************************)
EXTENDS Naturals, WebThreads

CONSTANTS Applicants, Deleted

Calls == {"apply", "update", "withdraw", "listing", "delete",
          "ai_apply", "ai_update", "ai_withdraw"}
AssistantCalls == {"ai_apply", "ai_update", "ai_withdraw"}
Faults == {"rollback"}

Statuses == {"submitted", "under_review", "shortlisted", "accepted", "rejected", "withdrawn"}
TERMINAL_STATUSES == {"accepted", "rejected", "withdrawn"}
REVIEWER_SETTABLE_STATUSES == {"under_review", "shortlisted", "accepted", "rejected"}

ALLOWED_TRANSITIONS ==
  [s \in Statuses |->
     CASE s = "submitted" -> {"under_review", "rejected", "withdrawn"}
       [] s = "under_review" -> {"shortlisted", "rejected", "withdrawn"}
       [] s = "shortlisted" -> {"accepted", "rejected", "withdrawn"}
       [] OTHER -> {}]

\* decided: decided_at is set.
Rows == [status : Statuses, decided : BOOLEAN]

ApplicationConstants ==
  Deleted \notin {Nil, "open", "closed"} /\ {Nil, Deleted} \cap Rows = {}

VARIABLES
  listing,      \* "open": the status is OPEN and its window has begun and not ended
  application,  \* applicant -> its only Application to the listing, or Nil
  told          \* applicant -> the status of the last notification it got

vars == <<listing, application, told, job, clients>>

-----------------------------------------------------------------------------
Live == {a \in Applicants : application[a] # Nil}
New == [status |-> "submitted", decided |-> FALSE]

(* Applying.                                                               *)

\* _is_listing_open_for_applications and exists; the tool does not ask whether
\* the listing is open.
LoadListing(t) ==
  /\ \E c \in {"apply", "ai_apply"}, a \in Applicants :
       /\ Free(t, c) /\ listing # Deleted /\ application[a] = Nil
       /\ c = "apply" => listing = "open"
       /\ Take(t, "apply", a, Nil)
  /\ UNCHANGED <<listing, application, told, clients>>

\* The unique pair, or the listing's foreign key, refuses the row.
Apply(t) ==
  /\ At(t, "apply")
  /\ LET a == job[t].key IN
       IF listing # Deleted /\ application[a] = Nil
       THEN /\ application' = [application EXCEPT ![a] = New]
            /\ told' = [told EXCEPT ![a] = "submitted"]
       ELSE UNCHANGED <<application, told>>
  /\ Done(t)
  /\ UNCHANGED <<listing, clients>>

-----------------------------------------------------------------------------
(* Moving.                                                                 *)

Load(t) ==
  /\ \E c \in {"update", "withdraw", "ai_update", "ai_withdraw"}, a \in Live :
       Free(t, c) /\ Take(t, c, a, application[a])
  /\ UNCHANGED <<listing, application, told, clients>>

\* Mutation of Moved: without the decision among update_fields.
MovedBare(row, r) == [row EXCEPT !.status = r.status]

\* save(update_fields): the status and the decision together.
Moved(row, r) == [row EXCEPT !.status = r.status, !.decided = r.decided]

\* Mutation of Notify: nobody is told of a withdrawal.
NotifyReviewed(a, s) == told' = IF s = "withdrawn" THEN told ELSE [told EXCEPT ![a] = s]

\* _notify_applicant
Notify(a, s) == told' = [told EXCEPT ![a] = s]

\* Nothing is written to a row that is gone: the save fails.  A rollback takes
\* the notification with it.
Write(t, r, tell) ==
  LET a == job[t].key IN
  /\ \/ /\ a \in Live
        /\ application' = [application EXCEPT ![a] = Moved(@, r)]
        /\ IF tell THEN Notify(a, r.status) ELSE UNCHANGED told
     \/ /\ a \notin Live \/ Fault("rollback")
        /\ UNCHANGED <<application, told>>
  /\ Done(t)
  /\ UNCHANGED <<listing, clients>>

\* Mutation of Validated: any status may follow any other.
ValidatedAny(s, next) == s # next

\* validate_transition
Validated(s, next) == s # next /\ next \in ALLOWED_TRANSITIONS[s]

Refuse(t) == Done(t) /\ UNCHANGED <<listing, application, told, clients>>

Transition(t) ==
  /\ At(t, "update")
  /\ LET r == job[t].row IN
       \E s \in REVIEWER_SETTABLE_STATUSES :
         IF Validated(r.status, s)
         THEN Write(t, [status |-> s, decided |-> r.decided \/ s \in TERMINAL_STATUSES], TRUE)
         ELSE Refuse(t)

Withdraw(t) ==
  /\ At(t, "withdraw")
  /\ IF Validated(job[t].row.status, "withdrawn")
     THEN Write(t, [status |-> "withdrawn", decided |-> TRUE], TRUE)
     ELSE Refuse(t)

\* update_application_status of the assistant: any status, always a decision.
AssistantUpdate(t) ==
  /\ At(t, "ai_update")
  /\ \E s \in Statuses : Write(t, [status |-> s, decided |-> TRUE], FALSE)

AssistantWithdraw(t) ==
  /\ At(t, "ai_withdraw")
  /\ IF job[t].row.status \notin TERMINAL_STATUSES
     THEN Write(t, [status |-> "withdrawn", decided |-> TRUE], FALSE)
     ELSE Refuse(t)

-----------------------------------------------------------------------------
(* The listing.                                                            *)

\* An edit of its status or window, or time passing.
SetListing(t) ==
  /\ Free(t, "listing") /\ listing # Deleted
  /\ listing' \in {"open", "closed"}
  /\ UNCHANGED <<application, told, job, clients>>

\* Applications go with it.
DeleteListing(t) ==
  /\ Free(t, "delete") /\ listing # Deleted
  /\ listing' = Deleted
  /\ application' = [a \in Applicants |-> Nil]
  /\ told' = [a \in Applicants |-> Nil]
  /\ UNCHANGED <<job, clients>>

-----------------------------------------------------------------------------
Start ==
  /\ listing = "closed"
  /\ application = [a \in Applicants |-> Nil]
  /\ told = [a \in Applicants |-> Nil]

Init == Start /\ Begin

Next ==
  \E t \in Threads :
    \/ LoadListing(t) \/ Apply(t) \/ Load(t) \/ Transition(t) \/ Withdraw(t)
    \/ AssistantUpdate(t) \/ AssistantWithdraw(t) \/ SetListing(t) \/ DeleteListing(t)

Spec == Init /\ [][Next]_vars

-----------------------------------------------------------------------------
(* Properties.                                                             *)

ByService == clients.calls \cap AssistantCalls = {}

\* Listing and applications are in their columns' range, and a listing that is
\* deleted takes its applications along (on_delete CASCADE).
TypeOK ==
  /\ listing \in {"open", "closed", Deleted}
  /\ application \in [Applicants -> Rows \cup {Nil}]
  /\ told \in [Applicants -> Statuses \cup {Nil}]
  /\ listing = Deleted => Live = {}

\* However reviewers and applicants race, an application carries a decision just
\* when its status is final.
DecisionTellsStatus ==
  ByService => \A a \in Live : application[a].decided <=> application[a].status \in TERMINAL_STATUSES

\* The last thing an applicant has been told is the status of the application.
ApplicantKnows == ByService => \A a \in Live : told[a] = application[a].status

\* One call at a time: a final status never changes.
DecisionStands ==
  [][OneAtATime /\ ByService =>
       \A a \in Live : application[a].status \in TERMINAL_STATUSES =>
         application'[a] \in {application[a], Nil}]_vars
=============================================================================
