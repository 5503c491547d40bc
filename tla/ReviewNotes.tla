----------------------------- MODULE ReviewNotes -----------------------------
(***************************************************************************)
(* What is attached to one performance review: notes, an action point and  *)
(* a file; who sees and changes them, by the views and by the assistant;   *)
(* and the history of it.                                                  *)
(*                                                                         *)
(* A PATCH checks the note it has loaded and then saves the whole copy,    *)
(* which a deletion meanwhile does not stop; the event comes after it.     *)
(* The review's own life is in PerformanceReviews: here it stays, and its  *)
(* changes are single steps.                                               *)
(***************************************************************************)
EXTENDS Naturals, WebThreads, TLC

CONSTANTS
  Employee, Reviewer, Manager,  \* the manager is the employee's
  Contents,
  MaxNotes,                     \* bound
  Gone                          \* a deleted row

People == {Employee, Reviewer, Manager}
Visibilities == {"shared", "private"}
NoteKeys == 1..MaxNotes
Point == MaxNotes + 1
File == MaxNotes + 2
NoteRows == [author : People, visibility : Visibilities, content : Contents]
PointStatuses == {"pending", "completed", "done"}
PointRows == [status : PointStatuses, completed_at : BOOLEAN]

NoteConstants ==
  /\ Cardinality(People) = 3 /\ {Nil, Gone} \cap People = {} /\ Nil # Gone
  \* Clients also say who has which of the rights to reviews, and which notes they make.
  /\ \A c \in Clients : c.area = "notes" =>
       c.rights \in [People -> SUBSET STRING] /\ c.notes \subseteq NoteKeys

VARIABLES
  review,   \* its status, its reviewer and how many of rating and summary are there
  note,     \* key -> PerformanceReviewNote, Nil before and Gone after
  point,    \* the PerformanceReviewActionPoint
  file,     \* who has uploaded the PerformanceReviewAttachment
  history,  \* key, Point or File -> the last event about it
  shown     \* the contents that have been in shared notes

items == <<note, point, file>>
vars == <<review, items, history, shown, job, clients>>

-----------------------------------------------------------------------------
(* Rights.                                                                 *)

IsStaff(p) == "staff" \in clients.rights[p]
Has(p, f) == IsStaff(p) \/ f \in clients.rights[p]
HasAny(p, fs) == \E f \in fs : Has(p, f)
\* _is_review_hr_admin, and _is_hr_admin, which wants rights to profiles
IsReviewAdmin(p) == HasAny(p, {"view_any_review_history", "edit_delete_reviews"})
IsHRAdmin(p) == Has(p, "profiles")

IsReviewer(p) == review.reviewer = p
IsManager(p) == p = Manager

\* The queryset of the views
Listed(p) ==
  \/ Has(p, "view_any_review_history") \/ p = Employee \/ IsReviewer(p)
  \/ Has(p, "view_team_reviews") /\ IsManager(p)

EditRights == {"create_review_direct_report", "schedule_reviews", "edit_delete_reviews"}

\* Mutation of CanView: a reviewer needs to see teams.
CanViewTeams(p) ==
  \/ IsReviewAdmin(p)
  \/ p = Employee /\ Has(p, "view_own_reviews")
  \/ Has(p, "view_team_reviews") /\ (IsReviewer(p) \/ IsManager(p))
\* can_view_review
CanView(p) ==
  \/ IsReviewAdmin(p)
  \/ p = Employee /\ Has(p, "view_own_reviews")
  \/ IsReviewer(p) /\ HasAny(p, EditRights \cup {"view_team_reviews"})
  \/ IsManager(p) /\ Has(p, "view_team_reviews")
CanEdit(p) ==
  \/ IsReviewAdmin(p)
  \/ IsReviewer(p) /\ HasAny(p, EditRights)
  \/ IsManager(p) /\ Has(p, "create_review_direct_report")
CanEditNote(p, visibility) ==
  \/ IsReviewAdmin(p)
  \/ visibility = "private" /\ IsReviewer(p) /\ Has(p, "add_private_feedback")
  \/ visibility = "shared" /\ IsReviewer(p) /\ Has(p, "add_shared_feedback")
  \/ visibility = "shared" /\ p = Employee /\ Has(p, "initiate_self_review")
CanAttach(p) ==
  \/ IsReviewAdmin(p)
  \/ Has(p, "attach_documents") /\ (IsReviewer(p) \/ p \in {Employee, Manager})
\* get_object
Opens(p) == Listed(p) /\ CanView(p)
\* _can_view_review of the assistant
AssistantViews(p) == IsHRAdmin(p) \/ p = Employee \/ IsReviewer(p)
\* list_reviews
AssistantLists(p) == IsHRAdmin(p) \/ p \in {Employee, review.reviewer}

Live(k) == note[k] \in NoteRows
LivePoint == point \in PointRows
LiveFile == file \in People

\* _visible_review_notes, and list_review_notes
NotesFor(p, all) ==
  {k \in NoteKeys : Live(k) /\ (all \/ note[k].visibility = "shared" \/ note[k].author = p)}
ViewNotes(p) == IF Listed(p) THEN NotesFor(p, Has(p, "view_any_review_history")) ELSE {}
AssistantNotes(p) == IF AssistantViews(p) THEN NotesFor(p, IsHRAdmin(p)) ELSE {}

-----------------------------------------------------------------------------
(* Notes.                                                                  *)

Put(k, new) ==
  /\ note' = [note EXCEPT ![k] = new]
  /\ shown' = shown \cup (IF new # Gone /\ new.visibility = "shared" THEN {new.content} ELSE {})
NewKey(k) ==
  k \in clients.notes /\ note[k] = Nil /\ \A l \in NoteKeys : l < k => note[l] # Nil
Told(t, k, event) == Take(t, "log", k, event)

AddNote(t) ==
  /\ Free(t, "note")
  /\ \E p \in People, v \in Visibilities, c \in Contents, k \in NoteKeys :
       /\ Listed(p) /\ CanEditNote(p, v) /\ NewKey(k)
       /\ Put(k, [author |-> p, visibility |-> v, content |-> c])
       /\ Told(t, k, "added")
  /\ UNCHANGED <<review, point, file, history, clients>>

\* The fields a PATCH gives
Given == {[visibility |-> v] : v \in Visibilities} \cup {[content |-> c] : c \in Contents}

LoadNote(t) ==
  /\ Free(t, "edit")
  /\ \E p \in People, k \in NoteKeys, g \in Given :
       /\ Opens(p) /\ Live(k) /\ CanEditNote(p, note[k].visibility)
       /\ Take(t, "save", k, [who |-> p, seen |-> note[k], given |-> g])
  /\ UNCHANGED <<review, items, history, shown, clients>>

\* Mutation of Saved: only the fields that were given are written.
SavedGiven(row, k) == row.given @@ (IF Live(k) THEN note[k] ELSE row.seen)
Saved(row, k) == row.given @@ row.seen

SaveNote(t) ==
  /\ At(t, "save")
  /\ Put(job[t].key, Saved(job[t].row, job[t].key))
  /\ Told(t, job[t].key, "updated")
  /\ UNCHANGED <<review, point, file, history, clients>>

DeleteNote(t) ==
  /\ Free(t, "delete")
  /\ \E p \in People, k \in NoteKeys :
       /\ Opens(p) /\ Live(k) /\ CanEditNote(p, note[k].visibility)
       /\ Put(k, Gone)
       /\ Told(t, k, "deleted")
  /\ UNCHANGED <<review, point, file, history, clients>>

\* add_review_note asks only whether its user may view.
AssistantNote(t) ==
  /\ Free(t, "ai_note")
  /\ \E p \in People, v \in Visibilities, c \in Contents, k \in NoteKeys :
       /\ AssistantViews(p) /\ NewKey(k)
       /\ Put(k, [author |-> p, visibility |-> v, content |-> c])
  /\ UNCHANGED <<review, point, file, history, job, clients>>

\* Mutation of LogHistory: a deletion leaves no event.
LogHistoryOfRest(k, event) ==
  history' = IF event = "deleted" THEN history ELSE [history EXCEPT ![k] = event]
LogHistory(k, event) == history' = [history EXCEPT ![k] = event]

Log(t) ==
  /\ At(t, "log")
  /\ LogHistory(job[t].key, job[t].row) /\ Done(t)
  /\ UNCHANGED <<review, items, shown, clients>>

-----------------------------------------------------------------------------
(* The action point and the attachment.                                    *)

CanAddPoint(p) == Listed(p) /\ CanEdit(p)
CanChangePoint(p) == Opens(p) /\ CanEdit(p)

AddPoint(t) ==
  /\ Free(t, "point") /\ point = Nil /\ \E p \in People : CanAddPoint(p)
  /\ point' = [status |-> "pending", completed_at |-> FALSE]
  /\ Told(t, Point, "added")
  /\ UNCHANGED <<review, note, file, history, shown, clients>>

LoadPoint(t) ==
  /\ Free(t, "point") /\ LivePoint /\ \E p \in People : CanChangePoint(p)
  /\ \E s \in PointStatuses \ {"done"} : Take(t, "save_point", Point, [point EXCEPT !.status = s])
  /\ UNCHANGED <<review, items, history, shown, clients>>

SavePoint(t) ==
  /\ At(t, "save_point")
  /\ point' = job[t].row
  /\ Told(t, Point, "updated")
  /\ UNCHANGED <<review, note, file, history, shown, clients>>

DeletePoint(t) ==
  /\ Free(t, "delete") /\ LivePoint /\ \E p \in People : CanChangePoint(p)
  /\ point' = Gone
  /\ Told(t, Point, "deleted")
  /\ UNCHANGED <<review, note, file, history, shown, clients>>

AssistantAddPoint(t) ==
  /\ Free(t, "ai_point") /\ point = Nil /\ \E p \in People : AssistantViews(p)
  /\ point' = [status |-> "pending", completed_at |-> FALSE]
  /\ UNCHANGED <<review, note, file, history, shown, job, clients>>

\* update_action_point_status saves the fields it is given, whatever the status says.
AssistantSetPoint(t) ==
  /\ Free(t, "ai_point") /\ LivePoint /\ \E p \in People : AssistantViews(p)
  /\ \E s \in PointStatuses :
       point' = [point EXCEPT !.status = s, !.completed_at = @ \/ s = "done"]
  /\ UNCHANGED <<review, note, file, history, shown, job, clients>>

Attach(t) ==
  /\ Free(t, "attach") /\ file = Nil
  /\ \E p \in People : Listed(p) /\ CanAttach(p) /\ file' = p
  /\ Told(t, File, "added")
  /\ UNCHANGED <<review, note, point, history, shown, clients>>

Detach(t) ==
  /\ Free(t, "attach") /\ LiveFile
  /\ \E p \in People : Opens(p) /\ CanAttach(p)
  /\ file' = Gone
  /\ Told(t, File, "deleted")
  /\ UNCHANGED <<review, note, point, history, shown, clients>>

-----------------------------------------------------------------------------
\* Mutation of NoteCounts: only what everybody sees counts.
SharedNoteCounts(k) == Live(k) /\ note[k].visibility = "shared"
NoteCounts(k) == Live(k)

\* get_progress of lists and details
Progress ==
  CASE review.status = "completed" -> 100
    [] review.status = "scheduled" -> 0
    [] OTHER -> 25 * (review.filled + (IF \E k \in NoteKeys : NoteCounts(k) THEN 1 ELSE 0)
                                    + (IF LivePoint THEN 1 ELSE 0))

\* The review moves on or gets another reviewer.
ChangeReview ==
  /\ "review" \in clients.calls
  /\ \/ \E s \in {"scheduled", "in_progress", "completed"}, n \in {0, 2} :
          review' = [review EXCEPT !.status = s, !.filled = n]
     \/ \E p \in {Reviewer, Manager} : review' = [review EXCEPT !.reviewer = p]
  /\ UNCHANGED <<items, history, shown, job, clients>>

Crash(t) ==
  /\ Fault("crash") /\ job[t] # Idle /\ Done(t)
  /\ UNCHANGED <<review, items, history, shown, clients>>

Start ==
  /\ review = [status |-> "in_progress", reviewer |-> Reviewer, filled |-> 0]
  /\ note = [k \in NoteKeys |-> Nil] /\ point = Nil /\ file = Nil
  /\ history = [k \in NoteKeys \cup {Point, File} |-> Nil] /\ shown = {}

Init == Begin /\ Start

Next ==
  \/ \E t \in Threads :
       \/ AddNote(t) \/ LoadNote(t) \/ SaveNote(t) \/ DeleteNote(t) \/ AssistantNote(t)
       \/ AddPoint(t) \/ LoadPoint(t) \/ SavePoint(t) \/ DeletePoint(t) \/ AssistantAddPoint(t)
       \/ AssistantSetPoint(t)
       \/ Attach(t) \/ Detach(t) \/ Log(t) \/ Crash(t)
  \/ ChangeReview

Spec == Init /\ [][Next]_vars

-----------------------------------------------------------------------------
(* Properties.                                                             *)

\* Rows have their columns.
TypeOK ==
  /\ review \in [status : {"scheduled", "in_progress", "completed"},
                 reviewer : {Reviewer, Manager}, filled : 0..2]
  /\ note \in [NoteKeys -> NoteRows \cup {Nil, Gone}]
  /\ point \in PointRows \cup {Nil, Gone} /\ file \in People \cup {Nil, Gone}
  /\ history \in [NoteKeys \cup {Point, File} -> {Nil} \cup {"added", "updated", "deleted"}]
  /\ shown \subseteq Contents

\* Private words become shared on purpose only: whatever PATCHes race, the one that
\* shares them for the first time has them from its client, or is from somebody who may
\* write private notes and asked for them to be shared.
PublishedOnPurpose ==
  [][\A t \in Threads :
       At(t, "save") /\ job'[t].call # "save" /\ note' # note =>
         LET row == job[t].row
             new == note'[job[t].key]
         IN new.visibility = "shared" /\ new.content \notin shown =>
              \/ "content" \in DOMAIN row.given
              \/ /\ "visibility" \in DOMAIN row.given
                 /\ IsReviewAdmin(row.who) \/ Has(row.who, "add_private_feedback")]_vars

\* While calls come one at a time, none is cut short and the assistant writes nothing,
\* the last event about a note, the action point or the file tells whether it is there.
HistoryTellsItems ==
  OneAtATime /\ AllIdle /\ clients.faults = {} /\ {"ai_note", "ai_point"} \cap clients.calls = {} =>
    LET Tells(row, k) ==
          /\ row = Nil <=> history[k] = Nil
          /\ row = Gone <=> history[k] = "deleted"
    IN /\ \A k \in NoteKeys : Tells(note[k], k)
       /\ Tells(point, Point) /\ Tells(file, File)

\* Who may add an action point may also change it, although only the change opens the
\* review; the assistant lists a review, and the notes of it, as the views do, except
\* to administrators of profiles and of reviews.
WaysAgree ==
  \A p \in People :
    /\ CanAddPoint(p) => CanChangePoint(p)
    /\ AssistantLists(p) <=> AssistantViews(p)
    /\ AssistantLists(p) /\ ~IsHRAdmin(p) => Listed(p)
    /\ AssistantViews(p) /\ ~IsHRAdmin(p) /\ ~IsReviewAdmin(p) => AssistantNotes(p) = ViewNotes(p)

\* While the review stays as it is and nothing is deleted, its progress does not fall.
ProgressGrows ==
  [][review' = review
       /\ (\A k \in NoteKeys : Live(k) => note'[k] # Gone) /\ (LivePoint => point' # Gone)
     => Progress' >= Progress]_vars
=============================================================================
