-------------------------- MODULE TempoAbsenceSync --------------------------
(***************************************************************************)
(* The days of one leave request mirrored into Tempo: a TempoAbsenceSync   *)
(* row, a local TimeEntry and a Tempo worklog for each working day.        *)
(*                                                                         *)
(* The synchronisation runs in the thread of the call that committed the   *)
(* leave change (transaction.on_commit), outside any transaction: every    *)
(* statement commits on its own, and every call to Tempo may fail.  A call *)
(* that is retried without any effect on Tempo is the call that finally    *)
(* answers; only an attempt whose answer is lost is a step of its own.     *)
(* Tempo and Jira are external and modelled by what the code relies on.    *)
(*                                                                         *)
(* Most writers of a leave start no synchronisation, and may come while    *)
(* one runs.  Deleting the leave deletes its rows; row then keeps what     *)
(* they held.                                                              *)
(***************************************************************************)
EXTENDS Integers, FiniteSets
LOCAL INSTANCE TLC

CONSTANTS
  Days,         \* working days
  Spans,        \* sets of days that the leave may cover
  Threads,      \* web threads
  Ids,          \* Tempo worklog ids; bound on the worklogs ever created
  MaxAttempts,  \* attempts of _request_with_retries
  Faults,       \* the faults of this instance
  Patches,      \* what PATCHes of the leave write: its "dates", its "status"
  NoId, NoRow, NoEntry

AllFaults == {"http_error", "no_connection", "lost_reply", "crash",
              "no_issue_key"}

Unused == 0      \* state of a worklog id that Tempo has not handed out
Gone == -1       \* state of a worklog that was deleted

ASSUME TempoConstants ==
  /\ Days \subseteq Nat \ {0} /\ IsFiniteSet(Days)
  /\ Spans \subseteq SUBSET Days
  /\ MaxAttempts \in Nat \ {0}
  /\ Faults \subseteq AllFaults
  /\ Patches \subseteq {"dates", "status"}
  /\ NoId \notin Ids /\ NoEntry \notin Ids \cup {NoId}

\* A pending leave is like a lead-approved one, a rejected one like a cancelled
\* one.  enqueued: the change that made the status started a synchronisation.
LeaveStatuses == {"lead_approved", "approved", "cancelled", "deleted"}
Leaves == [status : LeaveStatuses, days : Spans, enqueued : BOOLEAN]

SyncStatuses == {"pending", "synced", "failed", "deleted", "skipped"}

SyncRows == [status : SyncStatuses,
             worklog : Ids \cup {NoId},    \* tempo_worklog_id
             linked : BOOLEAN]             \* time_entry is set

ASSUME TempoNulls == NoRow \notin SyncRows

VARIABLES
  leave,     \* the request
  enabled,   \* TempoAbsenceSyncSettings.enabled
  row,       \* day -> TempoAbsenceSync row
  entry,     \* day -> tempo_worklog_id of the TimeEntry's metadata, or NoEntry
  worklog,   \* external: id -> day of the worklog, Unused or Gone
  sync       \* thread -> its synchronisation

vars == <<leave, enabled, row, entry, worklog, sync>>

Stages == {"idle", "start", "next", "skip", "pending", "issue", "entry", "tempo",
           "save_entry", "save_row", "failed", "drop_worklog", "drop_entry",
           "drop_row"}

Syncs == [at : Stages,
          on : BOOLEAN,                          \* settings as they were read
          drop : SUBSET Days, todo : SUBSET Days,  \* days left to handle
          day : Days \cup {0},
          held : [Days -> SyncRows \cup {NoRow}],  \* rows as they were read
          tries : 0 .. MaxAttempts]

Idle == [at |-> "idle", on |-> FALSE, drop |-> {}, todo |-> {}, day |-> 0,
         held |-> [d \in Days |-> NoRow], tries |-> 0]

-----------------------------------------------------------------------------
At(t, stage) == sync[t].at = stage
Goto(t, stage) == sync' = [sync EXCEPT ![t].at = stage]
Stop(t) == sync' = [sync EXCEPT ![t] = Idle]

Day(t) == sync[t].day
Held(t) == sync[t].held[Day(t)]

\* After a day: back to the loop with that day done.
DayDone(t) ==
  sync' = [sync EXCEPT ![t].at = "next", ![t].drop = @ \ {Day(t)},
                       ![t].todo = @ \ {Day(t)}]

\* save(update_fields=["status", ...]) of the row of the thread's day.
SetStatus(t, status) == row' = [row EXCEPT ![Day(t)].status = status]

-----------------------------------------------------------------------------
(* The calls that start a synchronisation.                                 *)

SetLeave(status, enqueued) ==
  leave' = [leave EXCEPT !.status = status, !.enqueued = enqueued]

HrApprove(t) ==
  /\ At(t, "idle") /\ leave.status = "lead_approved"
  /\ SetLeave("approved", TRUE)
  /\ Goto(t, "start")
  /\ UNCHANGED <<enabled, row, entry, worklog>>

CancelLeave(t) ==
  /\ At(t, "idle") /\ leave.status \notin {"cancelled", "deleted"}
  /\ SetLeave("cancelled", TRUE)
  /\ Goto(t, "start")
  /\ UNCHANGED <<enabled, row, entry, worklog>>

\* What a PATCH may leave of the request.
Patched(status, days) ==
  /\ leave.status # "deleted"
  /\ status = leave.status \/ "status" \in Patches
  /\ days = leave.days \/ "dates" \in Patches

\* perform_update enqueues the sync of a leave that is approved after the PATCH.
PatchApproved(t) ==
  /\ At(t, "idle")
  /\ \E days \in Spans :
       /\ Patched("approved", days)
       /\ leave' = [status |-> "approved", days |-> days, enqueued |-> TRUE]
  /\ Goto(t, "start")
  /\ UNCHANGED <<enabled, row, entry, worklog>>

\* POST absence-sync/<id>/retry/ by an administrator.
RetryView(t) ==
  /\ At(t, "idle") /\ leave.status # "deleted"
  /\ Goto(t, "start")
  /\ UNCHANGED <<leave, enabled, row, entry, worklog>>

\* manage.py retry_tempo_absence_sync: only leaves with a failed row.
RetryCommand(t) ==
  /\ At(t, "idle") /\ leave.status # "deleted"
  /\ \E d \in Days : row[d] # NoRow /\ row[d].status = "failed"
  /\ Goto(t, "start")
  /\ UNCHANGED <<leave, enabled, row, entry, worklog>>

ToggleEnabled ==
  /\ enabled' = ~enabled
  /\ UNCHANGED <<leave, row, entry, worklog, sync>>

-----------------------------------------------------------------------------
(* The calls that write the leave and start nothing.                       *)

PatchOther ==
  /\ \E days \in Spans, status \in LeaveStatuses \ {"approved", "deleted"} :
       /\ Patched(status, days)
       /\ leave' = [status |-> status, days |-> days,
                    enqueued |-> leave.enqueued /\ status = leave.status]
  /\ UNCHANGED <<enabled, row, entry, worklog, sync>>

\* The assistant looks at no status; a cancelled leave it leaves as it is.
AssistantCancel ==
  /\ leave.status \notin {"cancelled", "deleted"}
  /\ SetLeave("cancelled", FALSE)
  /\ UNCHANGED <<enabled, row, entry, worklog, sync>>

Reject ==
  /\ leave.status = "lead_approved"
  /\ SetLeave("cancelled", FALSE)
  /\ UNCHANGED <<enabled, row, entry, worklog, sync>>

\* DELETE: the rows go with the leave, entries and worklogs stay.
DeleteLeave ==
  /\ leave.status # "deleted"
  /\ SetLeave("deleted", FALSE)
  /\ UNCHANGED <<enabled, row, entry, worklog, sync>>

-----------------------------------------------------------------------------
(* The loop of sync_leave_request.                                         *)

Existing == {d \in Days : row[d] # NoRow}
Wanted == IF leave.status = "approved" THEN leave.days ELSE {}

Stale == Existing \ Wanted

RowsThere == leave.status # "deleted"

\* Both loops go through their days in the order of the calendar.
First(d, days) == \A other \in days : d <= other

NewRow == [status |-> "pending", worklog |-> NoId, linked |-> FALSE]

Start(t) ==
  /\ At(t, "start")
  /\ IF leave.status \in {"lead_approved", "deleted"} THEN Stop(t)
     ELSE sync' = [sync EXCEPT ![t] =
                     [at |-> "next", on |-> enabled, drop |-> Stale,
                      todo |-> Wanted, day |-> 0, held |-> row, tries |-> 0]]
  /\ UNCHANGED <<leave, enabled, row, entry, worklog>>

NextDrop(t) ==
  /\ At(t, "next")
  /\ \E d \in sync[t].drop :
       /\ First(d, sync[t].drop)
       /\ sync' = [sync EXCEPT ![t].day = d, ![t].at =
                     IF sync[t].held[d].worklog # NoId THEN "drop_worklog"
                     ELSE "drop_entry"]
  /\ UNCHANGED <<leave, enabled, row, entry, worklog>>

\* get_or_create of the day's row.
NextDay(t) ==
  /\ At(t, "next") /\ sync[t].drop = {} /\ RowsThere
  /\ \E d \in sync[t].todo :
       /\ First(d, sync[t].todo)
       /\ row' = [row EXCEPT ![d] = IF @ = NoRow THEN NewRow ELSE @]
       /\ sync' = [sync EXCEPT ![t] =
                     [@ EXCEPT !.day = d, !.held[d] = row'[d],
                               !.at = IF sync[t].on THEN "pending" ELSE "skip"]]
  /\ UNCHANGED <<leave, enabled, entry, worklog>>

LoopEnds(t) ==
  /\ At(t, "next") /\ sync[t].drop = {} /\ sync[t].todo = {}
  /\ Stop(t)
  /\ UNCHANGED <<leave, enabled, row, entry, worklog>>

MarkSkipped(t) ==
  /\ At(t, "skip") /\ RowsThere
  /\ SetStatus(t, "skipped")
  /\ DayDone(t)
  /\ UNCHANGED <<leave, enabled, entry, worklog>>

MarkFailed(t) ==
  /\ At(t, "failed") /\ RowsThere
  /\ SetStatus(t, "failed")
  /\ DayDone(t)
  /\ UNCHANGED <<leave, enabled, entry, worklog>>

-----------------------------------------------------------------------------
(* _sync_one_day.                                                          *)

\* The day is given up before its row is touched if the settings name no Jira
\* issue for the type of the leave.
MarkPending(t) ==
  /\ At(t, "pending") /\ RowsThere
  /\ \/ SetStatus(t, "pending") /\ Goto(t, "issue")
     \/ "no_issue_key" \in Faults /\ Goto(t, "failed") /\ UNCHANGED row
  /\ UNCHANGED <<leave, enabled, entry, worklog>>

\* Jira is asked for the issue; its task and mapping are created or revived.
ResolveIssue(t) ==
  /\ At(t, "issue")
  /\ \/ Goto(t, "entry")
     \/ Faults \cap {"http_error", "no_connection"} # {} /\ Goto(t, "failed")
  /\ UNCHANGED <<leave, enabled, row, entry, worklog>>

\* Mutation of KnownId: the entry is taken to exist.
KnownIdUnchecked(t) ==
  IF Held(t).worklog = NoId THEN entry[Day(t)] ELSE Held(t).worklog

\* A worklog id that only the TimeEntry remembers is put back in the row.
KnownId(t) == IF Held(t).worklog = NoId /\ entry[Day(t)] # NoEntry
              THEN entry[Day(t)] ELSE Held(t).worklog

UpsertTimeEntry(t) ==
  /\ At(t, "entry")
  /\ LET d == Day(t)
         known == KnownId(t)
     IN /\ known = Held(t).worklog \/ RowsThere
        /\ entry' = [entry EXCEPT ![d] = known]
        /\ row' = IF known = Held(t).worklog THEN row
                  ELSE [row EXCEPT ![d].worklog = known]
        /\ sync' = [sync EXCEPT ![t] = [@ EXCEPT !.at = "tempo", !.tries = 0,
                                                  !.held[d].worklog = known]]
  /\ UNCHANGED <<leave, enabled, worklog>>

\* Mutation of Post: a worklog is posted although one is known.
PostAlways(t, id) ==
  /\ At(t, "tempo")
  /\ worklog[id] = Unused
  /\ worklog' = [worklog EXCEPT ![id] = Day(t)]
  /\ UNCHANGED <<leave, enabled, row, entry>>

Post(t, id) ==
  /\ At(t, "tempo") /\ Held(t).worklog = NoId
  /\ worklog[id] = Unused
  /\ worklog' = [worklog EXCEPT ![id] = Day(t)]
  /\ UNCHANGED <<leave, enabled, row, entry>>

\* Mutation of PostWorklog: the row is saved, the entry is forgotten.
PostForgetsEntry(t) ==
  \E id \in Ids :
    /\ Post(t, id)
    /\ sync' = [sync EXCEPT ![t].at = "save_row",
                            ![t].held[Day(t)].worklog = id]

PostWorklog(t) ==
  \E id \in Ids :
    /\ Post(t, id)
    /\ sync' = [sync EXCEPT ![t] = [@ EXCEPT !.at = "save_entry",
                                              !.held[Day(t)].worklog = id]]

\* Tempo creates the worklog, the answer never arrives, the loop posts again.
PostReplyLost(t) ==
  /\ "lost_reply" \in Faults
  /\ \E id \in Ids : Post(t, id)
  /\ sync' = IF sync[t].tries + 1 = MaxAttempts
             THEN [sync EXCEPT ![t].at = "failed"]
             ELSE [sync EXCEPT ![t].tries = @ + 1]

PutWorklog(t) ==
  /\ At(t, "tempo") /\ Held(t).worklog # NoId
  /\ Goto(t, IF worklog[Held(t).worklog] = Day(t) THEN "save_entry" ELSE "failed")
  /\ UNCHANGED <<leave, enabled, row, entry, worklog>>

\* Mutation of TempoWriteFails: the answer's status code is not looked at.
TempoWriteFailsUnnoticed(t) ==
  /\ At(t, "tempo") /\ Faults \cap {"http_error", "no_connection"} # {}
  /\ Goto(t, "save_entry")
  /\ UNCHANGED <<leave, enabled, row, entry, worklog>>

TempoWriteFails(t) ==
  /\ At(t, "tempo") /\ Faults \cap {"http_error", "no_connection"} # {}
  /\ Goto(t, "failed")
  /\ UNCHANGED <<leave, enabled, row, entry, worklog>>

\* save(update_fields=["source_metadata"]) fails if the entry has gone.
SaveEntryId(t) ==
  /\ At(t, "save_entry")
  /\ IF entry[Day(t)] = NoEntry
     THEN Goto(t, "failed") /\ UNCHANGED entry
     ELSE /\ entry' = [entry EXCEPT ![Day(t)] = Held(t).worklog]
          /\ Goto(t, "save_row")
  /\ UNCHANGED <<leave, enabled, row, worklog>>

\* sync_row.save() of every column; the foreign key must still exist.
SaveSyncRow(t) ==
  /\ At(t, "save_row") /\ RowsThere
  /\ IF entry[Day(t)] = NoEntry
     THEN Goto(t, "failed") /\ UNCHANGED row
     ELSE /\ row' = [row EXCEPT ![Day(t)] =
                       [status |-> "synced", worklog |-> Held(t).worklog,
                        linked |-> TRUE]]
          /\ DayDone(t)
  /\ UNCHANGED <<leave, enabled, entry, worklog>>

-----------------------------------------------------------------------------
(* _delete_sync_row.                                                       *)

\* Deleted, or 404 because it was deleted before.
DropWorklog(t) ==
  /\ At(t, "drop_worklog")
  /\ worklog' = [worklog EXCEPT ![Held(t).worklog] = Gone]
  /\ Goto(t, "drop_entry")
  /\ UNCHANGED <<leave, enabled, row, entry>>

\* Mutation of DropWorklogRefused: a refused deletion passes for a deletion.
DropWorklogRefusedUnnoticed(t) ==
  /\ At(t, "drop_worklog") /\ "http_error" \in Faults
  /\ Goto(t, "drop_entry")
  /\ UNCHANGED <<leave, enabled, row, entry, worklog>>

DropWorklogRefused(t) ==
  /\ At(t, "drop_worklog") /\ "http_error" \in Faults
  /\ Goto(t, "failed")
  /\ UNCHANGED <<leave, enabled, row, entry, worklog>>

\* The ValidationError of _request_with_retries is not caught: the loop ends.
DropWorklogUnreachable(t) ==
  /\ At(t, "drop_worklog") /\ "no_connection" \in Faults
  /\ Stop(t)
  /\ UNCHANGED <<leave, enabled, row, entry, worklog>>

\* Deleting the entry sets the row's foreign key to NULL; an entry that has
\* gone raises DoesNotExist, which is not caught either.
DropEntry(t) ==
  /\ At(t, "drop_entry")
  /\ IF ~Held(t).linked
     THEN Goto(t, "drop_row") /\ UNCHANGED <<row, entry>>
     ELSE IF entry[Day(t)] = NoEntry
     THEN Stop(t) /\ UNCHANGED <<row, entry>>
     ELSE /\ entry' = [entry EXCEPT ![Day(t)] = NoEntry]
          /\ row' = [row EXCEPT ![Day(t)].linked = FALSE]
          /\ Goto(t, "drop_row")
  /\ UNCHANGED <<leave, enabled, worklog>>

DropRow(t) ==
  /\ At(t, "drop_row") /\ RowsThere
  /\ SetStatus(t, "deleted")
  /\ DayDone(t)
  /\ UNCHANGED <<leave, enabled, entry, worklog>>

\* A row of a leave that is gone can be neither created nor saved, and the
\* exception of marking it failed is not caught: the loop ends.
RowsGone(t) ==
  /\ ~RowsThere
  /\ \/ At(t, "next") /\ sync[t].drop = {} /\ sync[t].todo # {}
     \/ sync[t].at \in {"skip", "pending", "failed", "save_row", "drop_row"}
     \/ At(t, "entry") /\ KnownId(t) # Held(t).worklog
  /\ Stop(t)
  /\ UNCHANGED <<leave, enabled, row, entry, worklog>>

\* The worker is killed between two statements.
Crash(t) ==
  /\ "crash" \in Faults /\ ~At(t, "idle")
  /\ Stop(t)
  /\ UNCHANGED <<leave, enabled, row, entry, worklog>>

-----------------------------------------------------------------------------
Init ==
  /\ \E days \in Spans :
       leave = [status |-> "lead_approved", days |-> days, enqueued |-> FALSE]
  /\ enabled = TRUE
  /\ row = [d \in Days |-> NoRow]
  /\ entry = [d \in Days |-> NoEntry]
  /\ worklog = [i \in Ids |-> Unused]
  /\ sync = [t \in Threads |-> Idle]

Call(t) ==
  \/ HrApprove(t) \/ CancelLeave(t) \/ PatchApproved(t)
  \/ RetryView(t) \/ RetryCommand(t)

\* Calls of which no synchronisation knows.
Silent == PatchOther \/ AssistantCancel \/ Reject \/ DeleteLeave

\* Steps of a running synchronisation that need nothing but the code and a
\* Tempo that answers.
Progress(t) ==
  \/ Start(t) \/ NextDrop(t) \/ NextDay(t) \/ RowsGone(t) \/ LoopEnds(t)
  \/ MarkSkipped(t) \/ MarkFailed(t) \/ MarkPending(t)
  \/ ResolveIssue(t) \/ UpsertTimeEntry(t)
  \/ PostWorklog(t) \/ PutWorklog(t) \/ SaveEntryId(t) \/ SaveSyncRow(t)
  \/ DropWorklog(t) \/ DropEntry(t) \/ DropRow(t)

Fault(t) ==
  \/ PostReplyLost(t) \/ TempoWriteFails(t) \/ DropWorklogRefused(t)
  \/ DropWorklogUnreachable(t) \/ Crash(t)

Next ==
  \/ \E t \in Threads : Call(t) \/ Progress(t) \/ Fault(t)
  \/ Silent \/ ToggleEnabled

Spec == Init /\ [][Next]_vars

\* A thread that runs goes on, Tempo accepts a deletion that is asked for
\* again and again, and the retry command is run again and again.
Fairness ==
  \A t \in Threads : /\ WF_vars(Progress(t))
                     /\ \A d \in Days :
                          SF_vars(Day(t) = d /\ DropWorklog(t))
                     /\ WF_vars(RetryCommand(t))

FairSpec == Spec /\ Fairness

-----------------------------------------------------------------------------
(* Properties.                                                             *)

\* Rows, entries and worklogs keep their range, at whatever statement a run stops.
TypeOK ==
  /\ leave \in Leaves
  /\ enabled \in BOOLEAN
  /\ row \in [Days -> SyncRows \cup {NoRow}]
  /\ entry \in [Days -> Ids \cup {NoId, NoEntry}]
  /\ worklog \in [Ids -> Days \cup {Unused, Gone}]
  /\ sync \in [Threads -> Syncs]

Quiet == \A t \in Threads : At(t, "idle")

\* Retries update the worklog of a day and never add a second one
\* (_upsert_tempo_worklog chooses PUT as soon as an id is known).
NoDuplicateWorklogs ==
  \A i, j \in Ids : i # j /\ worklog[i] \in Days => worklog[i] # worklog[j]

\* Between synchronisations a day of an approved leave that is marked synced
\* has its worklog in Tempo and a local entry that names it.
SyncedMeansInTempo ==
  Quiet /\ leave.status = "approved" =>
    \A d \in leave.days :
      row[d] # NoRow /\ row[d].status = "synced" =>
        /\ row[d].worklog \in Ids /\ worklog[row[d].worklog] = d
        /\ entry[d] = row[d].worklog

\* What Tempo was told about a leave is taken back once the leave is cancelled
\* by the call that says so to the synchronisation, the retry command being run
\* on what failed.  Cancelled by the assistant or a PATCH, or deleted, a leave
\* leaves its worklogs in Tempo.
CancelledIsTakenBack ==
  leave.status = "cancelled" /\ leave.enqueued
    ~> leave.status # "cancelled" \/ \A i \in Ids : worklog[i] \notin Days

-----------------------------------------------------------------------------
\* TLC need not tell the ids of worklogs apart.
IdSymmetry == Permutations(Ids)
=============================================================================
