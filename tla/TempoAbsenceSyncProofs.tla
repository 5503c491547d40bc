----------------------- MODULE TempoAbsenceSyncProofs ------------------------
(***************************************************************************)
(* Theorems about TempoAbsenceSync for any number of days and worklogs.    *)
(*                                                                         *)
(* TempoInv is type correctness: what a thread holds of a row is there in  *)
(* the table too, because rows are never removed.  SyncedInv and KnownInv  *)
(* say, statement by statement of _sync_one_day, what the thread that runs *)
(* knows of Tempo; both speak of one thread at a time, and AbandonedInv of *)
(* a leave that was deleted while its days were being mirrored.            *)
(***************************************************************************)
EXTENDS TempoAbsenceSync, TLAPS

DayStages == Stages \ {"idle", "start", "next"}
DropStages == {"drop_worklog", "drop_entry", "drop_row"}

\* What a synchronisation may rely on, given the table of rows.
Fits(s, table) ==
  /\ \A d \in Days : s.held[d] # NoRow => table[d] # NoRow
  /\ \A d \in s.drop : s.held[d] # NoRow
  /\ s.at \in DayStages => s.day \in Days /\ s.held[s.day] # NoRow
  /\ s.at \in {"save_entry", "save_row", "drop_worklog"} =>
       s.held[s.day].worklog # NoId
  /\ s.at = "tempo" => s.tries < MaxAttempts

TempoInv == TypeOK /\ \A t \in Threads : Fits(sync[t], row)

\* One synchronisation at a time: the hypothesis of the theorems on Tempo.
OneThread == \A t, u \in Threads : t = u

\* The row of d, the worklog it names and the entry agree.
Mirrored(d) ==
  /\ row[d].worklog \in Ids
  /\ worklog[row[d].worklog] = d
  /\ entry[d] = row[d].worklog

\* Neither cancelled nor deleted.
Standing == leave.status \notin {"cancelled", "deleted"}

\* What holds of the day a thread works on while the leave stands.
Syncing(t) ==
  /\ sync[t].drop = {} /\ sync[t].todo \subseteq leave.days
  /\ sync[t].at \notin DropStages
  /\ sync[t].at \in {"issue", "entry", "tempo", "save_entry", "save_row"} =>
       row[Day(t)].status = "pending"
  /\ sync[t].at \in {"save_entry", "save_row"} => worklog[Held(t).worklog] = Day(t)
  /\ sync[t].at = "save_row" => entry[Day(t)] = Held(t).worklog

SyncedInv ==
  Standing =>
    /\ \A d \in Days : row[d] # NoRow => d \in leave.days
    /\ \A d \in Days : row[d] # NoRow /\ row[d].status = "synced" => Mirrored(d)
    /\ \A t \in Threads : Syncing(t)

\* The thread has posted the worklog of d and not yet saved the row.
Saving(t, d, i) ==
  /\ sync[t].at \in {"save_entry", "save_row"}
  /\ Day(t) = d /\ Held(t).worklog = i

Recorded(d, i) ==
  \/ row[d] # NoRow /\ row[d].worklog = i
  \/ \E t \in Threads : Saving(t, d, i)

\* A thread's copy is as fresh as deciding between POST and PUT needs it.
Knowing(t) ==
  /\ sync[t].at \in {"pending", "issue", "entry", "tempo"} =>
       Held(t).worklog = row[Day(t)].worklog
  /\ sync[t].at \in {"save_entry", "save_row"} =>
       row[Day(t)].worklog \in {NoId, Held(t).worklog}
  /\ sync[t].at \in {"tempo", "save_entry", "save_row"} => entry[Day(t)] # NoEntry

KnownInv ==
  /\ \A i \in Ids : worklog[i] \in Days => Recorded(worklog[i], i)
  /\ \A t \in Threads : Knowing(t)

-----------------------------------------------------------------------------
(* Type correctness.                                                       *)

LEMMA IdleFits == \A table : Idle \in Syncs /\ Fits(Idle, table)
BY TempoConstants DEF Idle, Syncs, Fits, Stages, DayStages

LEMMA TempoInit == Init => TempoInv
<1> SUFFICES ASSUME Init PROVE TempoInv
  OBVIOUS
<1>1. TypeOK
  BY IdleFits DEF Init, TypeOK, Leaves, LeaveStatuses
<1>2. \A t \in Threads : Fits(sync[t], row)
  BY IdleFits DEF Init
<1> QED
  BY <1>1, <1>2 DEF TempoInv

\* A step of thread t that leaves it at s keeps TempoInv if it removes no row.
LEMMA ThreadStep ==
  ASSUME TempoInv, NEW t \in Threads, NEW s \in Syncs,
         sync' = [sync EXCEPT ![t] = s],
         leave' \in Leaves,
         enabled' \in BOOLEAN,
         row' \in [Days -> SyncRows \cup {NoRow}],
         \A d \in Days : row[d] # NoRow => row'[d] # NoRow,
         entry' \in [Days -> Ids \cup {NoId, NoEntry}],
         worklog' \in [Ids -> Days \cup {Unused, Gone}],
         Fits(s, row')
  PROVE  TempoInv'
<1>1. TypeOK'
  BY DEF TempoInv, TypeOK
<1>2. \A u \in Threads : Fits(sync'[u], row')
  <2> TAKE u \in Threads
  <2>1. CASE u = t
    BY <2>1 DEF TempoInv, TypeOK
  <2>2. CASE u # t
    <3>1. sync'[u] = sync[u] /\ sync[u] \in Syncs /\ Fits(sync[u], row)
      BY <2>2 DEF TempoInv, TypeOK
    <3> QED
      BY <3>1 DEF Fits
  <2> QED
    BY <2>1, <2>2
<1> QED
  BY <1>1, <1>2 DEF TempoInv

LEMMA ReadStep ==
  ASSUME TempoInv, NEW t \in Threads, NEW s \in Syncs, Fits(s, row),
         sync' = [sync EXCEPT ![t] = s],
         UNCHANGED <<leave, enabled, row, entry, worklog>>
  PROVE  TempoInv'
BY ThreadStep DEF TempoInv, TypeOK

LEMMA StopStep ==
  ASSUME TempoInv, NEW t \in Threads, Stop(t),
         UNCHANGED <<leave, enabled, row, entry, worklog>>
  PROVE  TempoInv'
BY ReadStep, IdleFits DEF Stop

\* A stage that claims nothing new of the day a thread is at.
LEMMA GotoFits ==
  ASSUME TempoInv, NEW t \in Threads, NEW stage \in Stages,
         stage \in DayStages => sync[t].at \in DayStages,
         stage \in {"save_entry", "save_row", "drop_worklog"} =>
           Held(t).worklog # NoId,
         stage # "tempo"
  PROVE  /\ [sync[t] EXCEPT !.at = stage] \in Syncs
         /\ Fits([sync[t] EXCEPT !.at = stage], row)
         /\ Goto(t, stage) =>
              sync' = [sync EXCEPT ![t] = [sync[t] EXCEPT !.at = stage]]
<1>1. sync[t] \in Syncs /\ Fits(sync[t], row) /\ sync \in [Threads -> Syncs]
  BY DEF TempoInv, TypeOK
<1>2. [sync[t] EXCEPT !.at = stage] \in Syncs
  BY <1>1 DEF Syncs
<1>3. Fits([sync[t] EXCEPT !.at = stage], row)
  BY <1>1 DEF Fits, Syncs, Held, Day, DayStages
<1> QED
  BY <1>1, <1>2, <1>3 DEF Goto

LEMMA DayKnown ==
  ASSUME TempoInv, NEW t \in Threads, sync[t].at \in DayStages
  PROVE  /\ Day(t) \in Days /\ Held(t) \in SyncRows
         /\ row[Day(t)] \in SyncRows
BY DEF TempoInv, TypeOK, Fits, Syncs, Day, Held

LEMMA DoneFits ==
  ASSUME TempoInv, NEW t \in Threads, sync[t].at \in DayStages, DayDone(t),
         NEW table, \A d \in Days : row[d] # NoRow => table[d] # NoRow
  PROVE  \E s \in Syncs :
           sync' = [sync EXCEPT ![t] = s] /\ Fits(s, table)
<1>1. sync[t] \in Syncs /\ Fits(sync[t], row) /\ sync \in [Threads -> Syncs]
  BY DEF TempoInv, TypeOK
<1> DEFINE s == [sync[t] EXCEPT !.at = "next", !.drop = @ \ {Day(t)},
                                !.todo = @ \ {Day(t)}]
<1>2. s \in Syncs
  BY <1>1 DEF Syncs, Stages
<1>3. Fits(s, table)
  BY <1>1 DEF Fits, Syncs, DayStages
<1>4. sync' = [sync EXCEPT ![t] = s]
  BY <1>1 DEF DayDone
<1> QED
  BY <1>2, <1>3, <1>4

LEMMA LeaveSet ==
  ASSUME TempoInv, NEW status \in LeaveStatuses, NEW enqueued \in BOOLEAN,
         SetLeave(status, enqueued)
  PROVE  leave' \in Leaves
BY DEF SetLeave, TempoInv, TypeOK, Leaves

\* Calls of which no thread knows leave everything but the leave as it is.
LEMMA SilentTypes ==
  ASSUME TempoInv, Silent
  PROVE  TempoInv' /\ UNCHANGED <<enabled, row, entry, worklog, sync>>
<1>1. UNCHANGED <<enabled, row, entry, worklog, sync>>
  BY DEF Silent, PatchOther, AssistantCancel, Reject, DeleteLeave
<1>2. leave' \in Leaves
  <2>1. CASE PatchOther
    BY <2>1 DEF PatchOther, TempoInv, TypeOK, Leaves
  <2>2. CASE AssistantCancel \/ Reject \/ DeleteLeave
    BY <2>2, LeaveSet DEF AssistantCancel, Reject, DeleteLeave, LeaveStatuses
  <2> QED
    BY <2>1, <2>2 DEF Silent
<1> QED
  BY <1>1, <1>2 DEF TempoInv, TypeOK

LEMMA CallTypes ==
  ASSUME TempoInv, NEW t \in Threads, Call(t) PROVE TempoInv'
<1> DEFINE started == [sync[t] EXCEPT !.at = "start"]
<1>1. /\ started \in Syncs /\ Fits(started, row)
      /\ Goto(t, "start") => sync' = [sync EXCEPT ![t] = started]
  BY GotoFits DEF Stages, DayStages
<1> HIDE DEF started
<1>3. CASE HrApprove(t)
  <2>1. leave' \in Leaves
    BY <1>3, LeaveSet DEF HrApprove, LeaveStatuses
  <2> QED
    BY <1>1, <1>3, <2>1, ThreadStep DEF HrApprove, TempoInv, TypeOK
<1>4. CASE CancelLeave(t)
  <2>1. leave' \in Leaves
    BY <1>4, LeaveSet DEF CancelLeave, LeaveStatuses
  <2> QED
    BY <1>1, <1>4, <2>1, ThreadStep DEF CancelLeave, TempoInv, TypeOK
<1>5. CASE PatchApproved(t)
  <2>1. leave' \in Leaves
    BY <1>5 DEF PatchApproved, Leaves, LeaveStatuses
  <2> QED
    BY <1>1, <1>5, <2>1, ThreadStep DEF PatchApproved, TempoInv, TypeOK
<1>6. CASE RetryView(t) \/ RetryCommand(t)
  BY <1>1, <1>6, ReadStep DEF RetryView, RetryCommand
<1> QED
  BY <1>3, <1>4, <1>5, <1>6 DEF Call

LEMMA LoopTypes ==
  ASSUME TempoInv, NEW t \in Threads,
         Start(t) \/ NextDrop(t) \/ NextDay(t) \/ LoopEnds(t)
  PROVE  TempoInv'
<1>1. sync[t] \in Syncs /\ Fits(sync[t], row) /\ sync \in [Threads -> Syncs]
  BY DEF TempoInv, TypeOK
<1>2. row \in [Days -> SyncRows \cup {NoRow}] /\ leave.days \subseteq Days
  BY TempoConstants DEF TempoInv, TypeOK, Leaves
<1>3. CASE Start(t)
  <2> DEFINE s == [at |-> "next", on |-> enabled, drop |-> Stale,
                   todo |-> Wanted, day |-> 0, held |-> row, tries |-> 0]
  <2>1. s \in Syncs
    <3>1. Stale \subseteq Days /\ Wanted \subseteq Days /\ enabled \in BOOLEAN
      BY <1>2 DEF Stale, Existing, Wanted, TempoInv, TypeOK
    <3>2. "next" \in Stages /\ 0 \in 0 .. MaxAttempts
      BY TempoConstants DEF Stages
    <3> QED
      BY <1>2, <3>1, <3>2 DEF Syncs
  <2>2. Fits(s, row)
    BY DEF Fits, Stale, Existing, DayStages, Stages
  <2>3. Stop(t) \/ sync' = [sync EXCEPT ![t] = s]
    BY <1>3 DEF Start
  <2> HIDE DEF s
  <2> QED
    BY <1>3, <2>1, <2>2, <2>3, ReadStep, StopStep DEF Start
<1>4. CASE NextDrop(t)
  <2>1. PICK d \in sync[t].drop :
          sync' = [sync EXCEPT ![t].day = d, ![t].at =
                     IF sync[t].held[d].worklog # NoId THEN "drop_worklog"
                     ELSE "drop_entry"]
    BY <1>4 DEF NextDrop
  <2> DEFINE s == [sync[t] EXCEPT !.day = d, !.at =
                     IF sync[t].held[d].worklog # NoId THEN "drop_worklog"
                     ELSE "drop_entry"]
  <2>2. d \in Days
    BY <1>1 DEF Syncs
  <2>3. s \in Syncs
    BY <1>1, <2>2 DEF Syncs, Stages
  <2>4. Fits(s, row)
    BY <1>1, <2>2 DEF Fits, Syncs, DayStages
  <2>5. sync' = [sync EXCEPT ![t] = s]
    BY <1>1, <2>1
  <2> HIDE DEF s
  <2> QED
    BY <1>4, <2>3, <2>4, <2>5, ReadStep DEF NextDrop
<1>5. CASE NextDay(t)
  <2>1. PICK d \in sync[t].todo :
          /\ row' = [row EXCEPT ![d] = IF @ = NoRow THEN NewRow ELSE @]
          /\ sync' = [sync EXCEPT ![t] =
               [@ EXCEPT !.day = d, !.held[d] = row'[d],
                         !.at = IF sync[t].on THEN "pending" ELSE "skip"]]
    BY <1>5 DEF NextDay
  <2> DEFINE s == [sync[t] EXCEPT !.day = d, !.held[d] = row'[d],
                          !.at = IF sync[t].on THEN "pending" ELSE "skip"]
  <2>2. d \in Days
    BY <1>1 DEF Syncs
  <2>3. NewRow \in SyncRows
    BY DEF NewRow, SyncRows, SyncStatuses
  <2>4. /\ row' \in [Days -> SyncRows \cup {NoRow}]
        /\ \A e \in Days : row[e] # NoRow => row'[e] # NoRow
        /\ row'[d] \in SyncRows /\ row'[d] # NoRow
    BY <1>2, <2>1, <2>2, <2>3, TempoNulls
  <2>5. s \in Syncs
    BY <1>1, <2>2, <2>4 DEF Syncs, Stages
  <2>6. Fits(s, row')
    BY <1>1, <1>5, <2>2, <2>4 DEF NextDay, Fits, Syncs, DayStages
  <2>7. sync' = [sync EXCEPT ![t] = s]
    BY <2>1
  <2> HIDE DEF s
  <2> QED
    BY <1>5, <2>4, <2>5, <2>6, <2>7, ThreadStep DEF NextDay, TempoInv, TypeOK
<1>6. CASE LoopEnds(t)
  BY <1>6, StopStep DEF LoopEnds
<1> QED
  BY <1>3, <1>4, <1>5, <1>6

RowsKept == /\ row' \in [Days -> SyncRows \cup {NoRow}]
            /\ \A d \in Days : row[d] # NoRow => row'[d] # NoRow

LEMMA RowWritten ==
  ASSUME TempoInv, NEW d \in Days, NEW r \in SyncRows,
         row' = [row EXCEPT ![d] = r]
  PROVE  RowsKept
BY TempoNulls DEF RowsKept, TempoInv, TypeOK

LEMMA StatusWritten ==
  ASSUME TempoInv, NEW t \in Threads, sync[t].at \in DayStages,
         NEW status \in SyncStatuses, SetStatus(t, status)
  PROVE  RowsKept
<1> DEFINE r == [row[Day(t)] EXCEPT !.status = status]
<1>1. r \in SyncRows
  BY DayKnown DEF SyncRows
<1>2. row' = [row EXCEPT ![Day(t)] = r]
  BY DEF SetStatus
<1> HIDE DEF r
<1> QED
  BY <1>1, <1>2, RowWritten, DayKnown

\* A thread is done with a day once it has written the day's status.
LEMMA DayEnds ==
  ASSUME TempoInv, NEW t \in Threads, sync[t].at \in DayStages,
         NEW status \in SyncStatuses, SetStatus(t, status), DayDone(t),
         UNCHANGED <<leave, enabled, entry, worklog>>
  PROVE  TempoInv'
<1>1. RowsKept
  BY StatusWritten
<1>2. PICK s \in Syncs : sync' = [sync EXCEPT ![t] = s] /\ Fits(s, row')
  BY <1>1, DoneFits DEF RowsKept
<1> QED
  BY <1>1, <1>2, ThreadStep DEF TempoInv, TypeOK, RowsKept

\* A thread goes from one stage to another and writes nothing.
LEMMA StageStep ==
  ASSUME TempoInv, NEW t \in Threads, NEW stage \in DayStages,
         sync[t].at \in DayStages, Goto(t, stage),
         stage \in {"save_entry", "save_row", "drop_worklog"} =>
           Held(t).worklog # NoId,
         stage # "tempo",
         UNCHANGED <<leave, enabled, row, entry, worklog>>
  PROVE  TempoInv'
<1> DEFINE s == [sync[t] EXCEPT !.at = stage]
<1>1. s \in Syncs /\ Fits(s, row) /\ sync' = [sync EXCEPT ![t] = s]
  BY GotoFits DEF DayStages
<1> HIDE DEF s
<1> QED
  BY <1>1, ReadStep

LEMMA MarkTypes ==
  ASSUME TempoInv, NEW t \in Threads,
         \/ MarkSkipped(t) \/ MarkFailed(t) \/ MarkPending(t)
         \/ ResolveIssue(t) \/ DropRow(t)
  PROVE  TempoInv'
<1> USE DEF DayStages, Stages, SyncStatuses, At
<1>1. CASE MarkSkipped(t)
  BY <1>1, DayEnds DEF MarkSkipped
<1>2. CASE MarkFailed(t)
  BY <1>2, DayEnds DEF MarkFailed
<1>3. CASE DropRow(t)
  BY <1>3, DayEnds DEF DropRow
<1>4. CASE ResolveIssue(t)
  BY <1>4, StageStep DEF ResolveIssue
<1>5. CASE MarkPending(t)
  <2>1. CASE Goto(t, "failed") /\ UNCHANGED row
    BY <1>5, <2>1, StageStep DEF MarkPending
  <2>2. CASE SetStatus(t, "pending") /\ Goto(t, "issue")
    <3> DEFINE s == [sync[t] EXCEPT !.at = "issue"]
    <3>1. s \in Syncs /\ Fits(s, row) /\ sync' = [sync EXCEPT ![t] = s]
      BY <1>5, <2>2, GotoFits DEF MarkPending
    <3>2. RowsKept
      BY <1>5, <2>2, StatusWritten DEF MarkPending
    <3>3. Fits(s, row')
      BY <3>1, <3>2 DEF Fits, RowsKept
    <3> HIDE DEF s
    <3> QED
      BY <1>5, <2>2, <3>1, <3>2, <3>3, ThreadStep
      DEF MarkPending, TempoInv, TypeOK, RowsKept
  <2> QED
    BY <1>5, <2>1, <2>2 DEF MarkPending
<1> QED
  BY <1>1, <1>2, <1>3, <1>4, <1>5

LEMMA KnownIdTyped ==
  ASSUME TempoInv, NEW t \in Threads, sync[t].at \in DayStages
  PROVE  KnownId(t) \in Ids \cup {NoId}
<1>1. Held(t).worklog \in Ids \cup {NoId}
  BY DayKnown DEF SyncRows
<1>2. entry[Day(t)] \in Ids \cup {NoId, NoEntry}
  BY DayKnown DEF TempoInv, TypeOK
<1> QED
  BY <1>1, <1>2 DEF KnownId

\* The thread goes to a stage and holds another worklog id of its day.
LEMMA HoldingFits ==
  ASSUME TempoInv, NEW t \in Threads, sync[t].at \in DayStages,
         NEW id \in Ids \cup {NoId}, NEW stage \in DayStages, NEW n \in 0 .. MaxAttempts,
         stage \in {"save_entry", "save_row", "drop_worklog"} => id # NoId,
         stage = "tempo" => n < MaxAttempts
  PROVE  LET s == [sync[t] EXCEPT !.at = stage, !.tries = n,
                                  !.held[Day(t)].worklog = id]
         IN s \in Syncs /\ Fits(s, row)
<1>1. /\ sync[t] \in Syncs /\ Fits(sync[t], row)
      /\ Day(t) \in Days /\ Held(t) \in SyncRows
  BY DayKnown DEF TempoInv, TypeOK
<1> DEFINE copy == [Held(t) EXCEPT !.worklog = id]
           held == [sync[t].held EXCEPT ![Day(t)] = copy]
           s == [sync[t] EXCEPT !.at = stage, !.tries = n, !.held = held]
<1>2. copy \in SyncRows /\ copy.worklog = id
  BY <1>1 DEF SyncRows
<1>3. copy # NoRow
  BY <1>2, TempoNulls
<1> HIDE DEF copy
<1>4. /\ held \in [Days -> SyncRows \cup {NoRow}] /\ held[Day(t)] = copy
      /\ \A d \in Days : d # Day(t) => held[d] = sync[t].held[d]
  BY <1>1, <1>2 DEF Syncs
<1> HIDE DEF held
<1>5. s \in Syncs
  BY <1>1, <1>4 DEF Syncs, DayStages
<1>6. Fits(s, row)
  BY <1>1, <1>2, <1>3, <1>4 DEF Fits, Syncs, DayStages, Day, Held
<1>7. s = [sync[t] EXCEPT !.at = stage, !.tries = n,
                          !.held[Day(t)].worklog = id]
  BY <1>1 DEF held, copy, Held, Syncs
<1> QED
  BY <1>5, <1>6, <1>7

LEMMA UpsertTypes ==
  ASSUME TempoInv, NEW t \in Threads, UpsertTimeEntry(t) PROVE TempoInv'
<1> DEFINE d == Day(t)
           known == KnownId(t)
           s == [sync[t] EXCEPT !.at = "tempo", !.tries = 0,
                                !.held[d].worklog = known]
<1>1. sync[t].at \in DayStages /\ "tempo" \in DayStages
  BY DEF UpsertTimeEntry, At, DayStages, Stages
<1>2. known \in Ids \cup {NoId}
  BY <1>1, KnownIdTyped
<1>3. d \in Days /\ row[d] \in SyncRows
  BY <1>1, DayKnown
<1>4. entry' \in [Days -> Ids \cup {NoId, NoEntry}]
  BY <1>2, <1>3 DEF UpsertTimeEntry, TempoInv, TypeOK
<1>5. RowsKept
  <2>1. CASE UNCHANGED row
    BY <2>1 DEF RowsKept, TempoInv, TypeOK
  <2>2. CASE row' = [row EXCEPT ![d].worklog = known]
    <3> DEFINE r == [row[d] EXCEPT !.worklog = known]
    <3>1. r \in SyncRows
      BY <1>2, <1>3 DEF SyncRows
    <3>2. row' = [row EXCEPT ![d] = r]
      BY <2>2
    <3> HIDE DEF r
    <3> QED
      BY <1>3, <3>1, <3>2, RowWritten
  <2> QED
    BY <2>1, <2>2 DEF UpsertTimeEntry
<1>6. s \in Syncs /\ Fits(s, row)
  <2>1. 0 \in 0 .. MaxAttempts /\ 0 < MaxAttempts
    BY TempoConstants
  <2> QED
    BY <1>1, <1>2, <2>1, HoldingFits
<1>8. Fits(s, row')
  BY <1>5, <1>6 DEF Fits, RowsKept
<1>7. sync' = [sync EXCEPT ![t] = s]
  BY DEF UpsertTimeEntry
<1> HIDE DEF s
<1> QED
  BY <1>4, <1>5, <1>6, <1>7, <1>8, ThreadStep
  DEF UpsertTimeEntry, TempoInv, TypeOK, RowsKept

LEMMA PostTypes ==
  ASSUME TempoInv, NEW t \in Threads, NEW id \in Ids, Post(t, id)
  PROVE  /\ sync[t].at \in DayStages /\ Day(t) \in Days
         /\ worklog' \in [Ids -> Days \cup {Unused, Gone}]
<1>1. sync[t].at \in DayStages
  BY DEF Post, At, DayStages, Stages
<1> QED
  BY <1>1, DayKnown DEF Post, TempoInv, TypeOK

LEMMA TempoTypes ==
  ASSUME TempoInv, NEW t \in Threads,
         \/ PostWorklog(t) \/ PostReplyLost(t) \/ PutWorklog(t)
         \/ TempoWriteFails(t)
  PROVE  TempoInv'
<1>1. CASE PostWorklog(t)
  <2>1. PICK id \in Ids :
          /\ Post(t, id)
          /\ sync' = [sync EXCEPT ![t] = [@ EXCEPT !.at = "save_entry",
                                            !.held[Day(t)].worklog = id]]
    BY <1>1 DEF PostWorklog
  <2> DEFINE s == [sync[t] EXCEPT !.at = "save_entry", !.tries = sync[t].tries,
                                  !.held[Day(t)].worklog = id]
  <2>2. sync[t].tries \in 0 .. MaxAttempts /\ id # NoId
    BY TempoConstants DEF TempoInv, TypeOK, Syncs
  <2>3. s \in Syncs /\ Fits(s, row)
    BY <2>1, <2>2, PostTypes, HoldingFits DEF DayStages, Stages
  <2>4. sync' = [sync EXCEPT ![t] = s]
    <3>1. sync[t] \in Syncs
      BY DEF TempoInv, TypeOK
    <3> QED
      BY <2>1, <3>1 DEF Syncs
  <2> HIDE DEF s
  <2> QED
    BY <2>1, <2>3, <2>4, PostTypes, ThreadStep DEF Post, TempoInv, TypeOK
<1>2. CASE PostReplyLost(t)
  <2>1. PICK id \in Ids : Post(t, id)
    BY <1>2 DEF PostReplyLost
  <2>2. sync[t] \in Syncs /\ Fits(sync[t], row) /\ sync \in [Threads -> Syncs]
    BY DEF TempoInv, TypeOK
  <2>3. sync[t].at = "tempo" /\ Day(t) \in Days
    BY <2>1, PostTypes DEF Post, At
  <2>4. PICK s \in Syncs : Fits(s, row) /\ sync' = [sync EXCEPT ![t] = s]
    <3>1. CASE sync[t].tries + 1 = MaxAttempts
      <4> DEFINE s == [sync[t] EXCEPT !.at = "failed"]
      <4>1. s \in Syncs /\ sync' = [sync EXCEPT ![t] = s]
        BY <1>2, <2>2, <3>1 DEF PostReplyLost, Syncs, Stages
      <4>2. Fits(s, row)
        BY <2>2, <2>3 DEF Fits, Syncs, DayStages, Stages
      <4> QED
        BY <4>1, <4>2
    <3>2. CASE sync[t].tries + 1 # MaxAttempts
      <4> DEFINE s == [sync[t] EXCEPT !.tries = @ + 1]
      <4>1. sync[t].tries + 1 \in 0 .. MaxAttempts
            /\ sync[t].tries + 1 < MaxAttempts
        BY <2>2, <2>3, <3>2, TempoConstants DEF Fits, Syncs
      <4>2. s \in Syncs /\ sync' = [sync EXCEPT ![t] = s]
        BY <1>2, <2>2, <3>2, <4>1 DEF PostReplyLost, Syncs
      <4>3. Fits(s, row)
        BY <2>2, <2>3, <4>1 DEF Fits, Syncs, DayStages
      <4> QED
        BY <4>2, <4>3
    <3> QED
      BY <3>1, <3>2
  <2> QED
    BY <2>1, <2>4, PostTypes, ThreadStep DEF Post, TempoInv, TypeOK
<1>3. CASE PutWorklog(t)
  BY <1>3, StageStep DEF PutWorklog, DayStages, Stages, At
<1>4. CASE TempoWriteFails(t)
  BY <1>4, StageStep DEF TempoWriteFails, DayStages, Stages, At
<1> QED
  BY <1>1, <1>2, <1>3, <1>4

LEMMA SaveTypes ==
  ASSUME TempoInv, NEW t \in Threads, SaveEntryId(t) \/ SaveSyncRow(t)
  PROVE  TempoInv'
<1>1. /\ sync[t].at \in {"save_entry", "save_row"} /\ sync[t].at \in DayStages
      /\ Day(t) \in Days /\ Held(t) \in SyncRows /\ Held(t).worklog # NoId
  <2>1. sync[t].at \in {"save_entry", "save_row"} /\ sync[t].at \in DayStages
    BY DEF SaveEntryId, SaveSyncRow, At, DayStages, Stages
  <2> QED
    BY <2>1, DayKnown DEF TempoInv, Fits, Held, Day
<1>2. Held(t).worklog \in Ids
  BY <1>1 DEF SyncRows
<1>3. CASE entry[Day(t)] = NoEntry
  BY <1>1, <1>3, StageStep DEF SaveEntryId, SaveSyncRow, DayStages, Stages
<1>4. CASE SaveEntryId(t) /\ entry[Day(t)] # NoEntry
  <2> DEFINE s == [sync[t] EXCEPT !.at = "save_row"]
  <2>1. s \in Syncs /\ Fits(s, row) /\ sync' = [sync EXCEPT ![t] = s]
    BY <1>1, <1>4, GotoFits DEF SaveEntryId, DayStages, Stages
  <2>2. entry' \in [Days -> Ids \cup {NoId, NoEntry}]
    BY <1>1, <1>2, <1>4 DEF SaveEntryId, TempoInv, TypeOK
  <2> HIDE DEF s
  <2> QED
    BY <1>4, <2>1, <2>2, ThreadStep DEF SaveEntryId, TempoInv, TypeOK
<1>5. CASE SaveSyncRow(t) /\ entry[Day(t)] # NoEntry
  <2> DEFINE r == [status |-> "synced", worklog |-> Held(t).worklog,
                   linked |-> TRUE]
  <2>1. r \in SyncRows
    BY <1>2 DEF SyncRows, SyncStatuses
  <2>2. row' = [row EXCEPT ![Day(t)] = r] /\ DayDone(t)
    BY <1>5 DEF SaveSyncRow
  <2> HIDE DEF r
  <2>3. RowsKept
    BY <1>1, <2>1, <2>2, RowWritten
  <2>4. PICK s \in Syncs : sync' = [sync EXCEPT ![t] = s] /\ Fits(s, row')
    BY <1>1, <2>2, <2>3, DoneFits DEF RowsKept
  <2> QED
    BY <1>5, <2>3, <2>4, ThreadStep DEF SaveSyncRow, TempoInv, TypeOK, RowsKept
<1> QED
  BY <1>3, <1>4, <1>5

LEMMA DropTypes ==
  ASSUME TempoInv, NEW t \in Threads,
         \/ DropWorklog(t) \/ DropWorklogRefused(t)
         \/ DropWorklogUnreachable(t) \/ DropEntry(t) \/ Crash(t)
  PROVE  TempoInv'
<1> USE DEF At
<1>1. CASE DropWorklog(t)
  <2> DEFINE s == [sync[t] EXCEPT !.at = "drop_entry"]
  <2>1. s \in Syncs /\ Fits(s, row) /\ sync' = [sync EXCEPT ![t] = s]
    BY <1>1, GotoFits DEF DropWorklog, DayStages, Stages
  <2>2. worklog' \in [Ids -> Days \cup {Unused, Gone}]
    BY <1>1 DEF DropWorklog, TempoInv, TypeOK
  <2> HIDE DEF s
  <2> QED
    BY <1>1, <2>1, <2>2, ThreadStep DEF DropWorklog, TempoInv, TypeOK
<1>2. CASE DropWorklogRefused(t)
  BY <1>2, StageStep DEF DropWorklogRefused, DayStages, Stages
<1>3. CASE DropWorklogUnreachable(t) \/ Crash(t)
  BY <1>3, StopStep DEF DropWorklogUnreachable, Crash
<1>4. CASE DropEntry(t)
  <2>1. sync[t].at \in DayStages /\ "drop_row" \in DayStages
    BY <1>4 DEF DropEntry, DayStages, Stages
  <2>2. CASE Goto(t, "drop_row") /\ UNCHANGED <<row, entry>>
    BY <1>4, <2>1, <2>2, StageStep DEF DropEntry
  <2>3. CASE Stop(t) /\ UNCHANGED <<row, entry>>
    BY <1>4, <2>3, StopStep DEF DropEntry
  <2>4. CASE /\ entry' = [entry EXCEPT ![Day(t)] = NoEntry]
             /\ row' = [row EXCEPT ![Day(t)].linked = FALSE]
             /\ Goto(t, "drop_row")
    <3> DEFINE s == [sync[t] EXCEPT !.at = "drop_row"]
               r == [row[Day(t)] EXCEPT !.linked = FALSE]
    <3>1. s \in Syncs /\ Fits(s, row) /\ sync' = [sync EXCEPT ![t] = s]
      BY <2>1, <2>4, GotoFits DEF DayStages
    <3>2. r \in SyncRows
      BY <2>1, DayKnown DEF SyncRows
    <3>3. row' = [row EXCEPT ![Day(t)] = r]
      BY <2>4
    <3> HIDE DEF s, r
    <3>4. RowsKept
      BY <2>1, <3>2, <3>3, RowWritten, DayKnown
    <3>5. Fits(s, row')
      BY <3>1, <3>4 DEF Fits, RowsKept
    <3>6. entry' \in [Days -> Ids \cup {NoId, NoEntry}]
      BY <2>4 DEF TempoInv, TypeOK
    <3> QED
      BY <1>4, <3>1, <3>4, <3>5, <3>6, ThreadStep
      DEF DropEntry, TempoInv, TypeOK, RowsKept
  <2> QED
    BY <1>4, <2>2, <2>3, <2>4 DEF DropEntry
<1> QED
  BY <1>1, <1>2, <1>3, <1>4

LEMMA TempoStep == TempoInv /\ [Next]_vars => TempoInv'
<1> SUFFICES ASSUME TempoInv, [Next]_vars PROVE TempoInv'
  OBVIOUS
<1>1. ASSUME NEW t \in Threads, Call(t) PROVE TempoInv'
  BY <1>1, CallTypes
<1>2. ASSUME NEW t \in Threads, Progress(t) PROVE TempoInv'
  BY <1>2, LoopTypes, MarkTypes, UpsertTypes, TempoTypes, SaveTypes, DropTypes,
     StopStep
  DEF Progress, RowsGone
<1>3. ASSUME NEW t \in Threads, Fault(t) PROVE TempoInv'
  BY <1>3, TempoTypes, DropTypes DEF Fault
<1>4. CASE ToggleEnabled
  BY <1>4 DEF ToggleEnabled, TempoInv, TypeOK
<1>5. CASE UNCHANGED vars
  BY <1>5 DEF vars, TempoInv, TypeOK
<1>6. CASE Silent
  BY <1>6, SilentTypes
<1> QED
  BY <1>1, <1>2, <1>3, <1>4, <1>5, <1>6 DEF Next

LEMMA TempoInvariant == Spec => []TempoInv
BY TempoInit, TempoStep, PTL DEF Spec

\* At whatever statement a worker dies, and whatever number of workers mirror
\* the leave at once, rows, entries and worklogs keep their range, and no row
\* is written that was never created (sync_approved_leave, _sync_one_day,
\* _delete_sync_row).
THEOREM TempoTypeCorrect == Spec => []TypeOK
<1>1. TempoInv => TypeOK
  BY DEF TempoInv
<1> QED
  BY <1>1, TempoInvariant, PTL

-----------------------------------------------------------------------------
(* What is marked synced is in Tempo.                                      *)

LEMMA SyncedInit == Init => SyncedInv
BY DEF Init, SyncedInv, Syncing, Idle, DropStages

\* What the other conjuncts say while the leave stands.
Mirror ==
  /\ \A d \in Days : row[d] # NoRow => d \in leave.days
  /\ \A d \in Days : row[d] # NoRow /\ row[d].status = "synced" => Mirrored(d)

LEMMA SyncedParts ==
  ASSUME OneThread, NEW t \in Threads
  PROVE  /\ SyncedInv <=> (Standing => Mirror /\ Syncing(t))
         /\ SyncedInv' <=> (Standing' => Mirror' /\ Syncing(t)')
<1>1. \A u \in Threads : u = t
  BY DEF OneThread
<1>2. (\A u \in Threads : Syncing(u)) <=> Syncing(t)
  BY <1>1
<1>3. (\A u \in Threads : Syncing(u)') <=> Syncing(t)'
  BY <1>1
<1> QED
  BY <1>2, <1>3 DEF SyncedInv, Mirror

LEMMA MirrorKept ==
  ASSUME Mirror, UNCHANGED <<leave, row, entry, worklog>> PROVE Mirror'
BY DEF Mirror, Mirrored

\* Stages at which a thread writes neither rows, entries nor worklogs.
LEMMA SyncedReads ==
  ASSUME OneThread, Patches = {}, TempoInv, SyncedInv, NEW t \in Threads,
         \/ Call(t) \/ Start(t) \/ NextDrop(t) \/ LoopEnds(t) \/ ResolveIssue(t)
         \/ PutWorklog(t) \/ TempoWriteFails(t) \/ DropWorklogRefused(t)
         \/ DropWorklogUnreachable(t) \/ Crash(t)
  PROVE  SyncedInv'
<1> SUFFICES ASSUME Standing'
             PROVE  Mirror' /\ Syncing(t)'
  BY SyncedParts
<1> USE DEF At
<1>1. Standing /\ leave'.days = leave.days
  <2>1. CASE leave' = leave
    BY <2>1 DEF Standing
  <2>2. CASE HrApprove(t) \/ CancelLeave(t)
    BY <2>2 DEF HrApprove, CancelLeave, SetLeave, Standing, TempoInv, TypeOK, Leaves
  <2>3. CASE PatchApproved(t)
    BY <2>3 DEF PatchApproved, Patched, Standing
  <2> QED
    BY <2>1, <2>2, <2>3
    DEF Call, RetryView, RetryCommand, Start, NextDrop, LoopEnds, ResolveIssue,
        PutWorklog, TempoWriteFails, DropWorklogRefused, DropWorklogUnreachable,
        Crash
<1>2. Mirror /\ Syncing(t)
  BY <1>1, SyncedParts
<1>3. UNCHANGED <<row, entry, worklog>>
  BY DEF Call, HrApprove, CancelLeave, PatchApproved, RetryView, RetryCommand, Start,
     NextDrop, LoopEnds, ResolveIssue, PutWorklog, TempoWriteFails,
     DropWorklogRefused, DropWorklogUnreachable, Crash
<1>4. Mirror'
  BY <1>1, <1>2, <1>3 DEF Mirror, Mirrored
<1>5. sync[t] \in Syncs /\ sync \in [Threads -> Syncs] /\ Fits(sync[t], row)
  BY DEF TempoInv, TypeOK
<1>6. Syncing(t)'
  <2>1. CASE Stop(t) \/ Goto(t, "start") \/ Goto(t, "failed")
    <3>1. \/ sync'[t] = Idle
          \/ sync'[t] = [sync[t] EXCEPT !.at = "start"]
          \/ sync'[t] = [sync[t] EXCEPT !.at = "failed"]
      BY <1>5, <2>1 DEF Stop, Goto
    <3>2. /\ sync'[t].at \in {"idle", "start", "failed"}
          /\ sync'[t].drop \in {{}, sync[t].drop}
          /\ sync'[t].todo \in {{}, sync[t].todo}
      BY <1>5, <3>1 DEF Idle, Syncs
    <3> QED
      BY <1>1, <1>2, <3>2 DEF Syncing, DropStages
  <2>3. CASE Start(t) /\ ~Stop(t)
    <3>1. Existing \subseteq leave.days
      BY <1>2 DEF Mirror, Existing
    <3>2. sync'[t] = [at |-> "next", on |-> enabled, drop |-> Stale,
                      todo |-> Wanted, day |-> 0, held |-> row, tries |-> 0]
      BY <1>5, <2>3 DEF Start
    <3>3. leave.status = "approved"
      BY <1>1, <2>3 DEF Start, Standing, TempoInv, TypeOK, Leaves, LeaveStatuses
    <3> QED
      BY <1>1, <2>3, <3>1, <3>2, <3>3 DEF Syncing, Stale, Wanted, Start, DropStages
  <2>4. CASE NextDrop(t)
    BY <1>2, <2>4 DEF NextDrop, Syncing
  <2>5. CASE ResolveIssue(t) /\ Goto(t, "entry")
    BY <1>2, <1>3, <1>5, <2>5
    DEF ResolveIssue, Goto, Syncing, DropStages, Day, Held, Syncs
  <2>6. CASE PutWorklog(t) /\ worklog[Held(t).worklog] = Day(t)
    <3>1. sync'[t] = [sync[t] EXCEPT !.at = "save_entry"]
      BY <1>5, <2>6 DEF PutWorklog, Goto
    <3> QED
      BY <1>2, <1>3, <1>5, <2>6, <3>1
      DEF PutWorklog, Syncing, DropStages, Day, Held, Syncs
  <2>7. CASE DropWorklogRefused(t) \/ DropWorklogUnreachable(t)
    BY <1>2, <2>7 DEF DropWorklogRefused, DropWorklogUnreachable, Syncing,
       DropStages
  <2> QED
    BY <1>1, <2>1, <2>3, <2>4, <2>5, <2>6, <2>7
    DEF Call, HrApprove, CancelLeave, PatchApproved, RetryView, RetryCommand, Start,
        LoopEnds, ResolveIssue, PutWorklog, TempoWriteFails, Crash
<1> QED
  BY <1>4, <1>6

\* Only the row and the entry of day d change, and no worklog that is there.
LEMMA MirrorWritten ==
  ASSUME TempoInv, TempoInv', Mirror, NEW d \in Days, leave' = leave,
         d \in leave.days,
         \A e \in Days \ {d} : row'[e] = row[e] /\ entry'[e] = entry[e],
         \A i \in Ids : worklog[i] # Unused => worklog'[i] = worklog[i],
         row'[d] # NoRow /\ row'[d].status = "synced" => Mirrored(d)'
  PROVE  Mirror'
<1>1. \A e \in Days : row'[e] # NoRow => e \in leave'.days
  BY DEF Mirror
<1>2. ASSUME NEW e \in Days, row'[e] # NoRow, row'[e].status = "synced"
      PROVE  Mirrored(e)'
  <2>1. CASE e = d
    BY <1>2, <2>1
  <2>2. CASE e # d
    <3>1. Mirrored(e) /\ row'[e] = row[e] /\ entry'[e] = entry[e]
      BY <1>2, <2>2 DEF Mirror
    <3>2. e # Unused
      BY TempoConstants DEF Unused
    <3> QED
      BY <3>1, <3>2 DEF Mirrored
  <2> QED
    BY <2>1, <2>2
<1> QED
  BY <1>1, <1>2 DEF Mirror

LEMMA DayWanted ==
  ASSUME TempoInv, Mirror, NEW t \in Threads, sync[t].at \in DayStages
  PROVE  Day(t) \in Days /\ Day(t) \in leave.days /\ row[Day(t)] \in SyncRows
         /\ row[Day(t)] # NoRow
BY DayKnown, TempoNulls DEF Mirror

\* Steps that write the status of the day's row.
LEMMA SyncedMarks ==
  ASSUME OneThread, TempoInv, TempoInv', SyncedInv, NEW t \in Threads,
         NextDay(t) \/ MarkSkipped(t) \/ MarkFailed(t) \/ MarkPending(t)
  PROVE  SyncedInv'
<1> USE DEF At
<1> SUFFICES ASSUME Standing'
             PROVE  Mirror' /\ Syncing(t)'
  BY SyncedParts
<1>1. UNCHANGED <<leave, entry, worklog>>
  BY DEF NextDay, MarkSkipped, MarkFailed, MarkPending
<1>2. Mirror /\ Syncing(t)
  BY <1>1, SyncedParts DEF Standing
<1>3. /\ sync[t] \in Syncs /\ sync \in [Threads -> Syncs] /\ Fits(sync[t], row)
      /\ row \in [Days -> SyncRows \cup {NoRow}]
  BY DEF TempoInv, TypeOK
<1>4. CASE NextDay(t)
  <2>1. PICK d \in sync[t].todo :
          /\ row' = [row EXCEPT ![d] = IF @ = NoRow THEN NewRow ELSE @]
          /\ sync' = [sync EXCEPT ![t] =
               [@ EXCEPT !.day = d, !.held[d] = row'[d],
                         !.at = IF sync[t].on THEN "pending" ELSE "skip"]]
    BY <1>4 DEF NextDay
  <2>2. d \in Days /\ d \in leave.days
    BY <1>2, <1>3 DEF Syncs, Syncing
  <2>3. row'[d].status = "synced" => row'[d] = row[d] /\ row[d] # NoRow
    BY <1>3, <2>1, <2>2 DEF NewRow
  <2>4. row'[d] # NoRow /\ row'[d].status = "synced" => Mirrored(d)'
    BY <1>1, <1>2, <2>2, <2>3 DEF Mirror, Mirrored
  <2>5. Mirror'
    BY <1>1, <1>2, <1>3, <2>1, <2>2, <2>4, MirrorWritten
  <2>6. /\ sync'[t].at \in {"pending", "skip"}
        /\ sync'[t].drop = sync[t].drop /\ sync'[t].todo = sync[t].todo
    BY <1>3, <2>1 DEF Syncs
  <2> QED
    BY <1>1, <1>2, <2>5, <2>6 DEF Syncing, DropStages
<1>5. CASE MarkSkipped(t) \/ MarkFailed(t) \/ MarkPending(t)
  <2>1. sync[t].at \in DayStages
    BY <1>5 DEF MarkSkipped, MarkFailed, MarkPending, DayStages, Stages
  <2>2. Day(t) \in Days /\ Day(t) \in leave.days /\ row[Day(t)] \in SyncRows
    BY <1>2, <2>1, DayWanted
  <2>3. CASE MarkPending(t) /\ Goto(t, "failed") /\ UNCHANGED row
    <3>1. sync'[t] = [sync[t] EXCEPT !.at = "failed"]
      BY <1>3, <2>3 DEF Goto
    <3> QED
      BY <1>1, <1>2, <1>3, <2>3, <3>1, MirrorKept DEF Syncing, DropStages, Syncs
  <2>4. ASSUME NEW status \in {"skipped", "failed", "pending"},
               SetStatus(t, status)
        PROVE  Mirror' /\ row'[Day(t)].status = status
    <3>1. /\ row'[Day(t)].status = status
          /\ \A e \in Days \ {Day(t)} : row'[e] = row[e]
      BY <1>3, <2>2, <2>4 DEF SetStatus, SyncRows
    <3> QED
      BY <1>1, <1>2, <2>2, <3>1, MirrorWritten
  <2>5. CASE MarkPending(t) /\ SetStatus(t, "pending") /\ Goto(t, "issue")
    <3>1. sync'[t] = [sync[t] EXCEPT !.at = "issue"]
      BY <1>3, <2>5 DEF Goto
    <3>2. Mirror' /\ row'[Day(t)].status = "pending"
      BY <2>4, <2>5
    <3> QED
      BY <1>1, <1>2, <1>3, <3>1, <3>2 DEF Syncing, DropStages, Day, Syncs
  <2>6. CASE DayDone(t) /\ (SetStatus(t, "skipped") \/ SetStatus(t, "failed"))
    <3>1. /\ sync'[t].at = "next" /\ sync'[t].drop \subseteq sync[t].drop
          /\ sync'[t].todo \subseteq sync[t].todo
      BY <1>3, <2>6 DEF DayDone, Syncs
    <3>2. Mirror'
      BY <2>4, <2>6
    <3> QED
      BY <1>1, <1>2, <3>1, <3>2 DEF Syncing, DropStages
  <2> QED
    BY <1>5, <2>3, <2>5, <2>6 DEF MarkSkipped, MarkFailed, MarkPending
<1> QED
  BY <1>4, <1>5

\* Steps that write the entry, the worklog or the whole row of the day.
LEMMA SyncedWrites ==
  ASSUME OneThread, TempoInv, TempoInv', SyncedInv, NEW t \in Threads,
         \/ UpsertTimeEntry(t) \/ PostWorklog(t) \/ PostReplyLost(t)
         \/ SaveEntryId(t) \/ SaveSyncRow(t)
  PROVE  SyncedInv'
<1> USE DEF At
<1> SUFFICES ASSUME Standing'
             PROVE  Mirror' /\ Syncing(t)'
  BY SyncedParts
<1>1. leave' = leave
  BY DEF UpsertTimeEntry, PostWorklog, PostReplyLost, SaveEntryId, SaveSyncRow, Post
<1>2. Mirror /\ Syncing(t)
  BY <1>1, SyncedParts DEF Standing
<1>3. /\ sync[t] \in Syncs /\ sync \in [Threads -> Syncs] /\ Fits(sync[t], row)
      /\ row \in [Days -> SyncRows \cup {NoRow}]
      /\ entry \in [Days -> Ids \cup {NoId, NoEntry}]
      /\ worklog \in [Ids -> Days \cup {Unused, Gone}]
  BY DEF TempoInv, TypeOK
<1>4. /\ sync[t].at \in {"entry", "tempo", "save_entry", "save_row"}
      /\ sync[t].at \in DayStages
  BY DEF UpsertTimeEntry, PostWorklog, PostReplyLost, SaveEntryId, SaveSyncRow, Post,
     DayStages, Stages
<1>5. /\ Day(t) \in Days /\ Day(t) \in leave.days /\ row[Day(t)] \in SyncRows
      /\ row[Day(t)].status = "pending" /\ Held(t) \in SyncRows
      /\ Day(t) # Unused
  BY <1>2, <1>4, DayWanted, DayKnown, TempoConstants DEF Syncing, Unused
<1>6. CASE UpsertTimeEntry(t)
  <2>1. /\ row'[Day(t)].status = "pending" /\ UNCHANGED worklog
        /\ \A e \in Days \ {Day(t)} : row'[e] = row[e] /\ entry'[e] = entry[e]
    BY <1>3, <1>5, <1>6 DEF UpsertTimeEntry, SyncRows
  <2>2. Mirror'
    BY <1>1, <1>2, <1>5, <2>1, MirrorWritten
  <2>3. /\ sync'[t].at = "tempo" /\ sync'[t].day = Day(t)
        /\ sync'[t].drop = sync[t].drop /\ sync'[t].todo = sync[t].todo
    BY <1>3, <1>6 DEF UpsertTimeEntry, Day, Syncs
  <2> QED
    BY <1>1, <1>2, <2>1, <2>2, <2>3 DEF Syncing, DropStages, Day
<1>7. CASE PostWorklog(t) \/ PostReplyLost(t)
  <2>1. PICK id \in Ids :
          /\ Post(t, id)
          /\ PostWorklog(t) =>
               sync' = [sync EXCEPT ![t] = [@ EXCEPT !.at = "save_entry",
                                              !.held[Day(t)].worklog = id]]
    BY <1>7 DEF PostWorklog, PostReplyLost
  <2>2. /\ UNCHANGED <<row, entry>> /\ worklog'[id] = Day(t)
        /\ \A i \in Ids : worklog[i] # Unused => worklog'[i] = worklog[i]
    BY <1>3, <2>1 DEF Post
  <2>3. Mirror'
    BY <1>1, <1>2, <1>5, <2>2, MirrorWritten
  <2>4. CASE PostWorklog(t)
    <3> DEFINE copy == [Held(t) EXCEPT !.worklog = id]
               held == [sync[t].held EXCEPT ![Day(t)] = copy]
    <3>2. copy.worklog = id
      BY <1>5 DEF SyncRows
    <3>3. held[Day(t)] = copy
      BY <1>3, <1>5 DEF Syncs
    <3>4. sync'[t] = [sync[t] EXCEPT !.at = "save_entry", !.held = held]
      BY <1>3, <2>1, <2>4 DEF Held, Syncs
    <3> HIDE DEF copy, held
    <3>1. /\ sync'[t].at = "save_entry" /\ sync'[t].day = Day(t)
          /\ sync'[t].drop = sync[t].drop /\ sync'[t].todo = sync[t].todo
          /\ sync'[t].held[Day(t)].worklog = id
      BY <1>3, <3>2, <3>3, <3>4 DEF Syncs, Day
    <3> QED
      BY <1>1, <1>2, <1>5, <2>2, <2>3, <3>1 DEF Syncing, DropStages, Day, Held
  <2>5. CASE PostReplyLost(t)
    <3>1. sync[t].at = "tempo"
      BY <2>1 DEF Post
    <3>2. /\ sync'[t].at \in {"tempo", "failed"} /\ sync'[t].day = Day(t)
          /\ sync'[t].drop = sync[t].drop /\ sync'[t].todo = sync[t].todo
      BY <1>3, <2>5, <3>1 DEF PostReplyLost, Syncs, Day
    <3> QED
      BY <1>1, <1>2, <1>5, <2>2, <2>3, <3>2 DEF Syncing, DropStages, Day
  <2> QED
    BY <1>7, <2>4, <2>5
<1>8. CASE SaveEntryId(t) \/ SaveSyncRow(t)
  <2>1. /\ Held(t).worklog \in Ids /\ worklog[Held(t).worklog] = Day(t)
        /\ UNCHANGED worklog
    BY <1>2, <1>3, <1>5, <1>8
    DEF SaveEntryId, SaveSyncRow, Syncing, Fits, SyncRows, Held, Day
  <2>2. CASE entry[Day(t)] = NoEntry
    <3>1. /\ UNCHANGED <<row, entry>>
          /\ sync'[t] = [sync[t] EXCEPT !.at = "failed"]
      BY <1>3, <1>8, <2>2 DEF SaveEntryId, SaveSyncRow, Goto
    <3>2. Mirror'
      BY <1>1, <1>2, <2>1, <3>1, MirrorKept, <1>8 DEF Mirror, Mirrored
    <3> QED
      BY <1>1, <1>2, <1>3, <3>1, <3>2 DEF Syncing, DropStages, Syncs
  <2>3. CASE SaveEntryId(t) /\ entry[Day(t)] # NoEntry
    <3>1. /\ entry' = [entry EXCEPT ![Day(t)] = Held(t).worklog]
          /\ UNCHANGED row /\ sync'[t] = [sync[t] EXCEPT !.at = "save_row"]
      BY <1>3, <2>3 DEF SaveEntryId, Goto
    <3>2. Mirror'
      BY <1>1, <1>2, <1>3, <1>5, <2>1, <3>1, MirrorWritten
    <3> QED
      BY <1>1, <1>2, <1>3, <1>5, <2>1, <3>1, <3>2
      DEF Syncing, DropStages, Syncs, Day, Held
  <2>4. CASE SaveSyncRow(t) /\ entry[Day(t)] # NoEntry
    <3>1. /\ row'[Day(t)].worklog = Held(t).worklog
          /\ \A e \in Days \ {Day(t)} : row'[e] = row[e]
          /\ UNCHANGED entry
      BY <1>3, <1>5, <2>4 DEF SaveSyncRow
    <3>2. entry[Day(t)] = Held(t).worklog
      BY <1>2, <2>4 DEF Syncing, SaveSyncRow
    <3>3. PICK d \in Days : d = Day(t)
      BY <1>5
    <3>6. Mirrored(d)'
      BY <2>1, <3>1, <3>2, <3>3 DEF Mirrored
    <3>4. Mirror'
      BY <1>1, <1>2, <1>5, <2>1, <3>1, <3>3, <3>6, MirrorWritten
    <3>5. /\ sync'[t].at = "next" /\ sync'[t].drop \subseteq sync[t].drop
          /\ sync'[t].todo \subseteq sync[t].todo
      BY <1>3, <2>4 DEF SaveSyncRow, DayDone, Syncs
    <3> QED
      BY <1>1, <1>2, <3>4, <3>5 DEF Syncing, DropStages
  <2> QED
    BY <1>8, <2>2, <2>3, <2>4
<1> QED
  BY <1>6, <1>7, <1>8

LEMMA SyncedStep ==
  ASSUME OneThread, Patches = {}, TempoInv, TempoInv', SyncedInv, [Next]_vars
  PROVE  SyncedInv'
<1>1. ASSUME NEW t \in Threads, DropWorklog(t) \/ DropEntry(t) \/ DropRow(t)
      PROVE  SyncedInv'
  <2>1. leave' = leave /\ sync[t].at \in DropStages
    BY <1>1 DEF DropWorklog, DropEntry, DropRow, DropStages, At
  <2>2. ~Standing
    BY <2>1 DEF SyncedInv, Syncing
  <2> QED
    BY <2>1, <2>2 DEF SyncedInv, Standing
<1>5. ASSUME NEW t \in Threads, RowsGone(t) PROVE SyncedInv'
  BY <1>5 DEF RowsGone, RowsThere, SyncedInv, Standing
<1>6. CASE Silent
  <2>1. UNCHANGED <<row, entry, worklog, sync>>
    BY <1>6, SilentTypes
  <2>2. ~Standing' \/ (Standing /\ leave'.days = leave.days)
    <3>1. CASE PatchOther
      BY <3>1 DEF PatchOther, Patched, Standing, TempoInv, TypeOK, Leaves
    <3>2. CASE AssistantCancel \/ Reject \/ DeleteLeave
      BY <3>2 DEF AssistantCancel, Reject, DeleteLeave, SetLeave, Standing,
         TempoInv, TypeOK, Leaves
    <3> QED
      BY <1>6, <3>1, <3>2 DEF Silent
  <2> QED
    BY <2>1, <2>2 DEF SyncedInv, Syncing, Mirrored, Day, Held
<1>2. CASE UNCHANGED vars
  BY <1>2 DEF vars, Standing, SyncedInv, Syncing, Mirrored, Day, Held
<1>3. CASE ToggleEnabled
  BY <1>3 DEF ToggleEnabled, Standing, SyncedInv, Syncing, Mirrored, Day, Held
<1>4. ASSUME NEW t \in Threads, Call(t) \/ Progress(t) \/ Fault(t)
      PROVE  SyncedInv'
  BY <1>1, <1>4, <1>5, SyncedReads, SyncedMarks, SyncedWrites DEF Progress, Fault
<1> QED
  BY <1>2, <1>3, <1>4, <1>6 DEF Next

\* A day marked synced is in Tempo and its entry says so, whatever call to
\* Tempo or Jira fails, is lost or is cut off by a crash, as long as one
\* synchronisation runs at a time and no PATCH writes the leave's dates or status
\* (_sync_one_day saves "synced" last).
THEOREM SyncedMeansInTempoHolds ==
  ASSUME OneThread, Patches = {} PROVE Spec => []SyncedMeansInTempo
<1>1. TempoInv /\ SyncedInv => SyncedMeansInTempo
  <2> SUFFICES ASSUME TempoInv, SyncedInv, leave.status = "approved",
                      NEW d \in leave.days, row[d] # NoRow,
                      row[d].status = "synced"
               PROVE  Mirrored(d)
    BY DEF SyncedMeansInTempo, Mirrored
  <2>1. d \in Days
    BY TempoConstants DEF TempoInv, TypeOK, Leaves
  <2> QED
    BY <2>1 DEF SyncedInv, Standing
<1>2. TempoInv /\ TempoInv' /\ SyncedInv /\ [Next]_vars => SyncedInv'
  BY SyncedStep
<1> QED
  BY <1>1, <1>2, SyncedInit, TempoInvariant, PTL DEF Spec

-----------------------------------------------------------------------------
(* One worklog for each day.                                               *)

\* No answer of Tempo is lost and no worker dies: after either, a worklog is
\* in Tempo that nobody knows of, and the day is posted again.
Reliable == Faults \cap {"lost_reply", "crash"} = {}

AllRecorded == \A i \in Ids : worklog[i] \in Days => Recorded(worklog[i], i)

LEMMA KnownInit == Init => KnownInv
BY TempoConstants DEF Init, KnownInv, Knowing, Idle, Unused

LEMMA KnownParts ==
  ASSUME OneThread, NEW t \in Threads, AllRecorded', Knowing(t)'
  PROVE  KnownInv'
<1>1. \A u \in Threads : u = t
  BY DEF OneThread
<1>2. \A u \in Threads : Knowing(u)'
  BY <1>1
<1> QED
  BY <1>2 DEF KnownInv, AllRecorded

LEMMA OnlySaving ==
  ASSUME OneThread, NEW t \in Threads, AllRecorded,
         NEW i \in Ids, worklog[i] \in Days
  PROVE  \/ row[worklog[i]] # NoRow /\ row[worklog[i]].worklog = i
         \/ Saving(t, worklog[i], i)
BY DEF OneThread, AllRecorded, Recorded

\* A step that posts nothing and keeps the ids in the rows, of a thread that
\* has no worklog to save.
LEMMA RecordsKept ==
  ASSUME OneThread, KnownInv, NEW t \in Threads,
         sync[t].at \notin {"save_entry", "save_row"},
         \A i \in Ids : worklog'[i] \in Days => worklog'[i] = worklog[i],
         \A d \in Days : row[d] # NoRow =>
           row'[d] # NoRow /\ row'[d].worklog = row[d].worklog
  PROVE  AllRecorded'
<1> SUFFICES ASSUME NEW i \in Ids, worklog'[i] \in Days
             PROVE  Recorded(worklog[i], i)'
  <2>1. \A i \in Ids : worklog'[i] \in Days => Recorded(worklog[i], i)'
    OBVIOUS
  <2> QED
    BY <2>1 DEF AllRecorded
<1>1. worklog'[i] = worklog[i]
  OBVIOUS
<1>2. row[worklog[i]] # NoRow /\ row[worklog[i]].worklog = i
  BY <1>1, OnlySaving DEF KnownInv, AllRecorded, Saving
<1> QED
  BY <1>1, <1>2 DEF Recorded

UnknowingStages == {"idle", "start", "next", "skip", "failed", "drop_worklog",
                    "drop_entry", "drop_row"}

LEMMA Unknowing ==
  ASSUME NEW t \in Threads, sync'[t].at \in UnknowingStages PROVE Knowing(t)'
BY DEF Knowing, UnknowingStages

\* Steps that leave rows, entries and worklogs as they are, at a day or not.
LEMMA KnownReads ==
  ASSUME OneThread, TempoInv, KnownInv, NEW t \in Threads,
         \/ Call(t) \/ Start(t) \/ NextDrop(t) \/ LoopEnds(t) \/ ResolveIssue(t)
         \/ PutWorklog(t) \/ TempoWriteFails(t) \/ DropWorklogRefused(t)
         \/ DropWorklogUnreachable(t)
  PROVE  KnownInv'
<1> USE DEF At
<1>1. /\ sync[t] \in Syncs /\ sync \in [Threads -> Syncs] /\ Fits(sync[t], row)
  BY DEF TempoInv, TypeOK
<1>2. Knowing(t)
  BY DEF KnownInv
<1>3. /\ UNCHANGED <<row, entry, worklog>>
      /\ sync[t].at \notin {"save_entry", "save_row"}
  BY DEF Call, HrApprove, CancelLeave, PatchApproved, RetryView, RetryCommand, Start,
     NextDrop, LoopEnds, ResolveIssue, PutWorklog, TempoWriteFails,
     DropWorklogRefused, DropWorklogUnreachable
<1>4. AllRecorded'
  BY <1>3, RecordsKept
<1>5. Knowing(t)'
  <2>1. CASE Stop(t) \/ Goto(t, "start") \/ Goto(t, "failed") \/ NextDrop(t)
             \/ Start(t)
    <3>1. sync'[t].at \in UnknowingStages
      <4>1. CASE Stop(t)
        BY <1>1, <4>1 DEF Stop, Idle, UnknowingStages
      <4>2. CASE Goto(t, "start") \/ Goto(t, "failed")
        BY <1>1, <4>2 DEF Goto, Syncs, UnknowingStages
      <4>3. CASE NextDrop(t)
        BY <1>1, <4>3 DEF NextDrop, Syncs, UnknowingStages
      <4>4. CASE Start(t) /\ ~Stop(t)
        BY <1>1, <4>4 DEF Start, UnknowingStages
      <4> QED
        BY <2>1, <4>1, <4>2, <4>3, <4>4
    <3> QED
      BY <3>1, Unknowing
  <2>3. CASE ResolveIssue(t) /\ Goto(t, "entry")
    <3>1. sync'[t] = [sync[t] EXCEPT !.at = "entry"]
      BY <1>1, <2>3 DEF Goto
    <3> QED
      BY <1>1, <1>2, <1>3, <2>3, <3>1 DEF ResolveIssue, Knowing, Day, Held, Syncs
  <2>4. CASE PutWorklog(t) /\ Goto(t, "save_entry")
    <3>1. sync'[t] = [sync[t] EXCEPT !.at = "save_entry"]
      BY <1>1, <2>4 DEF Goto
    <3> QED
      BY <1>1, <1>2, <1>3, <2>4, <3>1 DEF PutWorklog, Knowing, Day, Held, Syncs
  <2> QED
    BY <2>1, <2>3, <2>4
    DEF Call, HrApprove, CancelLeave, PatchApproved, RetryView, RetryCommand,
        LoopEnds, ResolveIssue, PutWorklog, TempoWriteFails, DropWorklogRefused,
        DropWorklogUnreachable
<1> QED
  BY <1>4, <1>5, KnownParts

\* Steps that create or mark rows, delete worklogs or clear entries.
LEMMA KnownMarks ==
  ASSUME OneThread, TempoInv, KnownInv, NEW t \in Threads,
         \/ NextDay(t) \/ MarkSkipped(t) \/ MarkFailed(t) \/ MarkPending(t)
         \/ DropWorklog(t) \/ DropEntry(t) \/ DropRow(t)
  PROVE  KnownInv'
<1> USE DEF At
<1>1. /\ sync[t] \in Syncs /\ sync \in [Threads -> Syncs] /\ Fits(sync[t], row)
      /\ row \in [Days -> SyncRows \cup {NoRow}]
      /\ worklog \in [Ids -> Days \cup {Unused, Gone}] /\ Gone \notin Days
  BY TempoConstants DEF TempoInv, TypeOK, Gone
<1>2. Knowing(t)
  BY DEF KnownInv
<1>3. CASE NextDay(t)
  <2>1. PICK d \in sync[t].todo :
          /\ row' = [row EXCEPT ![d] = IF @ = NoRow THEN NewRow ELSE @]
          /\ sync' = [sync EXCEPT ![t] =
               [@ EXCEPT !.day = d, !.held[d] = row'[d],
                         !.at = IF sync[t].on THEN "pending" ELSE "skip"]]
    BY <1>3 DEF NextDay
  <2>2. d \in Days
    BY <1>1 DEF Syncs
  <2>3. \A e \in Days : row[e] # NoRow => row'[e] = row[e]
    BY <1>1, <2>1, <2>2
  <2>4. sync[t].at = "next" /\ UNCHANGED worklog
    BY <1>3 DEF NextDay
  <2>5. AllRecorded'
    BY <2>3, <2>4, RecordsKept
  <2>6. /\ sync'[t].at \in {"pending", "skip"} /\ sync'[t].day = d
        /\ sync'[t].held[d] = row'[d]
    BY <1>1, <2>1, <2>2 DEF Syncs
  <2>7. Knowing(t)'
    BY <2>6 DEF Knowing, Day, Held
  <2> QED
    BY <2>5, <2>7, KnownParts
<1>4. CASE \/ MarkSkipped(t) \/ MarkFailed(t) \/ MarkPending(t)
           \/ DropWorklog(t) \/ DropEntry(t) \/ DropRow(t)
  <2>1. sync[t].at \in DayStages /\ sync[t].at \notin {"save_entry", "save_row"}
    BY <1>4 DEF MarkSkipped, MarkFailed, MarkPending, DropWorklog, DropEntry,
       DropRow, DayStages, Stages
  <2>2. Day(t) \in Days /\ row[Day(t)] \in SyncRows /\ Held(t) \in SyncRows
    BY <2>1, DayKnown
  <2>3. \/ UNCHANGED row \/ row' = [row EXCEPT ![Day(t)].linked = FALSE]
        \/ \E status \in SyncStatuses : SetStatus(t, status)
    BY <1>4 DEF MarkSkipped, MarkFailed, MarkPending, DropWorklog, DropEntry,
       DropRow, SyncStatuses
  <2>4. \A d \in Days : row[d] # NoRow =>
          row'[d] # NoRow /\ row'[d].worklog = row[d].worklog
    <3>1. RowsKept
      <4>1. [row[Day(t)] EXCEPT !.linked = FALSE] \in SyncRows
        BY <2>2 DEF SyncRows
      <4> QED
        BY <1>1, <2>1, <2>2, <2>3, <4>1, StatusWritten, RowWritten DEF RowsKept
    <3>2. row'[Day(t)].worklog = row[Day(t)].worklog
      BY <1>1, <2>2, <2>3 DEF SetStatus, SyncRows
    <3>3. \A d \in Days \ {Day(t)} : row'[d] = row[d]
      BY <1>1, <2>2, <2>3 DEF SetStatus
    <3> QED
      BY <3>1, <3>2, <3>3 DEF RowsKept
  <2>5. \A i \in Ids : worklog'[i] \in Days => worklog'[i] = worklog[i]
    BY <1>1, <1>4 DEF MarkSkipped, MarkFailed, MarkPending, DropWorklog, DropEntry,
       DropRow
  <2>6. AllRecorded'
    BY <2>1, <2>4, <2>5, RecordsKept
  <2>7. CASE MarkPending(t) /\ Goto(t, "issue")
    <3>1. sync'[t] = [sync[t] EXCEPT !.at = "issue"]
      BY <1>1, <2>7 DEF Goto
    <3>2. /\ sync'[t].at = "issue" /\ sync'[t].day = Day(t)
          /\ sync'[t].held = sync[t].held
      BY <1>1, <3>1 DEF Syncs, Day
    <3>3. Held(t).worklog = row[Day(t)].worklog /\ row[Day(t)] # NoRow
      BY <1>2, <2>2, <2>7, TempoNulls DEF MarkPending, Knowing
    <3>4. Knowing(t)'
      BY <2>2, <2>4, <3>2, <3>3 DEF Knowing, Day, Held
    <3> QED
      BY <2>6, <3>4, KnownParts
  <2>8. CASE ~(MarkPending(t) /\ Goto(t, "issue"))
    <3>1. CASE Stop(t)
      BY <1>1, <2>6, <3>1, Unknowing, KnownParts DEF Stop, Idle, UnknowingStages
    <3>2. CASE DayDone(t)
      <4>1. sync'[t].at = "next"
        BY <1>1, <3>2 DEF DayDone, Syncs
      <4> QED
        BY <2>6, <4>1, Unknowing, KnownParts DEF UnknowingStages
    <3>3. CASE Goto(t, "failed") \/ Goto(t, "drop_entry") \/ Goto(t, "drop_row")
      <4>1. sync'[t].at \in UnknowingStages
        BY <1>1, <3>3 DEF Goto, Syncs, UnknowingStages
      <4> QED
        BY <2>6, <4>1, Unknowing, KnownParts
    <3> QED
      BY <1>4, <2>8, <3>1, <3>2, <3>3
      DEF MarkSkipped, MarkFailed, MarkPending, DropWorklog, DropEntry, DropRow
  <2> QED
    BY <2>7, <2>8
<1> QED
  BY <1>3, <1>4

\* Upsert: an id that only the entry knows is known to the row from here on.
LEMMA KnownUpsert ==
  ASSUME OneThread, TempoInv, KnownInv, NEW t \in Threads, UpsertTimeEntry(t)
  PROVE  KnownInv'
<1> DEFINE known == KnownId(t)
           copy == [Held(t) EXCEPT !.worklog = known]
           held == [sync[t].held EXCEPT ![Day(t)] = copy]
<1>1. /\ sync[t] \in Syncs /\ sync \in [Threads -> Syncs]
      /\ row \in [Days -> SyncRows \cup {NoRow}]
      /\ entry \in [Days -> Ids \cup {NoId, NoEntry}]
  BY DEF TempoInv, TypeOK
<1>2. sync[t].at = "entry" /\ sync[t].at \in DayStages
  BY DEF UpsertTimeEntry, At, DayStages, Stages
<1>3. /\ Day(t) \in Days /\ Held(t) \in SyncRows
      /\ row[Day(t)] \in SyncRows /\ row[Day(t)] # NoRow
      /\ known \in Ids \cup {NoId} /\ Held(t).worklog = row[Day(t)].worklog
  BY <1>2, DayKnown, KnownIdTyped, TempoNulls DEF KnownInv, Knowing
<1>4. Held(t).worklog # NoId => known = Held(t).worklog
  BY DEF KnownId
<1>5. /\ row'[Day(t)] # NoRow /\ row'[Day(t)].worklog = known
      /\ \A d \in Days \ {Day(t)} : row'[d] = row[d]
      /\ UNCHANGED worklog /\ entry'[Day(t)] = known
  <2> HIDE DEF known
  <2>1. /\ entry' = [entry EXCEPT ![Day(t)] = KnownId(t)] /\ UNCHANGED worklog
        /\ row' = IF KnownId(t) = Held(t).worklog THEN row
                  ELSE [row EXCEPT ![Day(t)].worklog = KnownId(t)]
    BY DEF UpsertTimeEntry
  <2>2. [row[Day(t)] EXCEPT !.worklog = known] \in SyncRows
    BY <1>3 DEF SyncRows
  <2>3. KnownId(t) = known
    BY DEF known
  <2> QED
    BY <1>1, <1>3, <2>1, <2>2, <2>3, TempoNulls DEF SyncRows
<1>6. /\ sync'[t].at = "tempo" /\ sync'[t].day = Day(t)
      /\ sync'[t].held[Day(t)].worklog = known
  <2>1. sync'[t] = [sync[t] EXCEPT !.at = "tempo", !.tries = 0, !.held = held]
    BY <1>1 DEF UpsertTimeEntry, Held, Syncs
  <2>2. copy.worklog = known
    BY <1>3 DEF SyncRows
  <2>3. held[Day(t)] = copy
    BY <1>1, <1>3 DEF Syncs
  <2> HIDE DEF copy, held, known
  <2> QED
    BY <1>1, <2>1, <2>2, <2>3 DEF Syncs, Day
<1> HIDE DEF known
<1>7. AllRecorded'
  <2> SUFFICES ASSUME NEW i \in Ids, worklog[i] \in Days
               PROVE  row'[worklog[i]] # NoRow /\ row'[worklog[i]].worklog = i
    BY <1>5 DEF AllRecorded, Recorded
  <2>1. row[worklog[i]] # NoRow /\ row[worklog[i]].worklog = i
    BY <1>2, OnlySaving DEF KnownInv, AllRecorded, Saving
  <2>2. i # NoId
    BY TempoConstants
  <2> QED
    BY <1>3, <1>4, <1>5, <2>1, <2>2
<1>8. known # NoEntry
  BY <1>3, TempoConstants
<1>9. Knowing(t)'
  BY <1>5, <1>6, <1>8 DEF Knowing, Day, Held
<1> QED
  BY <1>7, <1>9, KnownParts

\* A worklog is posted only for a day of which none is known.
LEMMA KnownPost ==
  ASSUME OneThread, TempoInv, KnownInv, NEW t \in Threads, PostWorklog(t)
  PROVE  KnownInv'
<1>1. /\ sync[t] \in Syncs /\ sync \in [Threads -> Syncs]
      /\ worklog \in [Ids -> Days \cup {Unused, Gone}]
  BY DEF TempoInv, TypeOK
<1>2. PICK id \in Ids :
        /\ Post(t, id)
        /\ sync' = [sync EXCEPT ![t] = [@ EXCEPT !.at = "save_entry",
                                          !.held[Day(t)].worklog = id]]
  BY DEF PostWorklog
<1>3. sync[t].at = "tempo" /\ sync[t].at \in DayStages
  BY <1>2 DEF Post, At, DayStages, Stages
<1>4. /\ Day(t) \in Days /\ Held(t) \in SyncRows
      /\ row[Day(t)].worklog = NoId /\ entry[Day(t)] # NoEntry
  BY <1>2, <1>3, DayKnown DEF KnownInv, Knowing, Post
<1>5. /\ worklog' = [worklog EXCEPT ![id] = Day(t)] /\ UNCHANGED <<row, entry>>
  BY <1>2 DEF Post
<1> DEFINE copy == [Held(t) EXCEPT !.worklog = id]
           held == [sync[t].held EXCEPT ![Day(t)] = copy]
<1>6. /\ sync'[t].at = "save_entry" /\ sync'[t].day = Day(t)
      /\ sync'[t].held[Day(t)].worklog = id
  <2>1. sync'[t] = [sync[t] EXCEPT !.at = "save_entry", !.held = held]
    BY <1>1, <1>2 DEF Held, Syncs
  <2>2. copy.worklog = id
    BY <1>4 DEF SyncRows
  <2>3. held[Day(t)] = copy
    BY <1>1, <1>4 DEF Syncs
  <2> HIDE DEF copy, held
  <2> QED
    BY <1>1, <2>1, <2>2, <2>3 DEF Syncs, Day
<1>7. AllRecorded'
  <2> SUFFICES ASSUME NEW i \in Ids, worklog'[i] \in Days
               PROVE  Recorded(worklog[i], i)'
    <3>1. \A i \in Ids : worklog'[i] \in Days => Recorded(worklog[i], i)'
      OBVIOUS
    <3> QED
      BY <3>1 DEF AllRecorded
  <2>1. CASE i = id
    BY <1>1, <1>5, <1>6, <2>1 DEF Recorded, Saving, Day, Held
  <2>2. CASE i # id
    <3>1. worklog'[i] = worklog[i]
      BY <1>1, <1>5, <2>2
    <3>2. row[worklog[i]] # NoRow /\ row[worklog[i]].worklog = i
      BY <1>3, <3>1, OnlySaving DEF KnownInv, AllRecorded, Saving
    <3> QED
      BY <1>5, <3>1, <3>2 DEF Recorded
  <2> QED
    BY <2>1, <2>2
<1>8. Knowing(t)'
  BY <1>4, <1>5, <1>6 DEF Knowing, Day, Held
<1> QED
  BY <1>7, <1>8, KnownParts

\* The entry, then the row, take the id of the worklog that was posted or put.
LEMMA KnownSave ==
  ASSUME OneThread, TempoInv, KnownInv, NEW t \in Threads,
         SaveEntryId(t) \/ SaveSyncRow(t)
  PROVE  KnownInv'
<1> USE DEF At
<1>1. /\ sync[t] \in Syncs /\ sync \in [Threads -> Syncs] /\ Fits(sync[t], row)
      /\ row \in [Days -> SyncRows \cup {NoRow}]
      /\ entry \in [Days -> Ids \cup {NoId, NoEntry}]
  BY DEF TempoInv, TypeOK
<1>2. sync[t].at \in {"save_entry", "save_row"} /\ sync[t].at \in DayStages
  BY DEF SaveEntryId, SaveSyncRow, DayStages, Stages
<1>3. /\ Day(t) \in Days /\ Held(t) \in SyncRows /\ entry[Day(t)] # NoEntry
      /\ row[Day(t)].worklog \in {NoId, Held(t).worklog}
      /\ Held(t).worklog \in Ids
  BY <1>1, <1>2, DayKnown DEF KnownInv, Knowing, Fits, SyncRows, Held, Day
<1>4. CASE SaveEntryId(t)
  <2>1. /\ entry' = [entry EXCEPT ![Day(t)] = Held(t).worklog]
        /\ UNCHANGED <<row, worklog>>
        /\ sync'[t] = [sync[t] EXCEPT !.at = "save_row"]
    BY <1>1, <1>3, <1>4 DEF SaveEntryId, Goto
  <2>2. /\ sync'[t].at = "save_row" /\ sync'[t].day = Day(t)
        /\ sync'[t].held = sync[t].held
    BY <1>1, <2>1 DEF Syncs, Day
  <2>3. entry'[Day(t)] # NoEntry
    BY <1>1, <1>3, <2>1, TempoConstants
  <2>4. Knowing(t)'
    BY <1>3, <2>1, <2>2, <2>3 DEF Knowing, Day, Held
  <2>5. AllRecorded'
    <3> SUFFICES ASSUME NEW i \in Ids, worklog'[i] \in Days
                 PROVE  Recorded(worklog[i], i)'
      <4>1. \A i \in Ids : worklog'[i] \in Days => Recorded(worklog[i], i)'
        OBVIOUS
      <4> QED
        BY <4>1 DEF AllRecorded
    <3>1. \/ row[worklog[i]] # NoRow /\ row[worklog[i]].worklog = i
          \/ Saving(t, worklog[i], i)
      BY <2>1, OnlySaving DEF KnownInv, AllRecorded
    <3> QED
      BY <2>1, <2>2, <3>1 DEF Recorded, Saving, Day, Held
  <2> QED
    BY <2>4, <2>5, KnownParts
<1>5. CASE SaveSyncRow(t)
  <2> DEFINE r == [status |-> "synced", worklog |-> Held(t).worklog,
                   linked |-> TRUE]
  <2>1. r \in SyncRows
    BY <1>3 DEF SyncRows, SyncStatuses
  <2>2. row' = [row EXCEPT ![Day(t)] = r] /\ DayDone(t) /\ UNCHANGED worklog
    BY <1>3, <1>5 DEF SaveSyncRow
  <2>3. r.worklog = Held(t).worklog /\ r # NoRow
    BY <2>1, TempoNulls
  <2> HIDE DEF r
  <2>4. AllRecorded'
    <3> SUFFICES ASSUME NEW i \in Ids, worklog[i] \in Days
                 PROVE  row'[worklog[i]] # NoRow /\ row'[worklog[i]].worklog = i
      BY <2>2 DEF AllRecorded, Recorded
    <3>1. \/ row[worklog[i]] # NoRow /\ row[worklog[i]].worklog = i
          \/ Day(t) = worklog[i] /\ Held(t).worklog = i
      BY OnlySaving DEF KnownInv, AllRecorded, Saving
    <3>2. i # NoId
      BY TempoConstants
    <3> QED
      BY <1>1, <1>3, <2>2, <2>3, <3>1, <3>2
  <2>5. sync'[t].at = "next"
    BY <1>1, <2>2 DEF DayDone, Syncs
  <2> QED
    BY <2>4, <2>5, Unknowing, KnownParts DEF UnknowingStages
<1> QED
  BY <1>4, <1>5

LEMMA KnownStep ==
  ASSUME OneThread, Reliable, TempoInv, KnownInv, [Next]_vars,
         \A t \in Threads : ~RowsGone(t)
  PROVE  KnownInv'
<1>1. CASE UNCHANGED vars
  BY <1>1 DEF vars, KnownInv, Recorded, Saving, Knowing, Day, Held
<1>2. CASE ToggleEnabled \/ Silent
  <2>1. UNCHANGED <<row, entry, worklog, sync>>
    BY <1>2, SilentTypes DEF ToggleEnabled
  <2> QED
    BY <2>1 DEF KnownInv, Recorded, Saving, Knowing, Day, Held
<1>3. ASSUME NEW t \in Threads, Call(t) \/ Progress(t) \/ Fault(t)
      PROVE  KnownInv'
  BY <1>3, KnownReads, KnownMarks, KnownUpsert, KnownPost, KnownSave
  DEF Progress, Fault, PostReplyLost, Crash, Reliable
<1> QED
  BY <1>1, <1>2, <1>3 DEF Next

LEMMA KnownSuffices == OneThread /\ TempoInv /\ KnownInv => NoDuplicateWorklogs
<1> SUFFICES ASSUME OneThread, TempoInv, KnownInv, NEW i \in Ids, NEW j \in Ids,
                    worklog[i] \in Days, worklog[i] = worklog[j]
             PROVE  i = j
  BY DEF NoDuplicateWorklogs
<1> DEFINE d == worklog[i]
<1>1. Recorded(d, i) /\ Recorded(d, j)
  BY DEF KnownInv
<1>2. i # NoId /\ j # NoId
  BY TempoConstants
<1>3. ASSUME NEW t \in Threads, NEW x \in Ids, Saving(t, d, x)
      PROVE  row[d].worklog \in {NoId, x}
  BY <1>3 DEF KnownInv, Knowing, Saving
<1> QED
  BY <1>1, <1>2, <1>3 DEF Recorded, Saving, OneThread

\* A run of a deleted leave may stop with a worklog that nothing names, but no
\* run comes after it.
Abandoned == ~RowsThere /\ Quiet

AbandonedInv == NoDuplicateWorklogs /\ (KnownInv \/ Abandoned)

LEMMA AbandonedStays ==
  ASSUME Abandoned, [Next]_vars PROVE Abandoned' /\ UNCHANGED worklog
<1> USE DEF Abandoned, RowsThere, Quiet, At
<1>1. CASE UNCHANGED vars
  BY <1>1 DEF vars
<1>2. CASE ToggleEnabled
  BY <1>2 DEF ToggleEnabled
<1>3. ~Silent
  BY DEF Silent, PatchOther, Patched, AssistantCancel, Reject, DeleteLeave
<1>4. ASSUME NEW t \in Threads PROVE ~(Call(t) \/ Progress(t) \/ Fault(t))
  <2>1. sync[t].at = "idle" /\ leave.status = "deleted"
    OBVIOUS
  <2>2. ~Call(t)
    BY <2>1 DEF Call, HrApprove, CancelLeave, PatchApproved, Patched, RetryView,
       RetryCommand
  <2>3. ~Progress(t)
    BY <2>1 DEF Progress, Start, NextDrop, NextDay, RowsGone, LoopEnds,
       MarkSkipped, MarkFailed, MarkPending, ResolveIssue, UpsertTimeEntry,
       PostWorklog, Post, PutWorklog, SaveEntryId, SaveSyncRow, DropWorklog,
       DropEntry, DropRow
  <2>4. ~Fault(t)
    BY <2>1 DEF Fault, PostReplyLost, Post, TempoWriteFails, DropWorklogRefused,
       DropWorklogUnreachable, Crash
  <2> QED
    BY <2>2, <2>3, <2>4
<1> QED
  BY <1>1, <1>2, <1>3, <1>4 DEF Next

LEMMA AbandonedStep ==
  ASSUME OneThread, Reliable, TempoInv, TempoInv', AbandonedInv, [Next]_vars
  PROVE  AbandonedInv'
<1>1. CASE Abandoned
  BY <1>1, AbandonedStays DEF AbandonedInv, NoDuplicateWorklogs
<1>2. CASE KnownInv /\ \A t \in Threads : ~RowsGone(t)
  <2>1. KnownInv'
    BY <1>2, KnownStep
  <2>2. OneThread'
    BY DEF OneThread
  <2> QED
    BY <2>1, <2>2, KnownSuffices, PTL DEF AbandonedInv
<1>3. ASSUME NEW t \in Threads, RowsGone(t) PROVE AbandonedInv'
  <2>1. UNCHANGED <<leave, worklog>> /\ ~RowsThere /\ sync' = [sync EXCEPT ![t] = Idle]
    BY <1>3 DEF RowsGone, Stop
  <2>2. sync \in [Threads -> Syncs]
    BY DEF TempoInv, TypeOK
  <2>3. sync'[t].at = "idle"
    BY <2>1, <2>2 DEF Idle
  <2>4. \A u \in Threads : sync'[u].at = "idle"
    BY <2>3 DEF OneThread
  <2> QED
    BY <2>1, <2>4 DEF AbandonedInv, Abandoned, NoDuplicateWorklogs, RowsThere, Quiet, At
<1> QED
  BY <1>1, <1>2, <1>3 DEF AbandonedInv

\* A day never has two worklogs in Tempo, however often its synchronisation is
\* refused and run again and whoever writes or deletes the leave meanwhile, as
\* long as no answer is lost, no worker dies and one synchronisation runs at a
\* time (_upsert_tempo_worklog puts what it knows).
THEOREM NoDuplicateWorklogsHolds ==
  ASSUME OneThread, Reliable PROVE Spec => []NoDuplicateWorklogs
<1>1. AbandonedInv => NoDuplicateWorklogs
  BY DEF AbandonedInv
<1>2. Init => AbandonedInv
  BY KnownInit, TempoInit, KnownSuffices DEF AbandonedInv
<1>3. TempoInv /\ TempoInv' /\ AbandonedInv /\ [Next]_vars => AbandonedInv'
  BY AbandonedStep
<1> QED
  BY <1>1, <1>2, <1>3, TempoInvariant, PTL DEF Spec
=============================================================================
