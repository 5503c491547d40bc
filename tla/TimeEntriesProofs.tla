-------------------------- MODULE TimeEntriesProofs --------------------------
(***************************************************************************)
(* Theorems about TimeEntries for any number of entries, worklogs, threads *)
(* and clients.                                                            *)
(*                                                                         *)
(* A row is only ever replaced by a copy held by a thread or by itself     *)
(* with some columns changed.  So what is claimed of the rows is claimed   *)
(* of the copies as well, in StampInv, and each step keeps both.           *)
(***************************************************************************)
EXTENDS TimeEntries, TLAPS

Stages == Calls \cup {"none", "save", "undo", "commit", "write", "insert"}
CopyStages == Decisions \cup Resolutions \cup {"edit", "save", "write"}
KeyStages == CopyStages \cup {"delete", "undo"}
ImportStages == {"import", "commit", "write", "insert"}

Jobs == [call : Stages, key : Entries \cup {NoRow}, row : Rows \cup {NoRow},
         worklog : Worklogs \cup {Manual}, said : Values \cup {Gone},
         flag : Flags]

JobFits(j) ==
  /\ j.call \in KeyStages => j.key \in Entries
  /\ j.call \in CopyStages => j.row \in Rows
  /\ j.call \in Decisions => j.row.status = "submitted"
  /\ j.call \in ImportStages => j.worklog \in Worklogs /\ j.said \in Values

JobOK ==
  /\ job \in [Threads -> Jobs]
  /\ \A t \in Threads : JobFits(job[t])

TimeInv == TypeOK /\ JobOK

-----------------------------------------------------------------------------
(* Type correctness.                                                       *)

LEMMA IdleFits == Idle \in Jobs /\ JobFits(Idle)
BY DEF Idle, Jobs, JobFits, Stages, KeyStages, CopyStages, ImportStages, Calls,
   Decisions, Resolutions, AssistantCalls, Flags

LEMMA TimeInit == Init => TimeInv
<1> SUFFICES ASSUME Init PROVE TimeInv
  OBVIOUS
<1>1. TypeOK
  BY DEF Init, TypeOK
<1>2. JobOK
  BY IdleFits DEF Init, JobOK
<1> QED
  BY <1>1, <1>2 DEF TimeInv

LEMMA JobStep ==
  ASSUME JobOK, NEW t \in Threads, NEW j \in Jobs, JobFits(j),
         job' = [job EXCEPT ![t] = j]
  PROVE  JobOK'
BY DEF JobOK, JobFits

LEMMA DoneStep == ASSUME JobOK, NEW t \in Threads, Done(t) PROVE JobOK'
BY IdleFits, JobStep DEF Done

LEMMA TakeStep ==
  ASSUME JobOK, NEW t \in Threads, NEW c \in KeyStages, NEW k \in Entries,
         NEW r \in Rows \cup {NoRow}, Take(t, c, k, r),
         c \in CopyStages => r \in Rows,
         c \in Decisions => r.status = "submitted",
         c \notin ImportStages
  PROVE  JobOK'
<1> DEFINE j == [call |-> c, key |-> k, row |-> r, worklog |-> Manual,
                 said |-> Gone, flag |-> "none"]
<1>2. j \in Jobs
  BY DEF Jobs, Stages, KeyStages, CopyStages, Calls, Flags
<1>3. JobFits(j)
  BY DEF JobFits
<1>4. job' = [job EXCEPT ![t] = j]
  BY DEF Take
<1> HIDE DEF j
<1> QED
  BY <1>2, <1>3, <1>4, JobStep

\* A row is written, and nothing else.
LEMMA RowWritten ==
  ASSUME TypeOK, NEW k \in Entries, NEW r \in Rows \cup {Deleted},
         entry' = [entry EXCEPT ![k] = r], UNCHANGED <<worklog, clients>>
  PROVE  TypeOK'
BY DEF TypeOK

LEMMA SameTables == ASSUME TypeOK, Reads PROVE TypeOK'
BY DEF TypeOK, Reads

LEMMA CopyWritten ==
  ASSUME TimeInv, NEW t \in Threads, NEW r \in Rows,
         job[t].call \in KeyStages, SaveCopy(t, r) \/ SaveFields(t, r)
  PROVE  TimeInv'
<1>1. job[t].key \in Entries
  BY DEF TimeInv, JobOK, JobFits
<1>2. TypeOK'
  BY <1>1, RowWritten DEF TimeInv, SaveCopy, SaveFields, Others
<1>3. JobOK'
  BY DoneStep DEF TimeInv, SaveCopy, SaveFields
<1> QED
  BY <1>2, <1>3 DEF TimeInv

\* What the calls make of a row or of a copy of it.
LEMMA WrittenRows ==
  ASSUME NEW r \in Rows
  PROVE  /\ \A v \in Values, s \in Statuses :
              [r EXCEPT !.value = v, !.status = s] \in Rows
         /\ \A s \in Statuses : [r EXCEPT !.status = s] \in Rows
         /\ [r EXCEPT !.status = "submitted", !.submitted = TRUE,
                      !.rejected = FALSE] \in Rows
         /\ [r EXCEPT !.status = "approved", !.approved = TRUE,
                      !.rejected = FALSE] \in Rows
         /\ [r EXCEPT !.status = "rejected", !.rejected = TRUE,
                      !.approved = FALSE] \in Rows
         /\ \A v \in Values, f \in Flags :
              /\ [r EXCEPT !.seen = v, !.flag = f] \in Rows
              /\ [r EXCEPT !.value = v, !.seen = v, !.flag = f] \in Rows
BY DEF Rows, Statuses

LEMMA NewRowTyped ==
  ASSUME NEW w \in Worklogs \cup {Manual}, NEW s \in Statuses, NEW v \in Values
  PROVE  NewRow(w, s, v) \in Rows
BY DEF NewRow, Rows, Flags

LEMMA EntryTypes ==
  ASSUME TimeInv, NEW t \in Threads, EntryStep(t) PROVE TimeInv'
<1> USE DEF TimeInv
<1>1. CASE Create(t)
  <2>1. PICK i \in clients.keys, w \in Worklogs \cup {Manual},
             s \in clients.statuses \cup {"draft"}, v \in Values \ Weekend :
          /\ entry' = [entry EXCEPT ![i] = NewRow(w, s, v)]
          /\ UNCHANGED job \/ Take(t, "undo", i, NoRow)
    BY <1>1 DEF Create
  <2>2. i \in Entries /\ s \in Statuses
    BY TimeConstants DEF TypeOK, Statuses
  <2>3. TypeOK'
    BY <1>1, <2>1, <2>2, NewRowTyped, RowWritten DEF Create, Others
  <2>4. JobOK'
    <3>1. CASE UNCHANGED job
      BY <3>1 DEF JobOK
    <3>2. CASE Take(t, "undo", i, NoRow)
      BY <3>2, <2>2, TakeStep
         DEF KeyStages, CopyStages, Decisions, Resolutions, ImportStages
    <3> QED
      BY <2>1, <3>1, <3>2
  <2> QED
    BY <2>3, <2>4
<1>2. CASE EditLoad(t)
  <2>1. PICK i \in Live, v \in Values \ Weekend :
          \E s \in clients.statuses \cup {entry[i].status} :
            Take(t, "edit", i, [entry[i] EXCEPT !.value = v, !.status = s])
    BY <1>2 DEF EditLoad
  <2>2. PICK s \in clients.statuses \cup {entry[i].status} :
          Take(t, "edit", i, [entry[i] EXCEPT !.value = v, !.status = s])
    BY <2>1
  <2>3. i \in Entries /\ entry[i] \in Rows
    BY DEF Live
  <2>4. s \in Statuses
    BY <2>3, TimeConstants DEF TypeOK, Rows
  <2>5. [entry[i] EXCEPT !.value = v, !.status = s] \in Rows
    BY <2>3, <2>4, WrittenRows
  <2>6. JobOK'
    BY <2>2, <2>3, <2>5, TakeStep
       DEF KeyStages, CopyStages, Decisions, ImportStages
  <2> QED
    BY <1>2, <2>6, SameTables DEF EditLoad
<1>3. CASE EditCheck(t)
  <2>1. job[t].key \in Entries /\ job[t].row \in Rows
    BY <1>3 DEF EditCheck, JobOK, JobFits, KeyStages, CopyStages
  <2>2. JobOK'
    BY <1>3, <2>1, TakeStep
       DEF EditCheck, KeyStages, CopyStages, Decisions, ImportStages
  <2> QED
    BY <1>3, <2>2, SameTables DEF EditCheck
<1>4. CASE EditSave(t)
  BY <1>4, CopyWritten DEF EditSave, JobOK, JobFits, KeyStages, CopyStages
<1>5. CASE DeleteLoad(t)
  <2>1. PICK i \in Live : Take(t, "delete", i, NoRow)
    BY <1>5 DEF DeleteLoad
  <2>2. JobOK'
    BY <2>1, TakeStep
       DEF Live, KeyStages, CopyStages, Decisions, Resolutions, ImportStages
  <2> QED
    BY <1>5, <2>2, SameTables DEF DeleteLoad
<1>6. CASE Delete(t)
  <2>1. job[t].key \in Entries
    BY <1>6 DEF Delete, JobOK, JobFits, KeyStages
  <2>2. TypeOK'
    BY <1>6, <2>1, RowWritten DEF Delete, Others
  <2> QED
    BY <1>6, <2>2, DoneStep DEF Delete
<1>7. CASE Submit(t)
  <2>1. \A i \in Entries : entry'[i] \in Rows \cup {NoRow, Deleted}
    BY <1>7, WrittenRows DEF Submit, Live, TypeOK
  <2>2. entry' \in [Entries -> Rows \cup {NoRow, Deleted}]
    BY <1>7, <2>1 DEF Submit
  <2> QED
    BY <1>7, <2>2 DEF Submit, Others, TypeOK, JobOK
<1>8. CASE DecideLoad(t)
  <2>1. PICK c \in Decisions, i \in Live :
          entry[i].status = "submitted" /\ Take(t, c, i, entry[i])
    BY <1>8 DEF DecideLoad
  <2>2. JobOK'
    BY <2>1, TakeStep
       DEF Live, KeyStages, CopyStages, Decisions, ImportStages
  <2> QED
    BY <1>8, <2>2, SameTables DEF DecideLoad
<1>9. CASE Approve(t)
  <2>1. job[t].call \in KeyStages /\ job[t].row \in Rows
    BY <1>9 DEF Approve, JobOK, JobFits, KeyStages, CopyStages, Decisions
  <2> QED
    BY <1>9, <2>1, WrittenRows, CopyWritten DEF Approve
<1>10. CASE Reject(t)
  <2>1. job[t].call \in KeyStages /\ job[t].row \in Rows
    BY <1>10 DEF Reject, JobOK, JobFits, KeyStages, CopyStages, Decisions
  <2> QED
    BY <1>10, <2>1, WrittenRows, CopyWritten DEF Reject
<1>11. CASE AssistantDecide(t)
  <2>1. PICK i \in Live, s \in {"approved", "rejected"} :
          entry' = [entry EXCEPT ![i] = [entry[i] EXCEPT !.status = s]]
    BY <1>11 DEF AssistantDecide
  <2>2. i \in Entries /\ [entry[i] EXCEPT !.status = s] \in Rows
    BY WrittenRows DEF Live, Statuses
  <2>3. TypeOK'
    BY <1>11, <2>1, <2>2, RowWritten DEF AssistantDecide, Others
  <2> QED
    BY <1>11, <2>3 DEF AssistantDecide, JobOK
<1> QED
  BY <1>1, <1>2, <1>3, <1>4, <1>5, <1>6, <1>7, <1>8, <1>9, <1>10, <1>11
     DEF EntryStep

LEMMA ImportTypes ==
  ASSUME TimeInv, NEW t \in Threads, ImportStep(t) PROVE TimeInv'
<1> USE DEF TimeInv
<1>1. CASE ImportFetch(t)
  <2>1. PICK w \in Worklogs, v \in Values, f \in Flags : Imports(t, w, v, f)
    BY <1>1 DEF ImportFetch, From, Live, Rows, TypeOK, Flags
  <2> DEFINE j == [call |-> "import", key |-> NoRow, row |-> NoRow,
                   worklog |-> w, said |-> v, flag |-> f]
  <2>2. j \in Jobs /\ JobFits(j)
    BY DEF Jobs, JobFits, Stages, Calls, KeyStages, CopyStages, Decisions,
       Resolutions
  <2>3. job' = [job EXCEPT ![t] = j]
    BY <2>1 DEF Imports
  <2> HIDE DEF j
  <2>4. JobOK'
    BY <2>2, <2>3, JobStep
  <2> QED
    BY <1>1, <2>4, SameTables DEF ImportFetch
<1>2. CASE ImportPreview(t)
  <2> DEFINE j == [job[t] EXCEPT !.call = "commit"]
  <2>1. job[t] \in Jobs /\ JobFits(job[t]) /\ job[t].call = "import"
    BY <1>2 DEF ImportPreview, JobOK
  <2>2. j \in Jobs
    BY <2>1 DEF Jobs, Stages
  <2>3. JobFits(j)
    BY <2>1 DEF Jobs, JobFits, ImportStages, KeyStages, CopyStages, Decisions,
       Resolutions
  <2>4. job' = [job EXCEPT ![t] = j]
    BY <1>2 DEF ImportPreview
  <2> HIDE DEF j
  <2>5. JobOK'
    BY <2>2, <2>3, <2>4, JobStep
  <2> QED
    BY <1>2, <2>5, SameTables DEF ImportPreview
<1>3. CASE ImportRead(t)
  <2>1. job[t] \in Jobs /\ JobFits(job[t]) /\ job[t].call = "commit"
    BY <1>3 DEF ImportRead, JobOK
  <2>2. ASSUME NEW i \in From(job[t].worklog),
               job' = [job EXCEPT ![t].call = "write", ![t].key = i,
                                  ![t].row = entry[i]]
        PROVE  JobOK'
    <3> DEFINE j == [job[t] EXCEPT !.call = "write", !.key = i, !.row = entry[i]]
    <3>1. i \in Entries /\ entry[i] \in Rows
      BY DEF From, Live
    <3>2. j \in Jobs
      BY <2>1, <3>1 DEF Jobs, Stages
    <3>3. JobFits(j)
      BY <2>1, <3>1 DEF Jobs, JobFits, ImportStages, Decisions
    <3>4. job' = [job EXCEPT ![t] = j]
      BY <2>2, <2>1 DEF JobOK, Jobs
    <3> HIDE DEF j
    <3> QED
      BY <3>2, <3>3, <3>4, JobStep
  <2>3. ASSUME job' = [job EXCEPT ![t].call = "insert"]
        PROVE  JobOK'
    <3> DEFINE j == [job[t] EXCEPT !.call = "insert"]
    <3>1. j \in Jobs
      BY <2>1 DEF Jobs, Stages
    <3>2. JobFits(j)
      BY <2>1 DEF Jobs, JobFits, ImportStages, KeyStages, CopyStages, Decisions,
         Resolutions
    <3>3. job' = [job EXCEPT ![t] = j]
      BY <2>3
    <3> HIDE DEF j
    <3> QED
      BY <3>1, <3>2, <3>3, JobStep
  <2>4. JobOK'
    BY <1>3, <2>2, <2>3 DEF ImportRead
  <2> QED
    BY <1>3, <2>4, SameTables DEF ImportRead
<1>4. CASE ImportFlag(t)
  <2>1. /\ job[t].call \in KeyStages
        /\ job[t].said \in Values /\ job[t].flag \in Flags
    BY <1>4 DEF ImportFlag, JobOK, Jobs, JobFits, KeyStages, CopyStages, ImportStages
  <2>2. entry[job[t].key] \in Rows
    BY <1>4 DEF ImportFlag, SaveFields, Live
  <2>3. [entry[job[t].key] EXCEPT !.seen = job[t].said, !.flag = job[t].flag]
          \in Rows
    BY <2>1, <2>2, WrittenRows
  <2> QED
    BY <1>4, <2>1, <2>3, CopyWritten DEF ImportFlag
<1>5. CASE ImportOverwrite(t)
  <2>1. /\ job[t].call \in KeyStages /\ job[t].row \in Rows
        /\ job[t].said \in Values /\ job[t].flag \in Flags
    BY <1>5 DEF ImportOverwrite, JobOK, Jobs, JobFits, KeyStages, CopyStages,
       ImportStages
  <2>2. Overwritten(t) \in Rows
    BY <2>1, WrittenRows DEF Overwritten
  <2> QED
    BY <1>5, <2>1, <2>2, CopyWritten DEF ImportOverwrite
<1>6. CASE ImportInsert(t)
  <2>1. PICK i \in clients.keys :
          entry' = [entry EXCEPT ![i] = NewRow(job[t].worklog, "draft", job[t].said)]
    BY <1>6 DEF ImportInsert
  <2>2. i \in Entries
    BY TimeConstants DEF TypeOK
  <2>3. NewRow(job[t].worklog, "draft", job[t].said) \in Rows
    BY <1>6, NewRowTyped
       DEF ImportInsert, JobOK, JobFits, ImportStages, Statuses
  <2>4. TypeOK'
    BY <1>6, <2>1, <2>2, <2>3, RowWritten DEF ImportInsert, Others
  <2> QED
    BY <1>6, <2>4, DoneStep DEF ImportInsert
<1>7. CASE ResolveLoad(t)
  <2>1. PICK c \in Resolutions, i \in Live : Take(t, c, i, entry[i])
    BY <1>7 DEF ResolveLoad
  <2>2. JobOK'
    BY <2>1, TakeStep
       DEF Live, KeyStages, CopyStages, Decisions, Resolutions, ImportStages
  <2> QED
    BY <1>7, <2>2, SameTables DEF ResolveLoad
<1>8. CASE AcceptCurrent(t)
  <2>1. job[t].call \in KeyStages /\ job[t].row \in Rows
    BY <1>8 DEF AcceptCurrent, JobOK, JobFits, KeyStages, CopyStages, Resolutions
  <2>2. entry[job[t].key] \in Rows
    BY <1>8 DEF AcceptCurrent, SaveFields, Live
  <2>3. job[t].row.seen \in Values /\ "none" \in Flags
    BY <2>1 DEF Rows, Flags
  <2>4. [entry[job[t].key] EXCEPT !.seen = job[t].row.seen, !.flag = "none"]
          \in Rows
    BY <2>2, <2>3, WrittenRows
  <2> QED
    BY <1>8, <2>1, <2>4, CopyWritten DEF AcceptCurrent
<1>9. CASE ApplySource(t)
  <2>1. job[t].call \in KeyStages /\ job[t].row \in Rows
    BY <1>9 DEF ApplySource, JobOK, JobFits, KeyStages, CopyStages, Resolutions
  <2>2. [job[t].row EXCEPT !.flag = "none"] \in Rows
    BY <2>1 DEF Rows, Flags
  <2> QED
    BY <1>9, <2>1, <2>2, CopyWritten DEF ApplySource
<1> QED
  BY <1>1, <1>2, <1>3, <1>4, <1>5, <1>6, <1>7, <1>8, <1>9 DEF ImportStep

LEMMA TimeStep == TimeInv /\ [Next]_vars => TimeInv'
<1> SUFFICES ASSUME TimeInv, [Next]_vars PROVE TimeInv'
  OBVIOUS
<1>1. CASE UNCHANGED vars
  BY <1>1 DEF vars, TimeInv, TypeOK, JobOK
<1>2. CASE SourceChanges
  BY <1>2 DEF SourceChanges, TimeInv, TypeOK, JobOK
<1>3. ASSUME NEW t \in Threads, Abort(t) PROVE TimeInv'
  BY <1>3, DoneStep, SameTables DEF Abort, TimeInv
<1> QED
  BY <1>1, <1>2, <1>3, EntryTypes, ImportTypes DEF Next

\* The tables keep their shape, whatever copies are saved over each other.
THEOREM TimeTypeCorrect == Spec => []TypeOK
<1>1. TimeInv => TypeOK
  BY DEF TimeInv
<1> QED
  BY <1>1, TimeInit, TimeStep, PTL DEF Spec

-----------------------------------------------------------------------------
(* Stamps.                                                                 *)

StampInv ==
  PlainWeb =>
    /\ \A i \in Live : Stamped(entry[i])
    /\ \A t \in Threads : job[t].call \in CopyStages => Stamped(job[t].row)

LEMMA StampInit == Init => StampInv
BY TimeNulls
   DEF Init, StampInv, Live, Idle, CopyStages, Decisions, Resolutions

\* What the calls write agrees with its stamps if what they read did.
LEMMA StampedRows ==
  ASSUME NEW r \in Rows, Stamped(r)
  PROVE  /\ \A v \in Values : Stamped([r EXCEPT !.value = v, !.status = r.status])
         /\ Stamped([r EXCEPT !.status = "submitted", !.submitted = TRUE,
                              !.rejected = FALSE])
              \/ r.status = "approved"
         /\ r.status = "submitted" =>
              /\ Stamped([r EXCEPT !.status = "approved", !.approved = TRUE,
                                   !.rejected = FALSE])
              /\ Stamped([r EXCEPT !.status = "rejected", !.rejected = TRUE,
                                   !.approved = FALSE])
         /\ \A v \in Values, f \in Flags :
              /\ Stamped([r EXCEPT !.seen = v, !.flag = f])
              /\ Stamped([r EXCEPT !.value = v, !.seen = v, !.flag = f])
         /\ \A f \in Flags : Stamped([r EXCEPT !.flag = f])
BY DEF Stamped, Rows

\* A stamped row is written, and no copy is taken.
LEMMA StampedWrite ==
  ASSUME StampInv, TypeOK, UNCHANGED clients, NEW k \in Entries, NEW r,
         entry' = [entry EXCEPT ![k] = r],
         PlainWeb /\ r \in Rows => Stamped(r),
         \A u \in Threads : job'[u].call \in CopyStages =>
                              job'[u] = job[u]
  PROVE  StampInv'
BY DEF StampInv, PlainWeb, TypeOK, Live

LEMMA DoneKeeps ==
  ASSUME JobOK, NEW t \in Threads, Done(t)
  PROVE  \A u \in Threads : job'[u].call \in CopyStages => job'[u] = job[u]
<1>1. Idle.call \notin CopyStages
  BY DEF Idle, CopyStages, Decisions, Resolutions
<1> QED
  BY <1>1 DEF JobOK, Done

\* A copy of a stamped row is taken, and no row is written.
LEMMA StampedTake ==
  ASSUME StampInv, JobOK, NEW t \in Threads, Reads, NEW j,
         job' = [job EXCEPT ![t] = j],
         PlainWeb /\ j.call \in CopyStages => Stamped(j.row)
  PROVE  StampInv'
BY DEF StampInv, PlainWeb, Reads, Live, JobOK

LEMMA StampedSave ==
  ASSUME StampInv, TimeInv, NEW t \in Threads, NEW r \in Rows,
         job[t].call \in KeyStages, SaveCopy(t, r) \/ SaveFields(t, r),
         PlainWeb => Stamped(r)
  PROVE  StampInv'
<1>1. job[t].key \in Entries
  BY DEF TimeInv, JobOK, JobFits
<1>2. \A u \in Threads : job'[u].call \in CopyStages => job'[u] = job[u]
  BY DoneKeeps DEF TimeInv, SaveCopy, SaveFields
<1> QED
  BY <1>1, <1>2, StampedWrite DEF TimeInv, SaveCopy, SaveFields, Others

LEMMA StampedNewRow ==
  ASSUME NEW w, NEW v PROVE Stamped(NewRow(w, "draft", v))
BY DEF Stamped, NewRow

LEMMA EntryStamps ==
  ASSUME TimeInv, StampInv, NEW t \in Threads, EntryStep(t) PROVE StampInv'
<1> USE DEF TimeInv
<1>1. CASE Create(t)
  <2>1. PICK i \in clients.keys, w \in Worklogs \cup {Manual},
             s \in clients.statuses \cup {"draft"}, v \in Values \ Weekend :
          /\ entry' = [entry EXCEPT ![i] = NewRow(w, s, v)]
          /\ UNCHANGED job \/ Take(t, "undo", i, NoRow)
    BY <1>1 DEF Create
  <2>2. i \in Entries
    BY TimeConstants DEF TypeOK
  <2>3. PlainWeb => Stamped(NewRow(w, s, v))
    BY StampedNewRow DEF PlainWeb
  <2>4. \A u \in Threads : job'[u].call \in CopyStages => job'[u] = job[u]
    BY <2>1 DEF Take, JobOK, CopyStages, Decisions, Resolutions
  <2> QED
    BY <1>1, <2>1, <2>2, <2>3, <2>4, StampedWrite DEF Create, Others
<1>2. CASE EditLoad(t)
  <2>1. PICK i \in Live, v \in Values \ Weekend :
          \E s \in clients.statuses \cup {entry[i].status} :
            Take(t, "edit", i, [entry[i] EXCEPT !.value = v, !.status = s])
    BY <1>2 DEF EditLoad
  <2>2. PICK s \in clients.statuses \cup {entry[i].status} :
          Take(t, "edit", i, [entry[i] EXCEPT !.value = v, !.status = s])
    BY <2>1
  <2>3. PlainWeb => Stamped([entry[i] EXCEPT !.value = v, !.status = s])
    BY StampedRows DEF PlainWeb, StampInv, Live
  <2> QED
    BY <1>2, <2>2, <2>3, StampedTake DEF EditLoad, Take
<1>3. CASE EditCheck(t)
  BY <1>3, StampedTake DEF EditCheck, Take, StampInv, CopyStages
<1>4. CASE EditSave(t)
  <2>1. /\ job[t].call \in KeyStages /\ job[t].row \in Rows
        /\ PlainWeb => Stamped(job[t].row)
    BY <1>4 DEF EditSave, JobOK, JobFits, StampInv, KeyStages, CopyStages
  <2> QED
    BY <1>4, <2>1, StampedSave DEF EditSave
<1>5. CASE DeleteLoad(t)
  BY <1>5, StampedTake DEF DeleteLoad, Take, CopyStages, Decisions, Resolutions
<1>6. CASE Delete(t)
  <2>1. job[t].key \in Entries
    BY <1>6 DEF Delete, JobOK, JobFits, KeyStages
  <2> QED
    BY <1>6, <2>1, DoneKeeps, StampedWrite, TimeNulls DEF Delete, Others
<1>7. CASE Submit(t)
  <2>1. ASSUME PlainWeb, NEW i \in Entries, entry'[i] \in Rows
        PROVE  Stamped(entry'[i])
    <3>1. CASE entry'[i] = entry[i]
      BY <2>1, <3>1 DEF StampInv, Live
    <3>2. CASE entry'[i] # entry[i]
      <4>1. /\ i \in Live /\ entry[i].status \in {"draft", "rejected"}
            /\ entry'[i] = [entry[i] EXCEPT !.status = "submitted",
                                            !.submitted = TRUE, !.rejected = FALSE]
        BY <1>7, <3>2 DEF Submit, TypeOK
      <4> QED
        BY <2>1, <4>1, StampedRows DEF StampInv, Live
    <3> QED
      BY <3>1, <3>2
  <2> QED
    BY <1>7, <2>1 DEF Submit, Others, StampInv, PlainWeb, Live
<1>8. CASE DecideLoad(t)
  <2>1. PICK c \in Decisions, i \in Live : Take(t, c, i, entry[i])
    BY <1>8 DEF DecideLoad
  <2>2. PlainWeb => Stamped(entry[i])
    BY DEF StampInv
  <2> QED
    BY <1>8, <2>1, <2>2, StampedTake DEF DecideLoad, Take
<1>9. CASE Approve(t) \/ Reject(t)
  <2>1. /\ job[t].call \in KeyStages /\ job[t].row \in Rows
        /\ job[t].row.status = "submitted"
        /\ PlainWeb => Stamped(job[t].row)
    BY <1>9 DEF Approve, Reject, JobOK, JobFits, StampInv, KeyStages, CopyStages,
       Decisions
  <2> QED
    BY <1>9, <2>1, StampedRows, StampedSave, WrittenRows DEF Approve, Reject
<1>10. CASE AssistantDecide(t)
  <2>1. ~PlainWeb
    BY <1>10 DEF AssistantDecide, Free, PlainWeb, AssistantCalls
  <2> QED
    BY <1>10, <2>1 DEF AssistantDecide, Others, StampInv, PlainWeb
<1> QED
  BY <1>1, <1>2, <1>3, <1>4, <1>5, <1>6, <1>7, <1>8, <1>9, <1>10 DEF EntryStep

LEMMA ImportStamps ==
  ASSUME TimeInv, StampInv, NEW t \in Threads, ImportStep(t) PROVE StampInv'
<1> USE DEF TimeInv
<1>1. CASE ImportFetch(t)
  BY <1>1, StampedTake
     DEF ImportFetch, Imports, CopyStages, Decisions, Resolutions
<1>2. CASE ImportPreview(t)
  BY <1>2, StampedTake
     DEF ImportPreview, JobOK, Jobs, CopyStages, Decisions, Resolutions
<1>3. CASE ImportRead(t)
  <2>1. job[t] \in Jobs
    BY DEF JobOK
  <2>2. ASSUME NEW i \in From(job[t].worklog),
               job' = [job EXCEPT ![t].call = "write", ![t].key = i,
                                  ![t].row = entry[i]]
        PROVE  StampInv'
    <3> DEFINE j == [job[t] EXCEPT !.call = "write", !.key = i, !.row = entry[i]]
    <3>1. job' = [job EXCEPT ![t] = j] /\ j.row = entry[i]
      BY <2>1, <2>2 DEF JobOK, Jobs
    <3>2. PlainWeb => Stamped(j.row)
      BY <3>1 DEF StampInv, From
    <3> HIDE DEF j
    <3> QED
      BY <1>3, <3>1, <3>2, StampedTake DEF ImportRead
  <2>3. ASSUME job' = [job EXCEPT ![t].call = "insert"]
        PROVE  StampInv'
    BY <1>3, <2>1, <2>3, StampedTake
       DEF ImportRead, Jobs, CopyStages, Decisions, Resolutions
  <2> QED
    BY <1>3, <2>2, <2>3 DEF ImportRead
<1>4. CASE ImportFlag(t)
  <2>1. /\ job[t].call \in KeyStages
        /\ job[t].said \in Values /\ job[t].flag \in Flags
    BY <1>4 DEF ImportFlag, JobOK, Jobs, JobFits, KeyStages, CopyStages, ImportStages
  <2>2. job[t].key \in Live /\ entry[job[t].key] \in Rows
    BY <1>4 DEF ImportFlag, SaveFields, Live
  <2> DEFINE r == [entry[job[t].key] EXCEPT !.seen = job[t].said,
                                            !.flag = job[t].flag]
  <2>3. r \in Rows
    BY <2>1, <2>2, WrittenRows
  <2>4. PlainWeb => Stamped(r)
    BY <2>1, <2>2, StampedRows DEF StampInv
  <2>5. SaveFields(t, r)
    BY <1>4 DEF ImportFlag
  <2> HIDE DEF r
  <2> QED
    BY <2>1, <2>3, <2>4, <2>5, StampedSave
<1>5. CASE ImportOverwrite(t)
  <2>1. /\ job[t].call \in KeyStages /\ job[t].row \in Rows
        /\ job[t].said \in Values /\ job[t].flag \in Flags
        /\ PlainWeb => Stamped(job[t].row)
    BY <1>5 DEF ImportOverwrite, JobOK, Jobs, JobFits, StampInv, KeyStages,
       CopyStages, ImportStages
  <2>2. Overwritten(t) \in Rows /\ (PlainWeb => Stamped(Overwritten(t)))
    BY <2>1, WrittenRows, StampedRows DEF Overwritten
  <2> QED
    BY <1>5, <2>1, <2>2, StampedSave DEF ImportOverwrite
<1>6. CASE ImportInsert(t)
  <2>1. PICK i \in clients.keys :
          entry' = [entry EXCEPT ![i] = NewRow(job[t].worklog, "draft", job[t].said)]
    BY <1>6 DEF ImportInsert
  <2>2. i \in Entries
    BY TimeConstants DEF TypeOK
  <2>3. Stamped(NewRow(job[t].worklog, "draft", job[t].said))
    BY StampedNewRow
  <2> QED
    BY <1>6, <2>1, <2>2, <2>3, DoneKeeps, StampedWrite DEF ImportInsert, Others
<1>7. CASE ResolveLoad(t)
  <2>1. PICK c \in Resolutions, i \in Live : Take(t, c, i, entry[i])
    BY <1>7 DEF ResolveLoad
  <2>2. PlainWeb => Stamped(entry[i])
    BY DEF StampInv
  <2> QED
    BY <1>7, <2>1, <2>2, StampedTake DEF ResolveLoad, Take
<1>8. CASE AcceptCurrent(t)
  <2>1. job[t].call \in KeyStages /\ job[t].row \in Rows
    BY <1>8 DEF AcceptCurrent, JobOK, JobFits, KeyStages, CopyStages, Resolutions
  <2>2. job[t].key \in Live /\ entry[job[t].key] \in Rows
    BY <1>8 DEF AcceptCurrent, SaveFields, Live
  <2>3. job[t].row.seen \in Values /\ "none" \in Flags
    BY <2>1 DEF Rows, Flags
  <2> DEFINE r == [entry[job[t].key] EXCEPT !.seen = job[t].row.seen,
                                            !.flag = "none"]
  <2>4. r \in Rows
    BY <2>2, <2>3, WrittenRows
  <2>5. PlainWeb => Stamped(r)
    BY <2>2, <2>3, StampedRows DEF StampInv
  <2>6. SaveFields(t, r)
    BY <1>8 DEF AcceptCurrent
  <2> HIDE DEF r
  <2> QED
    BY <2>1, <2>4, <2>5, <2>6, StampedSave
<1>9. CASE ApplySource(t)
  <2>1. /\ job[t].call \in KeyStages /\ job[t].row \in Rows
        /\ PlainWeb => Stamped(job[t].row)
    BY <1>9 DEF ApplySource, JobOK, JobFits, StampInv, KeyStages, CopyStages,
       Resolutions
  <2>2. [job[t].row EXCEPT !.flag = "none"] \in Rows
    BY <2>1 DEF Rows, Flags
  <2>3. PlainWeb => Stamped([job[t].row EXCEPT !.flag = "none"])
    BY <2>1, StampedRows DEF Flags
  <2> QED
    BY <1>9, <2>1, <2>2, <2>3, StampedSave DEF ApplySource
<1> QED
  BY <1>1, <1>2, <1>3, <1>4, <1>5, <1>6, <1>7, <1>8, <1>9 DEF ImportStep

LEMMA StampStep == TimeInv /\ StampInv /\ [Next]_vars => StampInv'
<1> SUFFICES ASSUME TimeInv, StampInv, [Next]_vars PROVE StampInv'
  OBVIOUS
<1>1. CASE UNCHANGED vars
  BY <1>1 DEF vars, StampInv, PlainWeb, Live
<1>2. CASE SourceChanges
  BY <1>2 DEF SourceChanges, StampInv, PlainWeb, Live
<1>3. ASSUME NEW t \in Threads, Abort(t) PROVE StampInv'
  <2>1. Idle.call \notin CopyStages
    BY DEF Idle, CopyStages, Decisions, Resolutions
  <2> QED
    BY <1>3, <2>1, StampedTake DEF Abort, Done, TimeInv
<1> QED
  BY <1>1, <1>2, <1>3, EntryStamps, ImportStamps DEF Next

\* While clients write no status and the assistant is not used, a decision and
\* its stamps agree on every entry, for any number of racing threads.
THEOREM StampsTellStatusHolds == Spec => []StampsTellStatus
<1>1. StampInv => StampsTellStatus
  BY DEF StampInv, StampsTellStatus
<1> QED
  BY <1>1, TimeInit, TimeStep, StampInit, StampStep, PTL DEF Spec

-----------------------------------------------------------------------------
(* The workflow of one client at a time.                                   *)

\* A call is served by one of the clients.  While there is one, the copy it
\* holds is the row: no other call writes between its read and its save.
Fresh(j) ==
  /\ j.call \in {"edit", "save"} =>
       j.key \in Live /\ j.row.status = entry[j.key].status
  /\ j.call = "save" => j.row.status # "approved"
  /\ j.call \in Decisions \cup Resolutions \cup {"write"} =>
       j.key \in Live /\ j.row = entry[j.key]

FollowInv ==
  /\ \A t \in Threads : job[t] # Idle => t \in clients.threads
  /\ OneAtATime /\ PlainWeb => \A t \in Threads : Fresh(job[t])

LEMMA FollowInit == Init => FollowInv
BY DEF Init, FollowInv, Fresh, Idle, Decisions, Resolutions

LEMMA Serves ==
  ASSUME FollowInv, NEW t \in Threads,
         EntryStep(t) \/ ImportStep(t) \/ Abort(t)
  PROVE  t \in clients.threads
<1>1. job[t] # Idle => t \in clients.threads
  BY DEF FollowInv
<1>2. job[t].call # "none" => job[t] # Idle
  BY DEF Idle
<1>3. EntryStep(t) => Free(t, "create") \/ job[t].call # "none" \/ t \in clients.threads
  BY DEF EntryStep, Create, EditLoad, EditCheck, EditSave, DeleteLoad, Delete,
     Submit, DecideLoad, Approve, Reject, AssistantDecide, Free
<1>4. ImportStep(t) => job[t].call # "none" \/ t \in clients.threads
  BY DEF ImportStep, ImportFetch, ImportPreview, ImportRead, ImportFlag,
     ImportOverwrite, ImportInsert, ResolveLoad, AcceptCurrent, ApplySource, Free
<1> QED
  BY <1>1, <1>2, <1>3, <1>4 DEF Abort, Free

\* A copy is taken, and no row is written.
LEMMA FreshTake ==
  ASSUME FollowInv, JobOK, NEW t \in Threads, t \in clients.threads, Reads,
         NEW j, job' = [job EXCEPT ![t] = j],
         OneAtATime /\ PlainWeb => Fresh(j)
  PROVE  FollowInv'
BY DEF FollowInv, JobOK, Reads, OneAtATime, PlainWeb, Fresh, Live

\* Rows are written by a thread that keeps no copy; no other one holds any.
LEMMA FreshWrite ==
  ASSUME FollowInv, JobOK, NEW t \in Threads, t \in clients.threads, Others,
         NEW j, job' = [job EXCEPT ![t] = j],
         j.call \notin CopyStages
  PROVE  FollowInv'
<1>1. ASSUME NEW u \in Threads, job'[u] # Idle PROVE u \in clients'.threads
  BY <1>1 DEF FollowInv, JobOK, Others
<1>2. ASSUME OneAtATime, NEW u \in Threads PROVE job'[u].call \notin CopyStages
  <2>1. CASE u = t
    BY <2>1 DEF JobOK
  <2>2. CASE u # t
    BY <1>2, <2>2 DEF JobOK, FollowInv, OneAtATime, Idle, CopyStages, Decisions,
       Resolutions
  <2> QED
    BY <2>1, <2>2
<1>3. OneAtATime' => OneAtATime
  BY DEF OneAtATime, Others
<1> QED
  BY <1>1, <1>2, <1>3 DEF FollowInv, Fresh, CopyStages, Decisions, Resolutions

LEMMA FreshIdle == Fresh(Idle) /\ Idle.call \notin CopyStages
BY DEF Fresh, Idle, CopyStages, Decisions, Resolutions

LEMMA FreshDone ==
  ASSUME FollowInv, JobOK, NEW t \in Threads, t \in clients.threads, Others,
         Done(t)
  PROVE  FollowInv'
BY FreshWrite, FreshIdle DEF Done

LEMMA EntryFollows ==
  ASSUME TimeInv, FollowInv, NEW t \in Threads, EntryStep(t) PROVE FollowInv'
<1> USE DEF TimeInv
<1>0. t \in clients.threads
  BY Serves
<1>1. CASE Create(t)
  <2>1. PICK i \in clients.keys : UNCHANGED job \/ Take(t, "undo", i, NoRow)
    BY <1>1 DEF Create
  <2>2. CASE UNCHANGED job
    <3>1. job' = [job EXCEPT ![t] = Idle]
      BY <1>1, <2>2 DEF Create, Free, JobOK
    <3> QED
      BY <1>0, <1>1, <3>1, FreshWrite, FreshIdle DEF Create
  <2>3. CASE Take(t, "undo", i, NoRow)
    BY <1>0, <1>1, <2>3, FreshWrite
       DEF Create, Take, CopyStages, Decisions, Resolutions
  <2> QED
    BY <2>1, <2>2, <2>3
<1>2. CASE EditLoad(t)
  <2>1. PICK i \in Live, v \in Values \ Weekend :
          \E s \in clients.statuses \cup {entry[i].status} :
            Take(t, "edit", i, [entry[i] EXCEPT !.value = v, !.status = s])
    BY <1>2 DEF EditLoad
  <2>2. PICK s \in clients.statuses \cup {entry[i].status} :
          Take(t, "edit", i, [entry[i] EXCEPT !.value = v, !.status = s])
    BY <2>1
  <2>3. PlainWeb =>
          [entry[i] EXCEPT !.value = v, !.status = s].status = entry[i].status
    BY DEF PlainWeb, Live, Rows
  <2> DEFINE r == [entry[i] EXCEPT !.value = v, !.status = s]
             j == [call |-> "edit", key |-> i, row |-> r,
                   worklog |-> Manual, said |-> Gone, flag |-> "none"]
  <2>4. PlainWeb => Fresh(j)
    BY <2>3 DEF Fresh, Decisions, Resolutions
  <2>5. job' = [job EXCEPT ![t] = j]
    BY <2>2 DEF Take
  <2> HIDE DEF j
  <2> QED
    BY <1>0, <1>2, <2>4, <2>5, FreshTake DEF EditLoad
<1>3. CASE EditCheck(t)
  <2> DEFINE j == [call |-> "save", key |-> job[t].key, row |-> job[t].row,
                   worklog |-> Manual, said |-> Gone, flag |-> "none"]
  <2>1. OneAtATime /\ PlainWeb => Fresh(j)
    BY <1>3 DEF EditCheck, FollowInv, Fresh, Decisions, Resolutions
  <2>2. job' = [job EXCEPT ![t] = j]
    BY <1>3 DEF EditCheck, Take
  <2> HIDE DEF j
  <2> QED
    BY <1>0, <1>3, <2>1, <2>2, FreshTake DEF EditCheck
<1>4. CASE EditSave(t) \/ Approve(t) \/ Reject(t) \/ Delete(t)
  BY <1>0, <1>4, FreshDone DEF EditSave, Approve, Reject, Delete, SaveCopy
<1>5. CASE DeleteLoad(t)
  BY <1>0, <1>5, FreshTake DEF DeleteLoad, Take, Fresh, Decisions, Resolutions
<1>6. CASE Submit(t) \/ AssistantDecide(t)
  <2>1. job' = [job EXCEPT ![t] = Idle]
    BY <1>6 DEF Submit, AssistantDecide, Free, JobOK
  <2> QED
    BY <1>0, <1>6, <2>1, FreshWrite, FreshIdle DEF Submit, AssistantDecide
<1>7. CASE DecideLoad(t)
  <2>1. PICK c \in Decisions, i \in Live : Take(t, c, i, entry[i])
    BY <1>7 DEF DecideLoad
  <2> QED
    BY <1>0, <1>7, <2>1, FreshTake DEF DecideLoad, Take, Fresh, Decisions
<1> QED
  BY <1>1, <1>2, <1>3, <1>4, <1>5, <1>6, <1>7 DEF EntryStep

LEMMA ImportFollows ==
  ASSUME TimeInv, FollowInv, NEW t \in Threads, ImportStep(t) PROVE FollowInv'
<1> USE DEF TimeInv
<1>0. t \in clients.threads
  BY Serves
<1>1. CASE ImportFetch(t)
  BY <1>0, <1>1, FreshTake DEF ImportFetch, Imports, Fresh, Decisions, Resolutions
<1>2. CASE ImportPreview(t)
  <2> DEFINE j == [job[t] EXCEPT !.call = "commit"]
  <2>1. j.call = "commit" /\ job' = [job EXCEPT ![t] = j]
    BY <1>2 DEF ImportPreview, JobOK, Jobs
  <2> HIDE DEF j
  <2> QED
    BY <1>0, <1>2, <2>1, FreshTake DEF ImportPreview, Fresh, Decisions, Resolutions
<1>3. CASE ImportRead(t)
  <2>1. job[t] \in Jobs
    BY DEF JobOK
  <2>2. ASSUME NEW i \in From(job[t].worklog),
               job' = [job EXCEPT ![t].call = "write", ![t].key = i,
                                  ![t].row = entry[i]]
        PROVE  FollowInv'
    <3> DEFINE j == [job[t] EXCEPT !.call = "write", !.key = i, !.row = entry[i]]
    <3>1. /\ job' = [job EXCEPT ![t] = j]
          /\ j.call = "write" /\ j.key = i /\ j.row = entry[i]
      BY <2>1, <2>2 DEF JobOK, Jobs
    <3> HIDE DEF j
    <3> QED
      BY <1>0, <1>3, <3>1, FreshTake DEF ImportRead, Fresh, From
  <2>3. ASSUME job' = [job EXCEPT ![t].call = "insert"]
        PROVE  FollowInv'
    <3> DEFINE j == [job[t] EXCEPT !.call = "insert"]
    <3>1. j.call = "insert" /\ job' = [job EXCEPT ![t] = j]
      BY <2>1, <2>3 DEF Jobs
    <3> HIDE DEF j
    <3> QED
      BY <1>0, <1>3, <3>1, FreshTake DEF ImportRead, Fresh, Decisions, Resolutions
  <2> QED
    BY <1>3, <2>2, <2>3 DEF ImportRead
<1>4. CASE ImportFlag(t) \/ ImportOverwrite(t) \/ ImportInsert(t)
             \/ AcceptCurrent(t) \/ ApplySource(t)
  BY <1>0, <1>4, FreshDone
     DEF ImportFlag, ImportOverwrite, ImportInsert, AcceptCurrent, ApplySource,
         SaveCopy, SaveFields
<1>5. CASE ResolveLoad(t)
  <2>1. PICK c \in Resolutions, i \in Live : Take(t, c, i, entry[i])
    BY <1>5 DEF ResolveLoad
  <2> QED
    BY <1>0, <1>5, <2>1, FreshTake DEF ResolveLoad, Take, Fresh, Resolutions
<1> QED
  BY <1>1, <1>2, <1>3, <1>4, <1>5 DEF ImportStep

LEMMA FollowStep == TimeInv /\ FollowInv /\ [Next]_vars => FollowInv'
<1> SUFFICES ASSUME TimeInv, FollowInv, [Next]_vars PROVE FollowInv'
  OBVIOUS
<1>1. CASE UNCHANGED vars
  BY <1>1 DEF vars, FollowInv, OneAtATime, PlainWeb, Fresh, Live
<1>2. CASE SourceChanges
  BY <1>2 DEF SourceChanges, FollowInv, OneAtATime, PlainWeb, Fresh, Live
<1>3. ASSUME NEW t \in Threads, Abort(t) PROVE FollowInv'
  <2>1. t \in clients.threads
    BY <1>3, Serves
  <2> QED
    BY <1>3, <2>1, FreshTake, FreshIdle DEF Abort, Done, TimeInv
<1> QED
  BY <1>1, <1>2, <1>3, EntryFollows, ImportFollows DEF Next

Follows ==
  \A i \in Entries :
    /\ entry[i] \in Rows /\ entry'[i] \in Rows =>
         FollowsWorkflow(entry[i], entry'[i])
    /\ entry[i] = Deleted => entry'[i] = Deleted

LEMMA SameFollows == ASSUME UNCHANGED entry PROVE Follows
BY DEF Follows, FollowsWorkflow

\* One row is written: a new one, a deletion, or a step of the workflow.
LEMMA WriteFollows ==
  ASSUME TypeOK, NEW k \in Entries, NEW r, entry' = [entry EXCEPT ![k] = r],
         \/ entry[k] = NoRow
         \/ r = Deleted
         \/ entry[k] \in Rows /\ FollowsWorkflow(entry[k], r)
  PROVE  Follows
<1> SUFFICES ASSUME NEW i \in Entries
             PROVE  /\ entry[i] \in Rows /\ entry'[i] \in Rows =>
                         FollowsWorkflow(entry[i], entry'[i])
                    /\ entry[i] = Deleted => entry'[i] = Deleted
  BY DEF Follows
<1>1. CASE i = k
  BY <1>1, TimeNulls DEF TypeOK
<1>2. CASE i # k
  BY <1>2 DEF TypeOK, FollowsWorkflow
<1> QED
  BY <1>1, <1>2

\* The copy saved is the row with the columns of the call changed.
LEMMA ColumnsFollow ==
  ASSUME NEW r \in Rows
  PROVE  /\ r.status = "submitted" =>
              /\ FollowsWorkflow(r, [r EXCEPT !.status = "approved",
                                       !.approved = TRUE, !.rejected = FALSE])
              /\ FollowsWorkflow(r, [r EXCEPT !.status = "rejected",
                                       !.rejected = TRUE, !.approved = FALSE])
         /\ r.status \in {"draft", "rejected"} =>
              FollowsWorkflow(r, [r EXCEPT !.status = "submitted",
                                     !.submitted = TRUE, !.rejected = FALSE])
         /\ \A v \in Values, f \in Flags :
              /\ FollowsWorkflow(r, [r EXCEPT !.seen = v, !.flag = f])
              /\ FollowsWorkflow(r, [r EXCEPT !.flag = f])
              /\ r.status # "approved" =>
                   FollowsWorkflow(r, [r EXCEPT !.value = v, !.seen = v,
                                                !.flag = f])
BY DEF FollowsWorkflow, Rows

LEMMA EntryStepFollows ==
  ASSUME TimeInv, FollowInv, OneAtATime, PlainWeb, NEW t \in Threads, EntryStep(t)
  PROVE  Follows
<1> USE DEF TimeInv
<1>1. CASE Create(t)
  <2>1. PICK i \in clients.keys, w \in Worklogs \cup {Manual},
             s \in clients.statuses \cup {"draft"}, v \in Values \ Weekend :
          entry[i] = NoRow /\ entry' = [entry EXCEPT ![i] = NewRow(w, s, v)]
    BY <1>1 DEF Create
  <2>2. i \in Entries
    BY TimeConstants DEF TypeOK
  <2> QED
    BY <2>1, <2>2, WriteFollows
<1>2. CASE EditLoad(t) \/ EditCheck(t) \/ DeleteLoad(t) \/ DecideLoad(t)
  BY <1>2, SameFollows DEF EditLoad, EditCheck, DeleteLoad, DecideLoad, Reads
<1>3. CASE EditSave(t)
  <2>1. /\ job[t].key \in Entries /\ entry[job[t].key] \in Rows
        /\ job[t].row.status = entry[job[t].key].status
        /\ job[t].row.status # "approved"
    BY <1>3 DEF EditSave, FollowInv, Fresh, Live
  <2> QED
    BY <1>3, <2>1, WriteFollows DEF EditSave, SaveCopy, FollowsWorkflow
<1>4. CASE Delete(t)
  <2>1. job[t].key \in Entries
    BY <1>4 DEF Delete, JobOK, JobFits, KeyStages
  <2> QED
    BY <1>4, <2>1, WriteFollows DEF Delete
<1>5. CASE Submit(t)
  <2>1. ASSUME NEW i \in Entries
        PROVE  /\ entry[i] \in Rows /\ entry'[i] \in Rows =>
                    FollowsWorkflow(entry[i], entry'[i])
               /\ entry[i] = Deleted => entry'[i] = Deleted
    <3>1. CASE entry'[i] = entry[i]
      BY <3>1 DEF FollowsWorkflow
    <3>2. CASE entry'[i] # entry[i]
      <4>1. /\ entry[i] \in Rows /\ entry[i].status \in {"draft", "rejected"}
            /\ entry'[i] = [entry[i] EXCEPT !.status = "submitted",
                                            !.submitted = TRUE, !.rejected = FALSE]
        BY <1>5, <3>2 DEF Submit, Live
      <4> QED
        BY <4>1, ColumnsFollow, TimeNulls
    <3> QED
      BY <3>1, <3>2
  <2> QED
    BY <2>1 DEF Follows
<1>6. CASE Approve(t) \/ Reject(t)
  <2>1. /\ job[t].key \in Entries /\ entry[job[t].key] \in Rows
        /\ job[t].row = entry[job[t].key]
        /\ entry[job[t].key].status = "submitted"
    BY <1>6 DEF Approve, Reject, FollowInv, Fresh, Live, Decisions, JobOK, JobFits
  <2>2. CASE Approve(t)
    BY <2>1, <2>2, ColumnsFollow, WriteFollows DEF Approve, SaveCopy
  <2>3. CASE Reject(t)
    BY <2>1, <2>3, ColumnsFollow, WriteFollows DEF Reject, SaveCopy
  <2> QED
    BY <1>6, <2>2, <2>3
<1>7. CASE AssistantDecide(t)
  BY <1>7 DEF AssistantDecide, Free, PlainWeb, AssistantCalls
<1> QED
  BY <1>1, <1>2, <1>3, <1>4, <1>5, <1>6, <1>7 DEF EntryStep

LEMMA ImportStepFollows ==
  ASSUME TimeInv, FollowInv, OneAtATime, PlainWeb, NEW t \in Threads, ImportStep(t)
  PROVE  Follows
<1> USE DEF TimeInv
<1>1. CASE ImportFetch(t) \/ ImportPreview(t) \/ ImportRead(t) \/ ResolveLoad(t)
  BY <1>1, SameFollows DEF ImportFetch, ImportPreview, ImportRead, ResolveLoad, Reads
<1>2. CASE ImportFlag(t)
  <2>1. /\ job[t].key \in Entries /\ entry[job[t].key] \in Rows
        /\ job[t].said \in Values /\ job[t].flag \in Flags
    BY <1>2 DEF ImportFlag, SaveFields, Live, JobOK, Jobs, JobFits, ImportStages
  <2> QED
    BY <1>2, <2>1, ColumnsFollow, WriteFollows DEF ImportFlag, SaveFields
<1>3. CASE ImportOverwrite(t)
  <2>1. /\ job[t].key \in Entries /\ entry[job[t].key] \in Rows
        /\ job[t].row = entry[job[t].key]
        /\ job[t].said \in Values /\ job[t].flag \in Flags
        /\ entry[job[t].key].status # "approved"
    BY <1>3 DEF ImportOverwrite, FollowInv, Fresh, Live, JobOK, Jobs, JobFits,
       ImportStages
  <2>2. FollowsWorkflow(entry[job[t].key], Overwritten(t))
    BY <2>1, ColumnsFollow DEF Overwritten
  <2>3. entry' = [entry EXCEPT ![job[t].key] = Overwritten(t)]
    BY <1>3 DEF ImportOverwrite, SaveCopy
  <2> QED
    BY <2>1, <2>2, <2>3, WriteFollows
<1>4. CASE ImportInsert(t)
  <2>1. PICK i \in clients.keys :
          /\ entry[i] = NoRow
          /\ entry' = [entry EXCEPT ![i] = NewRow(job[t].worklog, "draft", job[t].said)]
    BY <1>4 DEF ImportInsert
  <2>2. i \in Entries
    BY TimeConstants DEF TypeOK
  <2> QED
    BY <2>1, <2>2, WriteFollows
<1>5. CASE AcceptCurrent(t)
  <2>1. /\ job[t].key \in Entries /\ entry[job[t].key] \in Rows
        /\ job[t].row.seen \in Values /\ "none" \in Flags
    BY <1>5 DEF AcceptCurrent, SaveFields, Live, JobOK, JobFits, CopyStages,
       Resolutions, Rows, Flags
  <2> QED
    BY <1>5, <2>1, ColumnsFollow, WriteFollows DEF AcceptCurrent, SaveFields
<1>6. CASE ApplySource(t)
  <2>1. /\ job[t].key \in Entries /\ entry[job[t].key] \in Rows
        /\ job[t].row = entry[job[t].key] /\ "none" \in Flags
        /\ job[t].row.value \in Values
    BY <1>6 DEF ApplySource, FollowInv, Fresh, Live, Resolutions, Rows, Flags
  <2>2. FollowsWorkflow(entry[job[t].key], [job[t].row EXCEPT !.flag = "none"])
    BY <2>1, ColumnsFollow
  <2> QED
    BY <1>6, <2>1, <2>2, WriteFollows DEF ApplySource, SaveCopy
<1> QED
  BY <1>1, <1>2, <1>3, <1>4, <1>5, <1>6 DEF ImportStep

\* With one client at a time, who writes no status and asks no assistant, what
\* is approved is neither edited nor overwritten by its source, decisions are
\* made on what was submitted, and deleted entries stay deleted: for any number
\* of entries, worklogs and calls that die halfway.
THEOREM EntriesFollowWorkflowHolds == Spec => EntriesFollowWorkflow
<1>1. ASSUME TimeInv, FollowInv, [Next]_vars
      PROVE  [OneAtATime /\ PlainWeb => Follows]_vars
  <2>1. CASE UNCHANGED vars
    BY <2>1
  <2>2. CASE SourceChanges \/ \E t \in Threads : Abort(t)
    BY <2>2, SameFollows DEF SourceChanges, Abort, Reads
  <2> QED
    BY <1>1, <2>1, <2>2, EntryStepFollows, ImportStepFollows DEF Next
<1>2. Spec => [][OneAtATime /\ PlainWeb => Follows]_vars
  BY <1>1, TimeInit, TimeStep, FollowInit, FollowStep, PTL DEF Spec
<1> QED
  BY <1>2 DEF EntriesFollowWorkflow, Follows
=============================================================================
