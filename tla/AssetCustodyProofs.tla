------------------------- MODULE AssetCustodyProofs -------------------------
(***************************************************************************)
(* Theorems about AssetCustody for any number of assets, assignments,      *)
(* threads and clients.                                                    *)
(*                                                                         *)
(* The base is JobOK: a thread serves a call that its clients make, and    *)
(* the copy it holds fits the call.  On it rest two facts about copies:    *)
(* no copy takes a return back, and a completion under the lock reads what *)
(* is stored.  With one web client, what a call has checked still holds    *)
(* when it writes: an asset has one holder, and the rows tell what         *)
(* happened.                                                               *)
(***************************************************************************)
EXTENDS AssetCustody, TLAPS

AssetValues == StatusValues \cup {NoRow, Deleted}

JobFits(j) ==
  /\ j.call \in clients.calls \cup {"none"}
  /\ j.call \in CreatingCalls => j.row \in Rows
  /\ j.call \in ReturnCalls \cup {"put"} => j.key \in Assignments /\ j.row \in Rows
  /\ j.call \in PlanCalls => j.row \in Plans /\ j.status \in AssetValues
  /\ j.call = "update_asset" => j.key \in Assets

JobOK ==
  /\ DOMAIN job = Threads
  /\ \A t \in Threads : JobFits(job[t])

CustodyInv == TypeOK /\ JobOK

-----------------------------------------------------------------------------
(* Type correctness.                                                       *)

LEMMA IdleFits == JobFits(Idle)
BY DEF JobFits, Idle, CreatingCalls, ReturnCalls, PlanCalls

LEMMA CustodyInit == Init => CustodyInv
<1> SUFFICES ASSUME Init PROVE CustodyInv
  OBVIOUS
<1>1. TypeOK
  BY CustodyConstants DEF Init, TypeOK
<1>2. JobOK
  BY IdleFits DEF Init, JobOK
<1> QED
  BY <1>1, <1>2 DEF CustodyInv

\* A thread takes up a job, or ends one.
LEMMA JobStep ==
  ASSUME JobOK, NEW t \in Threads, NEW j, JobFits(j),
         job' = [job EXCEPT ![t] = j], UNCHANGED clients
  PROVE  JobOK'
<1>1. \A u \in Threads : job'[u] = IF u = t THEN j ELSE job[u]
  BY DEF JobOK
<1>2. ASSUME NEW u \in Threads PROVE JobFits(job[u])'
  <2>1. JobFits(job'[u])
    BY <1>1 DEF JobOK
  <2> QED
    BY <2>1 DEF JobFits
<1>3. DOMAIN job' = Threads
  BY DEF JobOK
<1> QED
  BY <1>2, <1>3 DEF JobOK

LEMMA DoneStep ==
  ASSUME JobOK, NEW t \in Threads, Done(t), UNCHANGED clients
  PROVE  JobOK'
BY IdleFits, JobStep DEF Done

LEMMA HoldsStep ==
  ASSUME JobOK, NEW t \in Threads, NEW c, NEW k, NEW r, NEW s,
         c \in clients.calls, Holds(t, c, k, r, s), UNCHANGED clients,
         c \in CreatingCalls => r \in Rows,
         c \in ReturnCalls \cup {"put"} => k \in Assignments /\ r \in Rows,
         c \in PlanCalls => r \in Plans /\ s \in AssetValues,
         c = "update_asset" => k \in Assets
  PROVE  JobOK'
<1> DEFINE j == [call |-> c, key |-> k, row |-> r, status |-> s]
<1>1. JobFits(j)
  BY DEF JobFits
<1>2. job' = [job EXCEPT ![t] = j]
  BY DEF Holds
<1> HIDE DEF j
<1> QED
  BY <1>1, <1>2, JobStep

LEMMA SameTables ==
  ASSUME TypeOK, UNCHANGED tables, UNCHANGED clients,
         lock' \in Threads \cup {NoThread}
  PROVE  TypeOK'
BY DEF TypeOK, tables

\* One row of the assignment table is written.
LEMMA RowWritten ==
  ASSUME TypeOK, NEW k \in Assignments, NEW r \in Rows \cup {Deleted},
         assignment' = [assignment EXCEPT ![k] = r],
         UNCHANGED <<asset, plan, logs, lock, clients>>
  PROVE  TypeOK'
BY DEF TypeOK

LEMMA AssetWritten ==
  ASSUME TypeOK, NEW k \in Assets, NEW s \in AssetValues,
         asset' = [asset EXCEPT ![k] = s],
         UNCHANGED <<assignment, plan, logs, lock, clients>>
  PROVE  TypeOK'
BY DEF TypeOK, AssetValues

LEMMA PlanWritten ==
  ASSUME TypeOK, plan' \in Plans \cup {Deleted},
         UNCHANGED <<asset, assignment, logs, lock, clients>>
  PROVE  TypeOK'
BY DEF TypeOK

\* What the calls write from a row or a copy of it.
LEMMA WrittenRows ==
  ASSUME NEW r \in Rows
  PROVE  /\ \A q \in RequestStatuses :
              /\ [r EXCEPT !.request = q] \in Rows
              /\ [r EXCEPT !.request = q].returned = r.returned
         /\ [r EXCEPT !.returned = TRUE] \in Rows
         /\ [r EXCEPT !.returned = TRUE].returned
         /\ [r EXCEPT !.returned = TRUE, !.request = "approved"] \in Rows
         /\ [r EXCEPT !.returned = TRUE, !.request = "approved"].returned
BY DEF Rows, RequestStatuses

LEMMA WrittenPlans ==
  ASSUME NEW p \in Plans
  PROVE  /\ \A a \in Assets : /\ [p EXCEPT !.asset = a] \in Plans
                              /\ [p EXCEPT !.asset = a].status = p.status
         /\ [p EXCEPT !.status = "cancelled"] \in Plans
         /\ [p EXCEPT !.status = "cancelled"].status = "cancelled"
         /\ [p EXCEPT !.log = 0] \in Plans
         /\ [p EXCEPT !.log = 0].status = p.status
         /\ \A n \in 0..MaxLogs :
              /\ [p EXCEPT !.status = "completed", !.log = n] \in Plans
              /\ [p EXCEPT !.status = "completed", !.log = n].status = "completed"
         /\ p.asset \in Assets
<1>1. 0 \in 0..MaxLogs
  BY CustodyConstants
<1>2. /\ p.asset \in Assets /\ p.status \in PlanStatuses /\ p.log \in 0..MaxLogs
      /\ p = [asset |-> p.asset, status |-> p.status, log |-> p.log]
  BY DEF Plans
<1>3. \A a \in Assets : /\ [p EXCEPT !.asset = a] \in Plans
                        /\ [p EXCEPT !.asset = a].status = p.status
  BY <1>2 DEF Plans
<1>4. /\ [p EXCEPT !.status = "cancelled"] \in Plans
      /\ [p EXCEPT !.status = "cancelled"].status = "cancelled"
  BY <1>2 DEF Plans, PlanStatuses
<1>5. /\ [p EXCEPT !.log = 0] \in Plans
      /\ [p EXCEPT !.log = 0].status = p.status
  BY <1>1, <1>2 DEF Plans
<1>6. \A n \in 0..MaxLogs :
        /\ [p EXCEPT !.status = "completed", !.log = n] \in Plans
        /\ [p EXCEPT !.status = "completed", !.log = n].status = "completed"
  BY <1>2 DEF Plans, PlanStatuses
<1> QED
  BY <1>2, <1>3, <1>4, <1>5, <1>6

LEMMA PutRow ==
  ASSUME NEW r \in Rows, NEW body \in PutBodies
  PROVE  Sent(body, r) \in Rows
<1>1. /\ body.asset \in Assets \cup {Keep}
      /\ body.returned \in BOOLEAN \cup {Keep}
      /\ body.request \in RequestStatuses \cup {Keep}
  BY CustodyConstants
<1> QED
  BY <1>1 DEF Sent, Rows

LEMMA AssignmentTypes ==
  ASSUME CustodyInv, NEW t \in Threads, AssignmentStep(t) PROVE CustodyInv'
<1> USE DEF CustodyInv
<1>1. CASE AssignCheck(t)
  <2>1. PICK c \in CreatingCalls, a \in LiveAssets :
          /\ Free(t, c)
          /\ Holds(t, c, NoRow,
                   [asset |-> a, returned |-> FALSE, request |-> "none",
                    put |-> FALSE], NoRow)
    BY <1>1 DEF AssignCheck
  <2>2. [asset |-> a, returned |-> FALSE, request |-> "none",
         put |-> FALSE] \in Rows
    BY DEF Rows, RequestStatuses, LiveAssets
  <2>3. c \in clients.calls /\ c \notin ReturnCalls \cup {"put"}
           /\ c \notin PlanCalls /\ c # "update_asset"
    BY <2>1 DEF Free, CreatingCalls, ReturnCalls, PlanCalls
  <2>4. JobOK'
    BY <1>1, <2>1, <2>2, <2>3, HoldsStep DEF AssignCheck, Others
  <2> QED
    BY <1>1, <2>4, SameTables DEF AssignCheck, Others, TypeOK
<1>2. CASE AssignInsert(t)
  <2>1. job[t].row \in Rows
    BY <1>2 DEF AssignInsert, JobOK, JobFits
  <2> QED
    BY <1>2, <2>1, RowWritten, DoneStep DEF AssignInsert, Others
<1>3. CASE DeleteAssignment(t)
  <2>1. JobOK'
    BY <1>3 DEF DeleteAssignment, Others, JobOK, JobFits
  <2> QED
    BY <1>3, <2>1, RowWritten DEF DeleteAssignment, Others, LiveRows
<1>4. CASE LoadForReturn(t)
  <2>1. PICK c \in ReturnCalls, i \in LiveRows :
          Free(t, c) /\ Holds(t, c, i, assignment[i], NoRow)
    BY <1>4 DEF LoadForReturn
  <2>2. c \in clients.calls /\ c \notin CreatingCalls
           /\ c \notin PlanCalls /\ c # "update_asset"
    BY <2>1 DEF Free, CreatingCalls, ReturnCalls, PlanCalls
  <2>3. i \in Assignments /\ assignment[i] \in Rows
    BY DEF LiveRows
  <2>4. JobOK'
    BY <1>4, <2>1, <2>2, <2>3, HoldsStep DEF LoadForReturn, Others
  <2> QED
    BY <1>4, <2>4, SameTables DEF LoadForReturn, Others, TypeOK
<1>5. CASE LoadForPut(t)
  <2>1. PICK i \in LiveRows, body \in PutBodies :
          Holds(t, "put", i, Sent(body, assignment[i]), NoRow)
    BY <1>5 DEF LoadForPut
  <2>2. i \in Assignments /\ assignment[i] \in Rows
    BY DEF LiveRows
  <2>3. Sent(body, assignment[i]) \in Rows
    BY <2>2, PutRow
  <2>4. "put" \in clients.calls /\ "put" \notin CreatingCalls
           /\ "put" \notin PlanCalls
    BY <1>5 DEF LoadForPut, Free, CreatingCalls, PlanCalls
  <2>5. JobOK'
    BY <1>5, <2>1, <2>2, <2>3, <2>4, HoldsStep DEF LoadForPut, Others
  <2> QED
    BY <1>5, <2>5, SameTables DEF LoadForPut, Others, TypeOK
<1>6. CASE RequestReturn(t)
  BY <1>6, WrittenRows, RowWritten, DoneStep
     DEF RequestReturn, Update, Others, LiveRows, RequestStatuses
<1>7. CASE RejectReturn(t)
  BY <1>7, WrittenRows, RowWritten, DoneStep
     DEF RejectReturn, Update, Others, LiveRows, RequestStatuses
<1>8. CASE AssistantReturn(t)
  BY <1>8, WrittenRows, RowWritten, DoneStep
     DEF AssistantReturn, Update, Others, LiveRows
<1>9. CASE Return(t)
  <2>1. job[t].key \in Assignments /\ job[t].row \in Rows
    BY <1>9 DEF Return, JobOK, JobFits, ReturnCalls
  <2> QED
    BY <1>9, <2>1, WrittenRows, RowWritten, DoneStep DEF Return, SaveCopy, Others
<1>10. CASE Put(t)
  <2>1. job[t].key \in Assignments /\ job[t].row \in Rows
    BY <1>10 DEF Put, JobOK, JobFits
  <2> QED
    BY <1>10, <2>1, RowWritten, DoneStep DEF Put, SaveCopy, Others
<1> QED
  BY <1>1, <1>2, <1>3, <1>4, <1>5, <1>6, <1>7, <1>8, <1>9, <1>10
     DEF AssignmentStep

LEMMA AssetTypes ==
  ASSUME CustodyInv, NEW t \in Threads, AssetStep(t) PROVE CustodyInv'
<1> USE DEF CustodyInv
<1>1. ASSUME UNCHANGED <<job, clients>> PROVE JobOK'
  BY <1>1 DEF JobOK, JobFits
<1>2. CASE CreateAsset(t)
  BY <1>1, <1>2, AssetWritten DEF CreateAsset, Others, AssetValues
<1>3. CASE LoadAsset(t)
  <2>1. PICK a \in Assets : Holds(t, "update_asset", a, NoRow, asset[a])
    BY <1>3 DEF LoadAsset, LiveAssets
  <2>2. "update_asset" \in clients.calls
    BY <1>3 DEF LoadAsset, Free
  <2>3. "update_asset" \notin CreatingCalls \cup ReturnCalls \cup PlanCalls
    BY DEF CreatingCalls, ReturnCalls, PlanCalls
  <2>4. JobOK'
    BY <1>3, <2>1, <2>2, <2>3, HoldsStep DEF LoadAsset, Others
  <2> QED
    BY <1>3, <2>4, SameTables DEF LoadAsset, Others, TypeOK
<1>4. CASE UpdateAsset(t)
  <2>1. job[t].key \in Assets
    BY <1>4 DEF UpdateAsset, JobOK, JobFits
  <2> QED
    BY <1>4, <2>1, AssetWritten, DoneStep DEF UpdateAsset, Others, AssetValues
<1>5. CASE AssistantStatus(t)
  BY <1>1, <1>5, AssetWritten DEF AssistantStatus, Others, AssetValues, LiveAssets
<1>6. CASE DeleteAsset(t)
  <2>1. PICK a \in LiveAssets :
          /\ asset' = [asset EXCEPT ![a] = Deleted]
          /\ assignment' = [i \in Assignments |->
                              IF i \in LiveRows /\ assignment[i].asset = a
                              THEN Deleted ELSE assignment[i]]
          /\ plan' = IF plan \in Plans /\ plan.asset = a THEN Deleted ELSE plan
    BY <1>6 DEF DeleteAsset
  <2>2. asset' \in [Assets -> StatusValues \cup {NoRow, Deleted}]
    BY <2>1 DEF TypeOK
  <2>3. assignment' \in [Assignments -> Rows \cup {NoRow, Deleted}]
    BY <2>1 DEF TypeOK
  <2>4. plan' \in Plans \cup {NoRow, Deleted}
    BY <2>1 DEF TypeOK
  <2>5. TypeOK'
    BY <1>6, <2>2, <2>3, <2>4 DEF TypeOK, DeleteAsset, Others
  <2> QED
    BY <1>1, <1>6, <2>5 DEF DeleteAsset, Others
<1> QED
  BY <1>2, <1>3, <1>4, <1>5, <1>6 DEF AssetStep

LEMMA CompletedTypes ==
  ASSUME TypeOK, plan \in Plans, NEW s \in AssetValues, Completed(s)
  PROVE  /\ asset' \in [Assets -> StatusValues \cup {NoRow, Deleted}]
         /\ plan' \in Plans /\ plan'.status = "completed"
         /\ logs' \in 0..MaxLogs /\ logs' = logs + 1
<1>1. logs + 1 \in 0..MaxLogs
  BY CustodyConstants DEF TypeOK, Completed
<1>2. asset' \in [Assets -> StatusValues \cup {NoRow, Deleted}]
  BY WrittenPlans DEF TypeOK, Completed, AssetValues
<1>3. plan' \in Plans /\ plan'.status = "completed"
  BY <1>1 DEF Completed, Plans, PlanStatuses
<1> QED
  BY <1>1, <1>2, <1>3 DEF Completed

LEMMA MaintenanceTypes ==
  ASSUME CustodyInv, NEW t \in Threads, MaintenanceStep(t) PROVE CustodyInv'
<1> USE DEF CustodyInv
<1>1. ASSUME UNCHANGED <<job, clients>> PROVE JobOK'
  BY <1>1 DEF JobOK, JobFits
<1>2. CASE Schedule(t)
  <2>1. 0 \in 0..MaxLogs
    BY CustodyConstants
  <2>2. plan' \in Plans
    BY <1>2, <2>1 DEF Schedule, Plans, PlanStatuses, LiveAssets
  <2> QED
    BY <1>1, <1>2, <2>2, PlanWritten DEF Schedule, Others
<1>3. CASE LoadPlan(t)
  <2>1. PICK c \in PlanCalls :
          Free(t, c) /\ Holds(t, c, NoRow, plan, asset[plan.asset])
    BY <1>3 DEF LoadPlan
  <2>2. c \in clients.calls /\ c \notin CreatingCalls
           /\ c \notin ReturnCalls \cup {"put"} /\ c # "update_asset"
    BY <2>1 DEF Free, CreatingCalls, ReturnCalls, PlanCalls
  <2>3. plan \in Plans
    BY <1>3 DEF LoadPlan
  <2>4. asset[plan.asset] \in AssetValues
    BY <2>3, WrittenPlans DEF TypeOK, AssetValues
  <2>5. JobOK'
    BY <1>3, <2>1, <2>2, <2>3, <2>4, HoldsStep DEF LoadPlan, Others
  <2> QED
    BY <1>3, <2>5, SameTables DEF LoadPlan, Others, TypeOK
<1>4. CASE Reschedule(t)
  <2>1. job[t].row \in Plans
    BY <1>4 DEF Reschedule, JobOK, JobFits, PlanCalls
  <2>2. PICK a \in Assets : plan' = [job[t].row EXCEPT !.asset = a]
    BY <1>4 DEF Reschedule, LiveAssets
  <2>3. plan' \in Plans
    BY <2>1, <2>2, WrittenPlans
  <2>4. TypeOK'
    BY <1>4, <2>3, PlanWritten DEF Reschedule, Others
  <2> QED
    BY <1>4, <2>4, DoneStep DEF Reschedule, Others
<1>5. CASE Cancel(t)
  BY <1>5, WrittenPlans, PlanWritten, DoneStep DEF Cancel, Others
<1>6. CASE CompleteLock(t)
  <2>1. "complete" \in clients.calls
    BY <1>6 DEF CompleteLock, Free
  <2>2. "complete" \notin CreatingCalls \cup ReturnCalls \cup PlanCalls
    BY DEF CreatingCalls, ReturnCalls, PlanCalls
  <2>3. JobOK'
    BY <1>6, <2>1, <2>2, HoldsStep DEF CompleteLock
  <2> QED
    BY <1>6, <2>3, SameTables DEF CompleteLock
<1>7. CASE Complete(t)
  <2>1. plan \in Plans
    BY <1>7 DEF Complete
  <2>2. asset[plan.asset] \in AssetValues
    BY <2>1, WrittenPlans DEF TypeOK, AssetValues
  <2>3. PICK s \in AssetValues : Completed(s)
    BY <1>7, <2>2 DEF Complete, AssetValues
  <2>4. TypeOK'
    BY <1>7, <2>1, <2>3, CompletedTypes DEF Complete, TypeOK
  <2> QED
    BY <1>7, <2>4, DoneStep DEF Complete
<1>8. CASE AssistantComplete(t)
  <2>1. plan \in Plans
    BY <1>8 DEF AssistantComplete
  <2>2. job[t].status \in AssetValues
    BY <1>8 DEF AssistantComplete, JobOK, JobFits, PlanCalls
  <2>3. PICK s \in AssetValues : Completed(s)
    BY <1>8, <2>2 DEF AssistantComplete, AssetValues
  <2>4. TypeOK'
    BY <1>8, <2>1, <2>3, CompletedTypes DEF AssistantComplete, Others, TypeOK
  <2> QED
    BY <1>8, <2>4, DoneStep DEF AssistantComplete, Others
<1>9. CASE DeleteLog(t)
  BY <1>1, <1>9, WrittenPlans, PlanWritten DEF DeleteLog, Others
<1> QED
  BY <1>2, <1>3, <1>4, <1>5, <1>6, <1>7, <1>8, <1>9 DEF MaintenanceStep

LEMMA CustodyStep == ASSUME CustodyInv, [Next]_vars PROVE CustodyInv'
<1>1. CASE UNCHANGED vars
  BY <1>1 DEF vars, CustodyInv, TypeOK, JobOK, JobFits
<1>2. ASSUME NEW t \in Threads, Abort(t) PROVE CustodyInv'
  <2>1. lock' \in Threads \cup {NoThread}
    BY <1>2 DEF Abort, CustodyInv, TypeOK
  <2> QED
    BY <1>2, <2>1, SameTables, DoneStep DEF Abort, CustodyInv
<1> QED
  BY <1>1, <1>2, AssignmentTypes, AssetTypes, MaintenanceTypes DEF Next

\* The tables keep their shape, whatever copies are saved over each other.
THEOREM CustodyTypeCorrect == Spec => []TypeOK
<1>1. CustodyInv => TypeOK
  BY DEF CustodyInv
<1> QED
  BY <1>1, CustodyInit, CustodyStep, PTL DEF Spec

-----------------------------------------------------------------------------
(* A maintenance is logged once.                                           *)

\* No client edits a plan: PATCH saves a copy whose status may be older than
\* the row's.
NobodyReschedules == \A c \in Clients : "reschedule" \notin c.calls

IsScheduled(p) == p \in Plans /\ p.status = "scheduled"

\* A completion under way holds the lock, and the plan it read is stored; a
\* plan that is yet to be completed has no log.
LogInv ==
  WebOnly =>
    /\ logs <= 1
    /\ plan = NoRow \/ IsScheduled(plan) => logs = 0
    /\ \A t \in Threads :
         job[t].call = "complete" =>
           lock = t /\ (plan \in Plans => IsScheduled(plan))

LEMMA LogInit == Init => LogInv
BY CustodyNulls DEF Init, LogInv, IsScheduled, Idle

\* Steps that complete nothing.
LEMMA QuietStep ==
  ASSUME LogInv, UNCHANGED <<logs, lock, clients>>,
         \A u \in Threads : job'[u].call = "complete" => job[u].call = "complete",
         \/ plan' = plan
         \/ plan' = Deleted
         \/ plan \in Plans /\ plan' \in Plans /\ plan'.status = plan.status
  PROVE  LogInv'
BY CustodyNulls DEF LogInv, IsScheduled, WebOnly

LEMMA OtherCall ==
  ASSUME JobOK, NEW t \in Threads, NEW j, j.call # "complete",
         job' = [job EXCEPT ![t] = j]
  PROVE  \A u \in Threads : job'[u].call = "complete" =>
           job[u].call = "complete" /\ u # t
BY DEF JobOK

LEMMA DoneCall ==
  ASSUME JobOK, NEW t \in Threads, Done(t)
  PROVE  \A u \in Threads : job'[u].call = "complete" =>
           job[u].call = "complete" /\ u # t
<1>1. Idle.call # "complete"
  BY DEF Idle
<1> QED
  BY <1>1, OtherCall DEF Done

LEMMA HoldsCall ==
  ASSUME JobOK, NEW t \in Threads, NEW c, NEW k, NEW r, NEW s, c # "complete",
         Holds(t, c, k, r, s)
  PROVE  \A u \in Threads : job'[u].call = "complete" => job[u].call = "complete"
<1> DEFINE j == [call |-> c, key |-> k, row |-> r, status |-> s]
<1>1. j.call # "complete" /\ job' = [job EXCEPT ![t] = j]
  BY DEF Holds
<1> HIDE DEF j
<1> QED
  BY <1>1, OtherCall

LEMMA LogStep ==
  ASSUME CustodyInv, LogInv, NobodyReschedules, [Next]_vars PROVE LogInv'
<1> USE DEF CustodyInv
<1>1. CASE UNCHANGED vars
  BY <1>1, QuietStep DEF vars
<1>2. ASSUME NEW t \in Threads, AssignmentStep(t) PROVE LogInv'
  <2>1. UNCHANGED <<logs, lock, clients, plan>>
    BY <1>2 DEF AssignmentStep, AssignCheck, AssignInsert, DeleteAssignment,
       LoadForReturn, LoadForPut, RequestReturn, RejectReturn, AssistantReturn,
       Return, Put, Update, SaveCopy, Others, tables
  <2>2. \A u \in Threads : job'[u].call = "complete" => job[u].call = "complete"
    <3>1. CASE AssignCheck(t)
      BY <3>1, HoldsCall DEF AssignCheck, CreatingCalls
    <3>2. CASE LoadForReturn(t)
      BY <3>2, HoldsCall DEF LoadForReturn, ReturnCalls
    <3>3. CASE LoadForPut(t)
      BY <3>3, HoldsCall DEF LoadForPut
    <3>4. CASE Done(t)
      BY <3>4, DoneCall
    <3>5. CASE UNCHANGED job
      BY <3>5
    <3> QED
      BY <1>2, <3>1, <3>2, <3>3, <3>4, <3>5
         DEF AssignmentStep, AssignInsert, DeleteAssignment, RequestReturn,
         RejectReturn, AssistantReturn, Return, Put, Update, SaveCopy
  <2> QED
    BY <2>1, <2>2, QuietStep
<1>3. ASSUME NEW t \in Threads, AssetStep(t) PROVE LogInv'
  <2>1. UNCHANGED <<logs, lock, clients>> /\ plan' \in {plan, Deleted}
    BY <1>3 DEF AssetStep, CreateAsset, LoadAsset, UpdateAsset, AssistantStatus,
       DeleteAsset, Others, tables
  <2>2. \A u \in Threads : job'[u].call = "complete" => job[u].call = "complete"
    <3>1. CASE LoadAsset(t)
      BY <3>1, HoldsCall DEF LoadAsset
    <3>2. CASE Done(t)
      BY <3>2, DoneCall
    <3>3. CASE UNCHANGED job
      BY <3>3
    <3> QED
      BY <1>3, <3>1, <3>2, <3>3
         DEF AssetStep, CreateAsset, UpdateAsset, AssistantStatus, DeleteAsset
  <2> QED
    BY <2>1, <2>2, QuietStep
<1>4. ASSUME NEW t \in Threads, MaintenanceStep(t) PROVE LogInv'
  <2>1. CASE Schedule(t)
    BY <2>1, CustodyNulls DEF Schedule, LogInv, IsScheduled, WebOnly, Others, Plans,
       LiveAssets, PlanStatuses
  <2>2. CASE LoadPlan(t)
    <3>1. \A u \in Threads : job'[u].call = "complete" => job[u].call = "complete"
      BY <2>2, HoldsCall DEF LoadPlan, PlanCalls
    <3> QED
      BY <2>2, <3>1, QuietStep DEF LoadPlan, Others, tables
  <2>3. CASE Reschedule(t)
    <3>1. "reschedule" \in clients.calls /\ clients \in Clients
      BY <2>3 DEF Reschedule, TypeOK, JobOK, JobFits
    <3> QED
      BY <3>1 DEF NobodyReschedules
  <2>4. CASE Cancel(t)
    <3>1. plan' \in Plans /\ plan'.status = "cancelled"
      BY <2>4, WrittenPlans DEF Cancel
    <3>2. WebOnly => \A u \in Threads : job[u].call # "complete"
      BY <2>4, CustodyNulls DEF Cancel, PlanFree, LogInv
    <3>3. \A u \in Threads : job'[u].call = "complete" => job[u].call = "complete"
      BY <2>4, DoneCall DEF Cancel
    <3> QED
      BY <2>4, <3>1, <3>2, <3>3, CustodyNulls
         DEF Cancel, LogInv, IsScheduled, WebOnly, Others
  <2>5. CASE CompleteLock(t)
    <3>1. WebOnly => \A u \in Threads : job[u].call # "complete"
      BY <2>5, CustodyNulls DEF CompleteLock, PlanFree, LogInv
    <3>2. \A u \in Threads \ {t} : job'[u] = job[u]
      BY <2>5 DEF CompleteLock, Holds, JobOK
    <3> QED
      BY <2>5, <3>1, <3>2 DEF CompleteLock, LogInv, IsScheduled, WebOnly, tables
  <2>6. CASE Complete(t)
    <3>1. plan \in Plans /\ job[t].call = "complete"
      BY <2>6 DEF Complete
    <3>2. asset[plan.asset] \in AssetValues
      BY <3>1, WrittenPlans DEF TypeOK, AssetValues
    <3>3. PICK s \in AssetValues : Completed(s)
      BY <2>6, <3>2 DEF Complete, AssetValues
    <3>4. plan' \in Plans /\ plan'.status = "completed" /\ logs' = logs + 1
      BY <3>1, <3>3, CompletedTypes
    <3>5. WebOnly => logs = 0 /\ \A u \in Threads \ {t} : job[u].call # "complete"
      BY <3>1 DEF LogInv
    <3>6. \A u \in Threads : job'[u].call = "complete" =>
            job[u].call = "complete" /\ u # t
      BY <2>6, DoneCall DEF Complete
    <3> QED
      BY <2>6, <3>4, <3>5, <3>6, CustodyNulls
         DEF Complete, LogInv, IsScheduled, WebOnly
  <2>7. CASE AssistantComplete(t)
    <3>1. "assistant_complete" \in clients.calls
      BY <2>7 DEF AssistantComplete, JobOK, JobFits
    <3>2. ~WebOnly /\ UNCHANGED clients
      BY <2>7, <3>1 DEF AssistantComplete, WebOnly, AssistantCalls, Others
    <3> QED
      BY <3>2 DEF LogInv, WebOnly
  <2>8. CASE DeleteLog(t)
    <3>1. plan \in Plans /\ plan' \in Plans /\ plan'.status = plan.status
      BY <2>8, WrittenPlans DEF DeleteLog
    <3> QED
      BY <2>8, <3>1, QuietStep DEF DeleteLog, Others
  <2> QED
    BY <1>4, <2>1, <2>2, <2>3, <2>4, <2>5, <2>6, <2>7, <2>8 DEF MaintenanceStep
<1>5. ASSUME NEW t \in Threads, Abort(t) PROVE LogInv'
  <2>1. \A u \in Threads : job'[u].call = "complete" =>
          job[u].call = "complete" /\ u # t
    BY <1>5, DoneCall DEF Abort
  <2> QED
    BY <1>5, <2>1 DEF Abort, LogInv, IsScheduled, WebOnly, tables
<1> QED
  BY <1>1, <1>2, <1>3, <1>4, <1>5 DEF Next

\* The lock of the completion suffices for any number of threads that complete
\* and cancel one maintenance, as long as nobody edits it and the assistant,
\* which takes no lock, stays away.
THEOREM OneLogPerMaintenanceHolds ==
  ASSUME NobodyReschedules PROVE Spec => []OneLogPerMaintenance
<1>1. LogInv => OneLogPerMaintenance
  BY DEF LogInv, OneLogPerMaintenance
<1>2. CustodyInv /\ LogInv /\ [Next]_vars => LogInv'
  BY LogStep
<1> QED
  BY <1>1, <1>2, LogInit, CustodyInit, CustodyStep, PTL DEF Spec

-----------------------------------------------------------------------------
(* One web client at a time.                                               *)

\* Only the clients' threads serve calls.
AloneInv == \A t \in Threads : job[t] # Idle => t \in clients.threads

LEMMA AloneInit == Init => AloneInv
BY DEF Init, AloneInv

\* A thread that takes a step serves a client and leaves the others alone.
LEMMA Serves ==
  ASSUME CustodyInv, AloneInv, NEW t \in Threads,
         AssignmentStep(t) \/ AssetStep(t) \/ MaintenanceStep(t) \/ Abort(t)
  PROVE  /\ t \in clients.threads
         /\ UNCHANGED clients
         /\ \A u \in Threads : u # t => job'[u] = job[u]
<1> DEFINE Kept == \A u \in Threads : u # t => job'[u] = job[u]
<1>1. /\ Idle.call = "none"
      /\ "none" \notin Calls
  BY DEF Idle, Calls, CreatingCalls, ReturnCalls, PlanCalls, AssistantCalls
<1>2. /\ CreatingCalls \subseteq Calls
      /\ {"put", "update_asset", "reschedule", "cancel", "assistant_cancel",
          "complete", "assistant_complete", "request_return", "return",
          "reject_return", "assistant_return"} \subseteq Calls
  BY DEF Calls, CreatingCalls, ReturnCalls, PlanCalls, AssistantCalls
<1>3. job[t].call \in Calls \/ job[t] # Idle => t \in clients.threads
  BY <1>1 DEF AloneInv
<1>4. ASSUME NEW c, Free(t, c) PROVE t \in clients.threads
  BY <1>4 DEF Free
<1>5. DOMAIN job = Threads
  BY DEF CustodyInv, JobOK
<1>6. Done(t) \/ UNCHANGED job => Kept
  BY <1>5 DEF Done
<1>7. ASSUME NEW c, NEW k, NEW r, NEW s, Holds(t, c, k, r, s) PROVE Kept
  BY <1>5, <1>7 DEF Holds
<1>8. CASE AssignmentStep(t)
  <2>1. UNCHANGED clients
    BY <1>8 DEF AssignmentStep, AssignCheck, AssignInsert, DeleteAssignment,
         LoadForReturn, LoadForPut, RequestReturn, RejectReturn,
         AssistantReturn, Return, Put, Update, SaveCopy, Others
  <2>2. CASE AssignCheck(t) \/ LoadForReturn(t) \/ LoadForPut(t)
    BY <1>4, <1>7, <2>1, <2>2 DEF AssignCheck, LoadForReturn, LoadForPut
  <2>3. CASE DeleteAssignment(t)
    BY <1>4, <1>6, <2>1, <2>3 DEF DeleteAssignment
  <2>4. ASSUME job[t].call \in Calls, Done(t)
        PROVE  t \in clients.threads /\ Kept
    BY <1>3, <1>6, <2>4
  <2> HIDE DEF Kept
  <2> QED
    BY <1>2, <1>8, <2>1, <2>2, <2>3, <2>4
       DEF AssignmentStep, AssignInsert, RequestReturn, RejectReturn,
           AssistantReturn, Return, Put, Update, SaveCopy, Kept
<1>9. CASE AssetStep(t)
  <2>1. UNCHANGED clients
    BY <1>9 DEF AssetStep, CreateAsset, LoadAsset, UpdateAsset,
         AssistantStatus, DeleteAsset, Others
  <2>2. CASE LoadAsset(t)
    BY <1>4, <1>7, <2>1, <2>2 DEF LoadAsset
  <2>3. CASE CreateAsset(t) \/ AssistantStatus(t) \/ DeleteAsset(t)
    BY <1>4, <1>6, <2>1, <2>3 DEF CreateAsset, AssistantStatus, DeleteAsset
  <2>4. CASE UpdateAsset(t)
    BY <1>2, <1>3, <1>6, <2>1, <2>4 DEF UpdateAsset
  <2> QED
    BY <1>9, <2>2, <2>3, <2>4 DEF AssetStep
<1>10. CASE MaintenanceStep(t)
  <2>1. UNCHANGED clients
    BY <1>10 DEF MaintenanceStep, Schedule, LoadPlan, Reschedule, Cancel,
         CompleteLock, Complete, AssistantComplete, DeleteLog, Others
  <2>2. CASE LoadPlan(t) \/ CompleteLock(t)
    BY <1>4, <1>7, <2>1, <2>2 DEF LoadPlan, CompleteLock
  <2>3. CASE Schedule(t) \/ DeleteLog(t)
    BY <1>4, <1>6, <2>1, <2>3 DEF Schedule, DeleteLog
  <2>4. CASE Reschedule(t) \/ Cancel(t) \/ Complete(t) \/ AssistantComplete(t)
    BY <1>2, <1>3, <1>6, <2>1, <2>4
       DEF Reschedule, Cancel, Complete, AssistantComplete
  <2> QED
    BY <1>10, <2>2, <2>3, <2>4 DEF MaintenanceStep
<1>11. CASE Abort(t)
  BY <1>3, <1>6, <1>11 DEF Abort
<1> QED
  BY <1>8, <1>9, <1>10, <1>11

LEMMA AloneStep == ASSUME CustodyInv, AloneInv, [Next]_vars PROVE AloneInv'
<1>1. CASE UNCHANGED vars
  BY <1>1 DEF vars, AloneInv
<1>2. ASSUME NEW t \in Threads,
             AssignmentStep(t) \/ AssetStep(t) \/ MaintenanceStep(t) \/ Abort(t)
      PROVE  AloneInv'
  <2>1. /\ t \in clients.threads /\ UNCHANGED clients
        /\ \A u \in Threads : u # t => job'[u] = job[u]
    BY <1>2, Serves
  <2> QED
    BY <2>1 DEF AloneInv
<1> QED
  BY <1>1, <1>2 DEF Next

LEMMA AloneInvariant == Spec => [](CustodyInv /\ AloneInv)
<1>1. CustodyInv /\ [Next]_vars => CustodyInv'
  BY CustodyStep
<1>2. CustodyInv /\ AloneInv /\ [Next]_vars => AloneInv'
  BY AloneStep
<1> QED
  BY <1>1, <1>2, CustodyInit, AloneInit, PTL DEF Spec

\* When calls come one at a time, the other threads are idle.
LEMMA OthersIdle ==
  ASSUME CustodyInv, AloneInv, OneAtATime, NEW t \in Threads,
         AssignmentStep(t) \/ AssetStep(t) \/ MaintenanceStep(t) \/ Abort(t)
  PROVE  \A u \in Threads : u # t => job[u] = Idle /\ job'[u] = Idle
<1>1. /\ t \in clients.threads
      /\ \A u \in Threads : u # t => job'[u] = job[u]
  BY Serves
<1>2. \A u \in Threads : u # t => u \notin clients.threads
  BY <1>1 DEF OneAtATime
<1> QED
  BY <1>1, <1>2 DEF AloneInv

-----------------------------------------------------------------------------
(* What is returned stays returned.                                        *)

\* A client that changes assignments by PUT calls alone: only PUT saves a copy
\* whose return date may be older than the row's.
PutsAlone ==
  \A c \in Clients : "put" \in c.calls => \A t, u \in c.threads : t = u

\* The copy that a PUT holds does not take a return back, unless it says so.
Fresh(j) ==
  j.key \in LiveRows /\ assignment[j.key].returned => j.row.returned \/ j.row.put

PutInv == \A t \in Threads : job[t].call = "put" => Fresh(job[t])

LEMMA PutInit == Init => PutInv
BY DEF Init, PutInv, Idle

LEMMA PutStep ==
  ASSUME CustodyInv, AloneInv, PutInv, PutsAlone, [Next]_vars
  PROVE  PutInv'
<1>1. CASE UNCHANGED vars
  BY <1>1 DEF vars, PutInv, Fresh, LiveRows
<1>2. ASSUME NEW t \in Threads,
             AssignmentStep(t) \/ AssetStep(t) \/ MaintenanceStep(t) \/ Abort(t),
             NEW u \in Threads, job'[u].call = "put"
      PROVE  Fresh(job[u])'
  \* Nobody else calls, so that u is the thread that just loaded its copy.
  <2>1. OneAtATime
    <3>1. clients \in Clients /\ UNCHANGED clients
      BY <1>2, Serves DEF CustodyInv, TypeOK
    <3>2. CustodyInv'
      BY CustodyStep
    <3>3. job'[u].call \in clients'.calls \cup {"none"}
      BY <3>2 DEF CustodyInv, JobOK, JobFits
    <3> QED
      BY <1>2, <3>1, <3>3 DEF PutsAlone, OneAtATime
  <2>2. u = t
    BY <1>2, <2>1, OthersIdle DEF Idle
  <2>3. ~Done(t)
    BY <1>2, <2>2 DEF Done, Idle, CustodyInv, JobOK
  <2>4. ASSUME NEW c, Free(t, c), UNCHANGED job PROVE FALSE
    BY <1>2, <2>2, <2>4 DEF Free, Idle
  <2>5. ASSUME NEW c, NEW k, NEW r, NEW s, Holds(t, c, k, r, s)
        PROVE  c = "put" /\ job'[t].key = k /\ job'[t].row = r
    BY <1>2, <2>2, <2>5 DEF Holds, CustodyInv, JobOK
  <2>6. LoadForPut(t)
    <3>1. CASE AssignmentStep(t)
      <4>1. ~AssignCheck(t) /\ ~LoadForReturn(t)
        BY <2>5 DEF AssignCheck, LoadForReturn, CreatingCalls, ReturnCalls
      <4>2. ~DeleteAssignment(t)
        BY <2>4 DEF DeleteAssignment
      <4> QED
        BY <2>3, <3>1, <4>1, <4>2
           DEF AssignmentStep, AssignInsert, RequestReturn, RejectReturn,
               AssistantReturn, Return, Put, Update, SaveCopy
    <3>2. ~AssetStep(t)
      <4>1. ~LoadAsset(t)
        BY <2>5 DEF LoadAsset
      <4> QED
        BY <2>3, <2>4, <4>1
           DEF AssetStep, CreateAsset, UpdateAsset, AssistantStatus, DeleteAsset
    <3>3. ~MaintenanceStep(t)
      <4>1. ~LoadPlan(t) /\ ~CompleteLock(t)
        BY <2>5 DEF LoadPlan, CompleteLock, PlanCalls
      <4> QED
        BY <2>3, <2>4, <4>1
           DEF MaintenanceStep, Schedule, Reschedule, Cancel, Complete,
               AssistantComplete, DeleteLog
    <3> QED
      BY <1>2, <2>3, <3>1, <3>2, <3>3 DEF Abort
  <2>7. PICK i \in LiveRows, body \in PutBodies :
          Holds(t, "put", i, Sent(body, assignment[i]), NoRow)
    BY <2>6 DEF LoadForPut
  <2>8. /\ UNCHANGED assignment
        /\ job'[t].key = i /\ job'[t].row = Sent(body, assignment[i])
    BY <2>5, <2>6, <2>7 DEF LoadForPut, tables
  <2>9. assignment[i].returned =>
          Sent(body, assignment[i]).returned \/ Sent(body, assignment[i]).put
    BY DEF Sent
  <2> QED
    BY <2>2, <2>8, <2>9 DEF Fresh, LiveRows
<1> QED
  BY <1>1, <1>2 DEF Next, PutInv

LEMMA ReturnStep ==
  ASSUME CustodyInv, PutInv, [Next]_vars,
         NEW i \in Assignments, i \in LiveRows, assignment[i].returned,
         assignment'[i] \in Rows
  PROVE  assignment'[i].returned \/ assignment'[i].put
<1>1. CASE UNCHANGED assignment
  BY <1>1
<1>2. assignment[i] \in Rows
  BY DEF LiveRows
<1>3. ASSUME NEW k, NEW r, assignment' = [assignment EXCEPT ![k] = r],
             k = i => (r.returned \/ r.put \/ r = Deleted)
      PROVE  assignment'[i].returned \/ assignment'[i].put
  <2>1. assignment'[i] = IF i = k THEN r ELSE assignment[i]
    BY <1>3 DEF CustodyInv, TypeOK
  <2> QED
    BY <1>3, <2>1, CustodyNulls
<1>4. ASSUME NEW t \in Threads, AssignmentStep(t) PROVE assignment'[i].returned \/ assignment'[i].put
  <2>1. CASE AssignCheck(t) \/ LoadForReturn(t) \/ LoadForPut(t)
    BY <1>1, <2>1 DEF AssignCheck, LoadForReturn, LoadForPut, tables
  <2>2. CASE AssignInsert(t)
    <3>1. PICK k \in Assignments :
            assignment[k] = NoRow /\ assignment' = [assignment EXCEPT ![k] = job[t].row]
      BY <2>2 DEF AssignInsert
    <3>2. k # i
      BY <1>2, <3>1, CustodyNulls
    <3> QED
      BY <1>3, <3>1, <3>2
  <2>3. CASE DeleteAssignment(t)
    BY <1>3, <2>3 DEF DeleteAssignment
  <2>4. CASE RequestReturn(t)
    BY <1>2, <1>3, <2>4, WrittenRows DEF RequestReturn, Update, RequestStatuses
  <2>5. CASE RejectReturn(t)
    BY <1>2, <1>3, <2>5, WrittenRows DEF RejectReturn, Update, RequestStatuses
  <2>6. CASE AssistantReturn(t)
    BY <1>2, <1>3, <2>6, WrittenRows DEF AssistantReturn, Update
  <2>7. CASE Return(t)
    <3>1. job[t].row \in Rows
      BY <2>7 DEF Return, CustodyInv, JobOK, JobFits, ReturnCalls
    <3> QED
      BY <1>3, <2>7, <3>1, WrittenRows DEF Return, SaveCopy
  <2>8. CASE Put(t)
    <3>1. Fresh(job[t])
      BY <2>8 DEF Put, PutInv
    <3> QED
      BY <1>3, <2>8, <3>1 DEF Put, SaveCopy, Fresh
  <2> QED
    BY <1>4, <2>1, <2>2, <2>3, <2>4, <2>5, <2>6, <2>7, <2>8 DEF AssignmentStep
<1>5. ASSUME NEW t \in Threads, AssetStep(t) PROVE assignment'[i].returned \/ assignment'[i].put
  <2>1. CASE DeleteAsset(t)
    <3>1. assignment'[i] \in {Deleted, assignment[i]}
      BY <2>1 DEF DeleteAsset
    <3> QED
      BY <3>1, CustodyNulls
  <2>2. CASE UNCHANGED assignment
    BY <1>1, <2>2
  <2> QED
    BY <1>5, <2>1, <2>2
       DEF AssetStep, CreateAsset, LoadAsset, UpdateAsset, AssistantStatus, tables
<1>6. ASSUME NEW t \in Threads, MaintenanceStep(t) \/ Abort(t)
      PROVE  assignment'[i].returned \/ assignment'[i].put
  BY <1>1, <1>6 DEF MaintenanceStep, Schedule, LoadPlan, Reschedule, Cancel,
     CompleteLock, Complete, AssistantComplete, DeleteLog, Abort, tables
<1>7. CASE UNCHANGED vars
  BY <1>1, <1>7 DEF vars
<1> QED
  BY <1>4, <1>5, <1>6, <1>7 DEF Next

\* No interleaving of requests, approvals, rejections, deletions and the
\* assistant's calls takes a return back; a PUT does only if it writes the
\* return columns, provided that it does not race.
THEOREM ReturnStaysHolds == ASSUME PutsAlone PROVE Spec => ReturnStays
<1>1. CustodyInv /\ PutInv /\ [Next]_vars =>
        [\A i \in Assignments :
           (i \in LiveRows /\ assignment[i].returned /\ assignment'[i] \in Rows)
             => assignment'[i].returned \/ assignment'[i].put]_vars
  BY ReturnStep
<1>2. CustodyInv /\ AloneInv /\ PutInv /\ [Next]_vars => PutInv'
  BY PutStep
<1> QED
  BY <1>1, <1>2, PutInit, AloneInvariant, PTL DEF Spec, ReturnStays

-----------------------------------------------------------------------------
(* An asset has one holder.                                                *)

\* A row keeps its asset out as the return calls left it.
Holding(r) == ~r.returned /\ ~r.put

HeldByOthers(k, a) ==
  \E i \in LiveRows \ {k} : assignment[i].asset = a /\ Holding(assignment[i])

Exclusive ==
  \A i, j \in LiveRows :
    Holding(assignment[i]) /\ Holding(assignment[j])
      /\ assignment[i].asset = assignment[j].asset => i = j

\* What an assignment or a PUT has checked still holds when it is written.
Checked(j) ==
  /\ j.call = "assign" => ~Held(j.row.asset)
  /\ j.call = "put" => ~Holding(j.row) \/ ~HeldByOthers(j.key, j.row.asset)

HolderInv ==
  OneAtATime /\ WebOnly =>
    Exclusive /\ \A t \in Threads : Checked(job[t])

LEMMA HolderInit == Init => HolderInv
BY CustodyNulls DEF Init, HolderInv, Exclusive, LiveRows, Checked, Idle

\* One row is written that nobody else holds the asset of, or one is deleted.
LEMMA ExclusiveWrite ==
  ASSUME CustodyInv, Exclusive, NEW k \in Assignments, NEW r,
         assignment' = [assignment EXCEPT ![k] = r],
         r \in Rows => ~Holding(r) \/ ~HeldByOthers(k, r.asset)
  PROVE  Exclusive'
<1>1. \A i \in Assignments : assignment'[i] = IF i = k THEN r ELSE assignment[i]
  BY DEF CustodyInv, TypeOK
<1>2. \A i \in LiveRows' : /\ i \in Assignments
                           /\ i # k => i \in LiveRows /\ assignment'[i] = assignment[i]
                           /\ i = k => r \in Rows /\ assignment'[i] = r
  BY <1>1 DEF LiveRows
<1> SUFFICES ASSUME NEW i \in LiveRows', NEW j \in LiveRows',
                    Holding(assignment'[i]), Holding(assignment'[j]),
                    assignment'[i].asset = assignment'[j].asset, i # j
             PROVE  FALSE
  BY DEF Exclusive, Holding
<1>3. CASE i # k /\ j # k
  BY <1>2, <1>3 DEF Exclusive
<1>4. CASE i = k
  BY <1>2, <1>4 DEF HeldByOthers
<1>5. CASE j = k
  BY <1>2, <1>5 DEF HeldByOthers
<1> QED
  BY <1>3, <1>4, <1>5

LEMMA HolderStep ==
  ASSUME CustodyInv, AloneInv, HolderInv, [Next]_vars
  PROVE  HolderInv'
<1>1. CASE UNCHANGED vars
  BY <1>1 DEF vars, HolderInv, OneAtATime, WebOnly, Exclusive, LiveRows,
              Checked, Held, HeldByOthers, Holding
<1>2. ASSUME NEW t \in Threads,
             AssignmentStep(t) \/ AssetStep(t) \/ MaintenanceStep(t) \/ Abort(t),
             OneAtATime, WebOnly
      PROVE  Exclusive' /\ \A u \in Threads : Checked(job[u])'
  <2>0. Exclusive /\ Checked(job[t])
    BY <1>2 DEF HolderInv
  <2>1. \A u \in Threads : u # t => job'[u] = Idle
    BY <1>2, OthersIdle
  <2>2. \A u \in Threads : job'[u] = Idle => Checked(job[u])'
    BY DEF Checked, Idle
  \* A step that ends a call or changes no job leaves nothing to check.
  <2>3. ASSUME Done(t) PROVE \A u \in Threads : Checked(job[u])'
    BY <2>1, <2>2, <2>3 DEF Done, CustodyInv, JobOK
  <2>4. ASSUME NEW c, Free(t, c), UNCHANGED job
        PROVE  \A u \in Threads : Checked(job[u])'
    BY <2>1, <2>2, <2>4 DEF Free
  <2>5. ASSUME UNCHANGED assignment PROVE Exclusive'
    BY <2>0, <2>5 DEF Exclusive, LiveRows, Holding
  \* A step that takes up a call, with what that call has checked.
  <2>6. ASSUME NEW c, NEW k, NEW r, NEW s, Holds(t, c, k, r, s),
               UNCHANGED assignment,
               c = "assign" => ~Held(r.asset),
               c = "put" => ~Holding(r) \/ ~HeldByOthers(k, r.asset)
        PROVE  \A u \in Threads : Checked(job[u])'
    <3> DEFINE j == [call |-> c, key |-> k, row |-> r, status |-> s]
    <3>1. job'[t] = j
      BY <2>6 DEF Holds, CustodyInv, JobOK
    <3>2. j.call = c /\ j.key = k /\ j.row = r
      OBVIOUS
    <3> HIDE DEF j
    <3>3. Checked(job[t])'
      BY <2>6, <3>1, <3>2 DEF Checked, Held, HeldByOthers, LiveRows, Holding
    <3> QED
      BY <2>1, <2>2, <3>3
  <2>7. CASE AssignCheck(t)
    <3>1. PICK c \in CreatingCalls, a \in LiveAssets :
            /\ Free(t, c)
            /\ c = "assign" => IsAvailable(a)
            /\ Holds(t, c, NoRow, [asset |-> a, returned |-> FALSE,
                                   request |-> "none", put |-> FALSE], NoRow)
      BY <2>7 DEF AssignCheck
    <3>2. UNCHANGED assignment /\ c # "put"
      BY <2>7 DEF AssignCheck, tables, CreatingCalls
    <3>3. c = "assign" => ~Held(a)
      BY <3>1 DEF IsAvailable
    <3> QED
      BY <2>5, <2>6, <3>1, <3>2, <3>3
  <2>8. CASE AssignInsert(t)
    <3>1. PICK i \in Assignments :
            assignment' = [assignment EXCEPT ![i] = job[t].row]
      BY <2>8 DEF AssignInsert
    <3>2. job[t].call = "assign"
      BY <1>2, <2>8 DEF AssignInsert, CreatingCalls, WebOnly, AssistantCalls,
         CustodyInv, JobOK, JobFits
    <3>3. ~HeldByOthers(i, job[t].row.asset)
      BY <2>0, <3>2 DEF Checked, Held, HeldByOthers, Holding
    <3>4. Exclusive'
      BY <2>0, <3>1, <3>3, ExclusiveWrite
    <3> QED
      BY <2>3, <2>8, <3>4 DEF AssignInsert
  <2>9. CASE DeleteAssignment(t)
    <3>1. PICK i \in LiveRows : assignment' = [assignment EXCEPT ![i] = Deleted]
      BY <2>9 DEF DeleteAssignment
    <3>2. Exclusive'
      BY <2>0, <3>1, ExclusiveWrite, CustodyNulls DEF LiveRows
    <3> QED
      BY <2>4, <2>9, <3>2 DEF DeleteAssignment
  <2>10. CASE LoadForReturn(t)
    <3>1. PICK c \in ReturnCalls, i \in LiveRows :
            Holds(t, c, i, assignment[i], NoRow)
      BY <2>10 DEF LoadForReturn
    <3>2. UNCHANGED assignment /\ c # "assign" /\ c # "put"
      BY <2>10 DEF LoadForReturn, tables, ReturnCalls
    <3> QED
      BY <2>5, <2>6, <3>1, <3>2
  <2>11. CASE LoadForPut(t)
    <3>1. PICK i \in LiveRows, body \in PutBodies :
            /\ (body.asset # Keep /\ body.returned # TRUE) =>
                 IsAvailable(body.asset)
            /\ Holds(t, "put", i, Sent(body, assignment[i]), NoRow)
      BY <2>11 DEF LoadForPut
    <3> DEFINE r == Sent(body, assignment[i])
    <3>2. UNCHANGED assignment /\ Holds(t, "put", i, r, NoRow)
      BY <2>11, <3>1 DEF LoadForPut, tables
    \* A body that writes no return column keeps the holder; if it moves the
    \* assignment, the asset is free.
    <3>3. ~Holding(r) \/ ~HeldByOthers(i, r.asset)
      <4>1. CASE body.returned # Keep \/ body.request # Keep
        BY <4>1 DEF Sent, Holding
      <4>2. CASE body.returned = Keep /\ body.asset # Keep
        <5>1. r.asset = body.asset /\ ~Held(body.asset)
          BY <3>1, <4>2, CustodyNulls DEF Sent, IsAvailable
        <5> HIDE DEF r
        <5> QED
          BY <5>1 DEF Held, HeldByOthers, Holding
      <4>3. CASE body.returned = Keep /\ body.asset = Keep
        <5>1. /\ r.asset = assignment[i].asset
              /\ Holding(r) => Holding(assignment[i])
          BY <4>3 DEF Sent, Holding
        <5> HIDE DEF r
        <5> QED
          BY <2>0, <5>1 DEF Exclusive, HeldByOthers
      <4> QED
        BY <4>1, <4>2, <4>3
    <3> HIDE DEF r
    <3> QED
      BY <2>5, <2>6, <3>2, <3>3
  \* The updates of one row keep its asset, and its holder or nobody.
  <2>12. CASE RequestReturn(t) \/ RejectReturn(t) \/ AssistantReturn(t)
    <3> DEFINE k == job[t].key
               a == assignment[k]
    <3>0. k \in LiveRows /\ a \in Rows /\ Done(t)
      BY <2>12 DEF RequestReturn, RejectReturn, AssistantReturn, Update, LiveRows
    <3>1. PICK r \in {[a EXCEPT !.request = "pending"],
                      [a EXCEPT !.request = "rejected"],
                      [a EXCEPT !.returned = TRUE]} :
            assignment' = [assignment EXCEPT ![k] = r]
      BY <2>12 DEF RequestReturn, RejectReturn, AssistantReturn, Update
    <3>2. r.asset = a.asset /\ (Holding(r) => Holding(a))
      BY <3>0 DEF Rows, Holding
    <3>3. ~Holding(r) \/ ~HeldByOthers(k, r.asset)
      BY <2>0, <3>0, <3>2 DEF Exclusive, HeldByOthers
    <3>4. Exclusive'
      BY <2>0, <3>0, <3>1, <3>3, ExclusiveWrite DEF LiveRows
    <3> QED
      BY <2>3, <3>0, <3>4
  <2>13. CASE Return(t)
    <3>1. job[t].key \in Assignments /\ job[t].row \in Rows
      BY <2>13 DEF Return, CustodyInv, JobOK, JobFits, ReturnCalls
    <3>2. PICK r : /\ assignment' = [assignment EXCEPT ![job[t].key] = r]
                   /\ r.returned /\ Done(t)
      BY <2>13, <3>1, WrittenRows DEF Return, SaveCopy
    <3>3. Exclusive'
      BY <2>0, <3>1, <3>2, ExclusiveWrite DEF Holding
    <3> QED
      BY <2>3, <3>2, <3>3
  <2>14. CASE Put(t)
    <3>1. /\ job[t].key \in Assignments
          /\ assignment' = [assignment EXCEPT ![job[t].key] = job[t].row]
          /\ Done(t)
      BY <2>14 DEF Put, SaveCopy, CustodyInv, JobOK, JobFits
    <3>2. ~Holding(job[t].row) \/ ~HeldByOthers(job[t].key, job[t].row.asset)
      BY <2>0, <2>14 DEF Put, Checked
    <3>3. Exclusive'
      BY <2>0, <3>1, <3>2, ExclusiveWrite
    <3> QED
      BY <2>3, <3>1, <3>3
  <2>15. CASE DeleteAsset(t)
    <3>1. PICK a \in LiveAssets :
            assignment' = [i \in Assignments |->
                             IF i \in LiveRows /\ assignment[i].asset = a
                             THEN Deleted ELSE assignment[i]]
      BY <2>15 DEF DeleteAsset
    <3>2. \A i \in LiveRows' : i \in LiveRows /\ assignment'[i] = assignment[i]
      BY <3>1, CustodyNulls DEF LiveRows
    <3>3. Exclusive'
      BY <2>0, <3>2 DEF Exclusive
    <3> QED
      BY <2>4, <2>15, <3>3 DEF DeleteAsset
  <2>16. CASE CreateAsset(t) \/ AssistantStatus(t) \/ Schedule(t) \/ DeleteLog(t)
    BY <2>4, <2>5, <2>16 DEF CreateAsset, AssistantStatus, Schedule, DeleteLog
  <2>17. CASE UpdateAsset(t) \/ Reschedule(t) \/ Cancel(t) \/ Complete(t)
              \/ AssistantComplete(t) \/ Abort(t)
    BY <2>3, <2>5, <2>17
       DEF UpdateAsset, Reschedule, Cancel, Complete, AssistantComplete, Abort,
           tables
  <2>18. CASE LoadAsset(t) \/ LoadPlan(t) \/ CompleteLock(t)
    <3>1. PICK c, k, r, s : Holds(t, c, k, r, s) /\ c # "assign" /\ c # "put"
      BY <2>18 DEF LoadAsset, LoadPlan, CompleteLock, PlanCalls
    <3>2. UNCHANGED assignment
      BY <2>18 DEF LoadAsset, LoadPlan, CompleteLock, tables
    <3> QED
      BY <2>5, <2>6, <3>1, <3>2
  <2> QED
    BY <1>2, <2>7, <2>8, <2>9, <2>10, <2>11, <2>12, <2>13, <2>14, <2>15, <2>16,
       <2>17, <2>18 DEF AssignmentStep, AssetStep, MaintenanceStep
<1>3. ASSUME NEW t \in Threads,
             AssignmentStep(t) \/ AssetStep(t) \/ MaintenanceStep(t) \/ Abort(t)
      PROVE  HolderInv'
  <2>1. UNCHANGED clients
    BY <1>3, Serves
  <2> QED
    BY <1>2, <1>3, <2>1 DEF HolderInv, OneAtATime, WebOnly
<1> QED
  BY <1>1, <1>3 DEF Next

\* One call at a time and from the web only, an asset has at most one holder:
\* the check of is_available covers every way to assign and to move it, and
\* only rows whose return columns a PUT wrote escape it.
THEOREM OneHolderHolds == Spec => []OneHolder
<1>1. HolderInv => OneHolder
  BY DEF HolderInv, OneHolder, Exclusive, Holding, Regular
<1>2. CustodyInv /\ AloneInv /\ HolderInv /\ [Next]_vars => HolderInv'
  BY HolderStep
<1> QED
  BY <1>1, <1>2, HolderInit, AloneInvariant, PTL DEF Spec

-----------------------------------------------------------------------------
(* The rows tell what happened.                                            *)

\* A row on which only the return calls wrote tells what they did.
Agrees(r) == r.put \/ (r.returned <=> r.request = "approved")

RowsAgree == \A i \in LiveRows : Agrees(assignment[i])
PlanTells == plan \in Plans /\ plan.log # 0 => plan.status = "completed"

\* The copies agree too; an answer to a return request holds the row itself,
\* and a call that edits or cancels the plan has seen it without a log.
Faithful(j) ==
  /\ j.call \in CreatingCalls \cup {"put"} => Agrees(j.row)
  /\ j.call \in ReturnCalls => /\ j.key \in LiveRows /\ assignment[j.key] = j.row
                               /\ Admits(j.call, j.row)
  /\ j.call \in {"reschedule", "cancel"} =>
       j.row.log = 0 /\ (plan \in Plans => plan.log = 0)

EventsInv ==
  OneAtATime /\ WebOnly =>
    RowsAgree /\ PlanTells /\ \A t \in Threads : Faithful(job[t])

LEMMA EventsInit == Init => EventsInv
BY CustodyNulls
   DEF Init, EventsInv, RowsAgree, PlanTells, LiveRows, Faithful, Idle,
       CreatingCalls, ReturnCalls

LEMMA AgreeingRows ==
  ASSUME NEW r \in Rows
  PROVE  /\ \A q \in RequestStatuses :
              q # "approved" /\ (r.put \/ ~r.returned)
                => Agrees([r EXCEPT !.request = q])
         /\ Agrees([r EXCEPT !.returned = TRUE, !.request = "approved"])
BY DEF Rows, Agrees, RequestStatuses

LEMMA AgreeingWrite ==
  ASSUME CustodyInv, RowsAgree, NEW k \in Assignments, NEW r,
         assignment' = [assignment EXCEPT ![k] = r],
         r \in Rows => Agrees(r)
  PROVE  RowsAgree'
BY DEF CustodyInv, TypeOK, RowsAgree, LiveRows, Agrees

LEMMA EventsStep ==
  ASSUME CustodyInv, AloneInv, EventsInv, [Next]_vars
  PROVE  EventsInv'
<1>1. CASE UNCHANGED vars
  BY <1>1 DEF vars, EventsInv, OneAtATime, WebOnly, RowsAgree, PlanTells,
              LiveRows, Faithful
<1>2. ASSUME NEW t \in Threads,
             AssignmentStep(t) \/ AssetStep(t) \/ MaintenanceStep(t) \/ Abort(t),
             OneAtATime, WebOnly
      PROVE  RowsAgree' /\ PlanTells' /\ \A u \in Threads : Faithful(job[u])'
  <2>0. RowsAgree /\ PlanTells /\ Faithful(job[t])
    BY <1>2 DEF EventsInv
  <2>1. \A u \in Threads : u # t => job'[u] = Idle
    BY <1>2, OthersIdle
  <2>2. \A u \in Threads : job'[u] = Idle => Faithful(job[u])'
    BY DEF Faithful, Idle, CreatingCalls, ReturnCalls
  <2>3. ASSUME Done(t) PROVE \A u \in Threads : Faithful(job[u])'
    BY <2>1, <2>2, <2>3 DEF Done, CustodyInv, JobOK
  <2>4. ASSUME NEW c, Free(t, c), UNCHANGED job
        PROVE  \A u \in Threads : Faithful(job[u])'
    BY <2>1, <2>2, <2>4 DEF Free
  <2>5. /\ UNCHANGED assignment => RowsAgree'
        /\ UNCHANGED plan => PlanTells'
    BY <2>0 DEF RowsAgree, LiveRows, PlanTells
  <2>6. ASSUME NEW c, NEW k, NEW r, NEW s, Holds(t, c, k, r, s),
               UNCHANGED <<assignment, plan>>,
               c \in CreatingCalls \cup {"put"} => Agrees(r),
               c \in ReturnCalls => /\ k \in LiveRows /\ assignment[k] = r
                                    /\ Admits(c, r),
               c \in {"reschedule", "cancel"} =>
                 r.log = 0 /\ (plan \in Plans => plan.log = 0)
        PROVE  \A u \in Threads : Faithful(job[u])'
    <3> DEFINE j == [call |-> c, key |-> k, row |-> r, status |-> s]
    <3>1. job'[t] = j
      BY <2>6 DEF Holds, CustodyInv, JobOK
    <3>2. j.call = c /\ j.key = k /\ j.row = r
      OBVIOUS
    <3> HIDE DEF j
    <3>3. Faithful(job[t])'
      BY <2>6, <3>1, <3>2 DEF Faithful, LiveRows
    <3> QED
      BY <2>1, <2>2, <3>3
  <2>7. CASE AssignCheck(t)
    <3>1. PICK c \in CreatingCalls, a \in LiveAssets :
            Holds(t, c, NoRow, [asset |-> a, returned |-> FALSE,
                                request |-> "none", put |-> FALSE], NoRow)
      BY <2>7 DEF AssignCheck
    <3>2. /\ UNCHANGED <<assignment, plan>>
          /\ c \notin ReturnCalls /\ c \notin {"reschedule", "cancel"}
      BY <2>7 DEF AssignCheck, tables, CreatingCalls, ReturnCalls
    <3>3. Agrees([asset |-> a, returned |-> FALSE, request |-> "none",
                  put |-> FALSE])
      BY DEF Agrees
    <3> QED
      BY <2>5, <2>6, <3>1, <3>2, <3>3
  <2>8. CASE AssignInsert(t)
    <3>1. PICK i \in Assignments :
            assignment' = [assignment EXCEPT ![i] = job[t].row]
      BY <2>8 DEF AssignInsert
    <3>2. Agrees(job[t].row)
      BY <2>0, <2>8 DEF AssignInsert, Faithful
    <3>3. RowsAgree'
      BY <2>0, <3>1, <3>2, AgreeingWrite
    <3> QED
      BY <2>3, <2>5, <2>8, <3>3 DEF AssignInsert
  <2>9. CASE DeleteAssignment(t)
    <3>1. PICK i \in LiveRows : assignment' = [assignment EXCEPT ![i] = Deleted]
      BY <2>9 DEF DeleteAssignment
    <3>2. RowsAgree'
      BY <2>0, <3>1, AgreeingWrite, CustodyNulls DEF LiveRows
    <3> QED
      BY <2>4, <2>5, <2>9, <3>2 DEF DeleteAssignment
  <2>10. CASE LoadForReturn(t)
    <3>1. PICK c \in ReturnCalls, i \in LiveRows :
            Admits(c, assignment[i]) /\ Holds(t, c, i, assignment[i], NoRow)
      BY <2>10 DEF LoadForReturn
    <3>2. /\ UNCHANGED <<assignment, plan>>
          /\ c \notin CreatingCalls \cup {"put", "reschedule", "cancel"}
      BY <2>10 DEF LoadForReturn, tables, ReturnCalls, CreatingCalls
    <3> QED
      BY <2>5, <2>6, <3>1, <3>2
  <2>11. CASE LoadForPut(t)
    <3>1. PICK i \in LiveRows, body \in PutBodies :
            Holds(t, "put", i, Sent(body, assignment[i]), NoRow)
      BY <2>11 DEF LoadForPut
    <3>2. Agrees(assignment[i])
      BY <2>0 DEF RowsAgree
    <3>3. Agrees(Sent(body, assignment[i]))
      BY <3>2 DEF Agrees, Sent
    <3>4. UNCHANGED <<assignment, plan>> /\ "put" \notin ReturnCalls
      BY <2>11 DEF LoadForPut, tables, ReturnCalls
    <3> QED
      BY <2>5, <2>6, <3>1, <3>3, <3>4
  \* A request is made, or rejected, for a row that is not returned (or that
  \* a PUT wrote): the row is still the one that was checked.
  <2>12. CASE RequestReturn(t) \/ RejectReturn(t)
    <3> DEFINE k == job[t].key
               a == assignment[k]
    <3>1. /\ k \in LiveRows /\ a \in Rows /\ Done(t) /\ UNCHANGED plan
          /\ job[t].call \in ReturnCalls
      BY <2>12 DEF RequestReturn, RejectReturn, Update, LiveRows, ReturnCalls
    <3>2. Agrees(a) /\ Admits(job[t].call, a)
      BY <2>0, <3>1 DEF RowsAgree, Faithful
    <3>3. a.put \/ ~a.returned
      BY <2>12, <3>2 DEF RequestReturn, RejectReturn, Admits, Agrees
    <3>4. PICK q \in {"pending", "rejected"} :
            assignment' = [assignment EXCEPT ![k] = [a EXCEPT !.request = q]]
      BY <2>12 DEF RequestReturn, RejectReturn, Update
    <3>5. Agrees([a EXCEPT !.request = q])
      BY <3>1, <3>3, AgreeingRows DEF RequestStatuses
    <3>6. RowsAgree'
      BY <2>0, <3>1, <3>4, <3>5, AgreeingWrite DEF LiveRows
    <3> QED
      BY <2>3, <2>5, <3>1, <3>6
  <2>13. CASE Return(t)
    <3>1. job[t].key \in Assignments /\ job[t].row \in Rows
      BY <2>13 DEF Return, CustodyInv, JobOK, JobFits, ReturnCalls
    <3>2. PICK r : /\ assignment' = [assignment EXCEPT ![job[t].key] = r]
                   /\ Agrees(r)
      BY <2>13, <3>1, AgreeingRows DEF Return, SaveCopy
    <3>3. RowsAgree'
      BY <2>0, <3>1, <3>2, AgreeingWrite
    <3> QED
      BY <2>3, <2>5, <2>13, <3>3 DEF Return, SaveCopy
  <2>14. CASE Put(t)
    <3>1. /\ job[t].key \in Assignments
          /\ assignment' = [assignment EXCEPT ![job[t].key] = job[t].row]
          /\ Done(t) /\ UNCHANGED plan
      BY <2>14 DEF Put, SaveCopy, CustodyInv, JobOK, JobFits
    <3>2. Agrees(job[t].row)
      BY <2>0, <2>14 DEF Put, Faithful
    <3>3. RowsAgree'
      BY <2>0, <3>1, <3>2, AgreeingWrite
    <3> QED
      BY <2>3, <2>5, <3>1, <3>3
  <2>15. ASSUME job[t].call \in AssistantCalls PROVE FALSE
    <3>1. "none" \notin AssistantCalls
      BY DEF AssistantCalls
    <3> QED
      BY <1>2, <2>15, <3>1 DEF WebOnly, CustodyInv, JobOK, JobFits
  <2>16. CASE AssistantReturn(t) \/ AssistantComplete(t)
    BY <2>15, <2>16 DEF AssistantReturn, AssistantComplete, AssistantCalls
  <2>17. CASE DeleteAsset(t)
    <3>1. PICK a \in LiveAssets :
            /\ assignment' = [i \in Assignments |->
                                IF i \in LiveRows /\ assignment[i].asset = a
                                THEN Deleted ELSE assignment[i]]
            /\ plan' = IF plan \in Plans /\ plan.asset = a THEN Deleted ELSE plan
      BY <2>17 DEF DeleteAsset
    <3>2. \A i \in LiveRows' : i \in LiveRows /\ assignment'[i] = assignment[i]
      BY <3>1, CustodyNulls DEF LiveRows
    <3>3. RowsAgree' /\ PlanTells'
      BY <2>0, <3>1, <3>2, CustodyNulls DEF RowsAgree, PlanTells
    <3> QED
      BY <2>4, <2>17, <3>3 DEF DeleteAsset
  <2>18. CASE CreateAsset(t) \/ AssistantStatus(t)
    BY <2>4, <2>5, <2>18 DEF CreateAsset, AssistantStatus
  <2>19. CASE UpdateAsset(t) \/ Abort(t)
    BY <2>3, <2>5, <2>19 DEF UpdateAsset, Abort, tables
  <2>20. CASE LoadAsset(t) \/ CompleteLock(t)
    <3>1. PICK c, k, r, s : Holds(t, c, k, r, s) /\ c \in {"update_asset", "complete"}
      BY <2>20 DEF LoadAsset, CompleteLock
    <3>2. /\ UNCHANGED <<assignment, plan>>
          /\ c \notin CreatingCalls \cup ReturnCalls
               \cup {"put", "reschedule", "cancel"}
      BY <2>20, <3>1 DEF LoadAsset, CompleteLock, tables, CreatingCalls, ReturnCalls
    <3> QED
      BY <2>5, <2>6, <3>1, <3>2
  <2>21. CASE Schedule(t)
    <3>1. PlanTells'
      BY <2>21 DEF Schedule, PlanTells
    <3> QED
      BY <2>4, <2>5, <2>21, <3>1 DEF Schedule
  <2>22. CASE LoadPlan(t)
    <3>1. PICK c \in PlanCalls :
            /\ c \in {"reschedule", "cancel"} => plan.status = "scheduled"
            /\ Holds(t, c, NoRow, plan, asset[plan.asset])
      BY <2>22 DEF LoadPlan
    <3>2. /\ UNCHANGED <<assignment, plan>> /\ plan \in Plans
          /\ c \notin CreatingCalls \cup ReturnCalls \cup {"put"}
      BY <2>22 DEF LoadPlan, tables, CreatingCalls, ReturnCalls, PlanCalls
    <3>3. c \in {"reschedule", "cancel"} => plan.log = 0
      BY <2>0, <3>1, <3>2 DEF PlanTells
    <3> QED
      BY <2>5, <2>6, <3>1, <3>2, <3>3
  <2>23. CASE Reschedule(t)
    <3>1. job[t].row \in Plans /\ job[t].row.log = 0
      BY <2>0, <2>23 DEF Reschedule, CustodyInv, JobOK, JobFits, PlanCalls, Faithful
    <3>2. PICK a : plan' = [job[t].row EXCEPT !.asset = a]
      BY <2>23 DEF Reschedule
    <3>3. plan'.log = 0
      BY <3>1, <3>2 DEF Plans
    <3> QED
      BY <2>3, <2>5, <2>23, <3>3 DEF Reschedule, PlanTells
  <2>24. CASE Cancel(t)
    <3>1. job[t].call = "cancel"
      BY <2>15, <2>24 DEF Cancel, AssistantCalls
    <3>2. plan \in Plans /\ plan.log = 0 /\ plan' = [plan EXCEPT !.status = "cancelled"]
      BY <2>0, <2>24, <3>1 DEF Cancel, Faithful
    <3>3. plan'.log = 0
      BY <3>2 DEF Plans
    <3> QED
      BY <2>3, <2>5, <2>24, <3>3 DEF Cancel, PlanTells
  <2>25. CASE Complete(t)
    <3>1. plan \in Plans /\ \E s : Completed(s)
      BY <2>25 DEF Complete
    <3>2. plan'.status = "completed"
      BY <3>1 DEF Completed, Plans
    <3> QED
      BY <2>3, <2>5, <2>25, <3>2 DEF Complete, PlanTells
  <2>26. CASE DeleteLog(t)
    <3>1. plan \in Plans /\ plan' = [plan EXCEPT !.log = 0]
      BY <2>26 DEF DeleteLog
    <3>2. plan'.log = 0
      BY <3>1 DEF Plans
    <3> QED
      BY <2>4, <2>5, <2>26, <3>2 DEF DeleteLog, PlanTells
  <2> QED
    BY <1>2, <2>7, <2>8, <2>9, <2>10, <2>11, <2>12, <2>13, <2>14, <2>16, <2>17,
       <2>18, <2>19, <2>20, <2>21, <2>22, <2>23, <2>24, <2>25, <2>26
       DEF AssignmentStep, AssetStep, MaintenanceStep
<1>3. ASSUME NEW t \in Threads,
             AssignmentStep(t) \/ AssetStep(t) \/ MaintenanceStep(t) \/ Abort(t)
      PROVE  EventsInv'
  <2>1. UNCHANGED clients
    BY <1>3, Serves
  <2> QED
    BY <1>2, <1>3, <2>1 DEF EventsInv, OneAtATime, WebOnly
<1> QED
  BY <1>1, <1>3 DEF Next

\* One call at a time and from the web only, an assignment is returned exactly
\* when its return was approved, unless a PUT wrote its return columns, and
\* only a completed maintenance has a log.
THEOREM RecordsTellEventsHolds == Spec => []RecordsTellEvents
<1>1. EventsInv => RecordsTellEvents
  BY DEF EventsInv, RecordsTellEvents, ReturnTellsRequest, LogMeansCompleted,
         RowsAgree, PlanTells, Agrees, Regular
<1>2. CustodyInv /\ AloneInv /\ EventsInv /\ [Next]_vars => EventsInv'
  BY EventsStep
<1> QED
  BY <1>1, <1>2, EventsInit, AloneInvariant, PTL DEF Spec
=============================================================================
