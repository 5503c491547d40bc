---------------------------- MODULE AssetCustody ----------------------------
(***************************************************************************)
(* Company assets: who holds them, the two-step return, and the planned    *)
(* maintenance of one of them.                                             *)
(*                                                                         *)
(* Nothing but the completion of a maintenance takes a lock.  A view loads *)
(* a row, checks that copy and later saves it: with update_fields only the *)
(* named columns, otherwise the whole copy.  The AI assistant reaches the  *)
(* same tables with fewer checks.                                          *)
(***************************************************************************)
EXTENDS Naturals, TLC

CONSTANTS
  Assets,       \* primary keys of Asset rows
  Assignments,  \* primary keys of Assignment rows; bound on those created
  Threads,      \* web threads
  StatusValues, \* asset statuses that clients write
  PutBodies,    \* bodies of PUT on an assignment; Keep for a field not sent
  MaxLogs,      \* bound on the ReplacementLogs of the maintenance
  Clients,      \* who may be calling: sets of threads and of calls
  NoRow,        \* primary key not used yet; no copy held
  Deleted,      \* primary key whose row was deleted
  Keep, NoThread

RequestStatuses == {"none", "pending", "approved", "rejected"}
PlanStatuses == {"scheduled", "completed", "cancelled"}

CreatingCalls == {"assign", "assistant_assign"}
ReturnCalls == {"request_return", "return", "reject_return",
                "assistant_return"}
PlanCalls == {"reschedule", "cancel", "assistant_cancel",
              "assistant_complete"}
AssistantCalls == {"assistant_assign", "assistant_return",
                   "assistant_status", "assistant_cancel",
                   "assistant_complete"}
Calls == CreatingCalls \cup ReturnCalls \cup PlanCalls \cup AssistantCalls
  \cup {"put", "delete_assignment", "create_asset", "update_asset",
        "delete_asset", "schedule", "complete", "delete_log"}

\* put is history: a PUT has written the return columns of the row.
Rows == [asset : Assets, returned : BOOLEAN, request : RequestStatuses,
         put : BOOLEAN]
Plans == [asset : Assets, status : PlanStatuses, log : 0..MaxLogs]

ASSUME CustodyConstants ==
  /\ "active" \in StatusValues
  /\ MaxLogs \in Nat
  /\ PutBodies \subseteq [asset : Assets \cup {Keep},
                          returned : BOOLEAN \cup {Keep},
                          request : RequestStatuses \cup {Keep}]
  /\ Clients \subseteq [threads : SUBSET Threads, calls : SUBSET Calls]

ASSUME CustodyNulls ==
  /\ NoRow # Deleted /\ NoThread \notin Threads
  /\ Keep \notin Assets /\ Keep \notin BOOLEAN /\ Keep \notin RequestStatuses
  /\ {NoRow, Deleted} \cap StatusValues = {}
  /\ {NoRow, Deleted} \cap Rows = {}
  /\ {NoRow, Deleted} \cap Plans = {}

VARIABLES
  asset,       \* Asset.status by primary key
  assignment,  \* the Assignment table
  plan,        \* one ScheduledMaintenance row; its log is 0 for NULL
  logs,        \* ReplacementLogs that were made for it
  lock,        \* the thread that holds the row locks of plan and its asset
  job,         \* thread -> the call it serves and the copies it holds
  clients      \* which clients there are; never changes

tables == <<asset, assignment, plan, logs>>
vars == <<asset, assignment, plan, logs, lock, job, clients>>

Idle == [call |-> "none", key |-> NoRow, row |-> NoRow, status |-> NoRow]

-----------------------------------------------------------------------------
LiveAssets == {a \in Assets : asset[a] \in StatusValues}
LiveRows == {i \in Assignments : assignment[i] \in Rows}
Held(a) == \E i \in LiveRows :
             assignment[i].asset = a /\ ~assignment[i].returned

\* Mutation of IsAvailable: only the status of the asset is looked at.
IsAvailableByStatus(a) == asset[a] = "active"

IsAvailable(a) == asset[a] = "active" /\ ~Held(a)

\* An UPDATE of a row waits for the lock on it, and so does the INSERT of a
\* row with a foreign key to it.
PlanFree == lock = NoThread
AssetFree(a) == lock # NoThread => plan.asset # a

Free(t, c) == job[t] = Idle /\ t \in clients.threads /\ c \in clients.calls
Holds(t, c, key, row, status) ==
  job' = [job EXCEPT ![t] = [call |-> c, key |-> key, row |-> row,
                             status |-> status]]
Done(t) == job' = [job EXCEPT ![t] = Idle]
Others == UNCHANGED <<lock, clients>>

-----------------------------------------------------------------------------
(* Assignments.                                                            *)

\* The serializer's check (is_available), which the assistant does not make.
AssignCheck(t) ==
  /\ \E c \in CreatingCalls, a \in LiveAssets :
       /\ Free(t, c)
       /\ c = "assign" => IsAvailable(a)
       /\ Holds(t, c, NoRow,
                [asset |-> a, returned |-> FALSE, request |-> "none",
                 put |-> FALSE], NoRow)
  /\ UNCHANGED tables /\ Others

AssignInsert(t) ==
  /\ job[t].call \in CreatingCalls
  /\ job[t].row.asset \in LiveAssets /\ AssetFree(job[t].row.asset)
  /\ \E i \in Assignments :
       /\ assignment[i] = NoRow
       /\ assignment' = [assignment EXCEPT ![i] = job[t].row]
  /\ Done(t)
  /\ UNCHANGED <<asset, plan, logs>> /\ Others

\* Mutation of Admits: a new return request is checked for another one only.
AdmitsAnyHolder(c, r) ==
  CASE c = "request_return"   -> r.request # "pending"
    [] c = "return"           -> ~r.returned /\ r.request = "pending"
    [] c = "reject_return"    -> r.request = "pending"
    [] c = "assistant_return" -> ~r.returned

Admits(c, r) ==
  CASE c = "request_return"   -> ~r.returned /\ r.request # "pending"
    [] c = "return"           -> ~r.returned /\ r.request = "pending"
    [] c = "reject_return"    -> r.request = "pending"
    [] c = "assistant_return" -> ~r.returned

LoadForReturn(t) ==
  /\ \E c \in ReturnCalls, i \in LiveRows :
       /\ Free(t, c)
       /\ Admits(c, assignment[i])
       /\ Holds(t, c, i, assignment[i], NoRow)
  /\ UNCHANGED tables /\ Others

\* The serializer's row: every column of the body, the return's included,
\* replaces the one stored.
Sent(body, r) ==
  [asset    |-> IF body.asset = Keep THEN r.asset ELSE body.asset,
   returned |-> IF body.returned = Keep THEN r.returned ELSE body.returned,
   request  |-> IF body.request = Keep THEN r.request ELSE body.request,
   put      |-> r.put \/ body.returned # Keep \/ body.request # Keep]

\* PUT: the asset is checked only when it is sent without a return date.
LoadForPut(t) ==
  /\ Free(t, "put")
  /\ \E i \in LiveRows, body \in PutBodies :
       /\ body.asset # Keep => body.asset \in LiveAssets
       /\ (body.asset # Keep /\ body.returned # TRUE) => IsAvailable(body.asset)
       /\ Holds(t, "put", i, Sent(body, assignment[i]), NoRow)
  /\ UNCHANGED tables /\ Others

\* save(update_fields): fails on a row that was deleted meanwhile.
Update(t, row) ==
  /\ job[t].key \in LiveRows
  /\ assignment' = [assignment EXCEPT ![job[t].key] = row]
  /\ Done(t)
  /\ UNCHANGED <<asset, plan, logs>> /\ Others

\* save(): the whole copy, inserted again if the row was deleted meanwhile.
SaveCopy(t, row) ==
  /\ row.asset \in LiveAssets
  /\ (job[t].key \notin LiveRows \/ assignment[job[t].key].asset # row.asset)
       => AssetFree(row.asset)   \* the foreign key is checked
  /\ assignment' = [assignment EXCEPT ![job[t].key] = row]
  /\ Done(t)
  /\ UNCHANGED <<asset, plan, logs>> /\ Others

\* Mutation of RequestReturn: a status that is none of the choices, which
\* save() does not check.
RequestReturnMisspelt(t) ==
  /\ job[t].call = "request_return"
  /\ Update(t, [assignment[job[t].key] EXCEPT !.request = "requested"])

\* Mutation of RequestReturn: save() without update_fields.
RequestReturnOfCopy(t) ==
  /\ job[t].call = "request_return"
  /\ SaveCopy(t, [job[t].row EXCEPT !.request = "pending"])

RequestReturn(t) ==
  /\ job[t].call = "request_return"
  /\ Update(t, [assignment[job[t].key] EXCEPT !.request = "pending"])

Return(t) ==
  /\ job[t].call = "return"
  /\ SaveCopy(t, [job[t].row EXCEPT !.returned = TRUE, !.request = "approved"])

RejectReturn(t) ==
  /\ job[t].call = "reject_return"
  /\ Update(t, [assignment[job[t].key] EXCEPT !.request = "rejected"])

Put(t) == job[t].call = "put" /\ SaveCopy(t, job[t].row)

AssistantReturn(t) ==
  /\ job[t].call = "assistant_return"
  /\ Update(t, [assignment[job[t].key] EXCEPT !.returned = TRUE])

DeleteAssignment(t) ==
  /\ Free(t, "delete_assignment")
  /\ \E i \in LiveRows : assignment' = [assignment EXCEPT ![i] = Deleted]
  /\ UNCHANGED <<asset, plan, logs, job>> /\ Others

-----------------------------------------------------------------------------
(* Assets.                                                                 *)

CreateAsset(t) ==
  /\ Free(t, "create_asset")
  /\ \E a \in Assets, s \in StatusValues :
       asset[a] = NoRow /\ asset' = [asset EXCEPT ![a] = s]
  /\ UNCHANGED <<assignment, plan, logs, job>> /\ Others

LoadAsset(t) ==
  /\ Free(t, "update_asset")
  /\ \E a \in LiveAssets : Holds(t, "update_asset", a, NoRow, asset[a])
  /\ UNCHANGED tables /\ Others

\* PUT and PATCH of an asset save the whole copy.
UpdateAsset(t) ==
  /\ job[t].call = "update_asset"
  /\ AssetFree(job[t].key)
  /\ \E s \in StatusValues : asset' = [asset EXCEPT ![job[t].key] = s]
  /\ Done(t)
  /\ UNCHANGED <<assignment, plan, logs>> /\ Others

AssistantStatus(t) ==
  /\ Free(t, "assistant_status")
  /\ \E a \in LiveAssets, s \in StatusValues :
       AssetFree(a) /\ asset' = [asset EXCEPT ![a] = s]
  /\ UNCHANGED <<assignment, plan, logs, job>> /\ Others

\* The foreign keys to an asset are CASCADE.
DeleteAsset(t) ==
  /\ Free(t, "delete_asset")
  /\ \E a \in LiveAssets :
       /\ AssetFree(a)
       /\ asset' = [asset EXCEPT ![a] = Deleted]
       /\ assignment' = [i \in Assignments |->
                           IF i \in LiveRows /\ assignment[i].asset = a
                           THEN Deleted ELSE assignment[i]]
       /\ plan' = IF plan \in Plans /\ plan.asset = a THEN Deleted ELSE plan
  /\ UNCHANGED <<logs, job>> /\ Others

-----------------------------------------------------------------------------
(* Planned maintenance.                                                    *)

Schedule(t) ==
  /\ Free(t, "schedule")
  /\ plan = NoRow
  /\ \E a \in LiveAssets :
       plan' = [asset |-> a, status |-> "scheduled", log |-> 0]
  /\ UNCHANGED <<asset, assignment, logs, job>> /\ Others

\* Mutation of LoadPlan: cancel_scheduled_maintenance of the assistant serves
\* the view as well.
LoadPlanUnchecked(t) ==
  /\ plan \in Plans
  /\ \E c \in PlanCalls : Free(t, c) /\ Holds(t, c, NoRow, plan, asset[plan.asset])
  /\ UNCHANGED tables /\ Others

\* The calls that read the plan without a lock; the assistant does not look
\* at its status.
LoadPlan(t) ==
  /\ plan \in Plans
  /\ \E c \in PlanCalls :
       /\ Free(t, c)
       /\ c \in {"reschedule", "cancel"} => plan.status = "scheduled"
       /\ Holds(t, c, NoRow, plan, asset[plan.asset])
  /\ UNCHANGED tables /\ Others

\* PATCH: the serializer saves the whole copy, its status and log included.
Reschedule(t) ==
  /\ job[t].call = "reschedule"
  /\ PlanFree
  /\ \E a \in LiveAssets : plan' = [job[t].row EXCEPT !.asset = a]
  /\ Done(t)
  /\ UNCHANGED <<asset, assignment, logs>> /\ Others

Cancel(t) ==
  /\ job[t].call \in {"cancel", "assistant_cancel"}
  /\ plan \in Plans /\ PlanFree
  /\ plan' = [plan EXCEPT !.status = "cancelled"]
  /\ Done(t)
  /\ UNCHANGED <<asset, assignment, logs>> /\ Others

\* A ReplacementLog is made, the asset gets its new status, and the plan is
\* completed and linked to the log.
Completed(newStatus) ==
  /\ logs < MaxLogs
  /\ logs' = logs + 1
  /\ asset' = [asset EXCEPT ![plan.asset] = newStatus]
  /\ plan' = [plan EXCEPT !.status = "completed", !.log = logs + 1]

\* Mutation of CompleteLock: get() instead of select_for_update().
CompleteWithoutLock(t) ==
  /\ Free(t, "complete")
  /\ plan \in Plans /\ plan.status = "scheduled"
  /\ lock' = NoThread
  /\ Holds(t, "complete", NoRow, plan, NoRow)
  /\ UNCHANGED <<tables, clients>>

CompleteLock(t) ==
  /\ Free(t, "complete")
  /\ PlanFree
  /\ plan \in Plans /\ plan.status = "scheduled"
  /\ lock' = t
  /\ Holds(t, "complete", NoRow, plan, NoRow)
  /\ UNCHANGED <<tables, clients>>

Complete(t) ==
  /\ job[t].call = "complete"
  /\ plan \in Plans
  /\ \E s \in StatusValues \cup {asset[plan.asset]} : Completed(s)
  /\ lock' = NoThread
  /\ Done(t)
  /\ UNCHANGED <<assignment, clients>>

\* No lock and no look at the status; the asset is saved as a whole copy.
AssistantComplete(t) ==
  /\ job[t].call = "assistant_complete"
  /\ plan \in Plans /\ PlanFree
  /\ \E s \in StatusValues \cup {job[t].status} : Completed(s)
  /\ Done(t)
  /\ UNCHANGED assignment /\ Others

\* The foreign key completed_log is SET NULL.
DeleteLog(t) ==
  /\ Free(t, "delete_log")
  /\ plan \in Plans /\ plan.log # 0 /\ PlanFree
  /\ plan' = [plan EXCEPT !.log = 0]
  /\ UNCHANGED <<asset, assignment, logs, job>> /\ Others

\* A save that fails, an exception, or a dead worker.
Abort(t) ==
  /\ job[t] # Idle
  /\ lock' = IF lock = t THEN NoThread ELSE lock
  /\ Done(t)
  /\ UNCHANGED <<tables, clients>>

-----------------------------------------------------------------------------
Init ==
  /\ asset = [a \in Assets |-> NoRow]
  /\ assignment = [i \in Assignments |-> NoRow]
  /\ plan = NoRow
  /\ logs = 0
  /\ lock = NoThread
  /\ job = [t \in Threads |-> Idle]
  /\ clients \in Clients

AssignmentStep(t) ==
  \/ AssignCheck(t) \/ AssignInsert(t) \/ DeleteAssignment(t)
  \/ LoadForReturn(t) \/ RequestReturn(t) \/ Return(t) \/ RejectReturn(t)
  \/ AssistantReturn(t) \/ LoadForPut(t) \/ Put(t)

AssetStep(t) ==
  \/ CreateAsset(t) \/ LoadAsset(t) \/ UpdateAsset(t) \/ AssistantStatus(t)
  \/ DeleteAsset(t)

MaintenanceStep(t) ==
  \/ Schedule(t) \/ LoadPlan(t) \/ Reschedule(t) \/ Cancel(t)
  \/ CompleteLock(t) \/ Complete(t) \/ AssistantComplete(t) \/ DeleteLog(t)

Next == \E t \in Threads :
          AssignmentStep(t) \/ AssetStep(t) \/ MaintenanceStep(t) \/ Abort(t)

Spec == Init /\ [][Next]_vars

-----------------------------------------------------------------------------
(* Properties.                                                             *)

\* Assets, assignments, the plan and its logs are in their columns' range, whatever
\* copies the views and the assistant's tools save.
TypeOK ==
  /\ asset \in [Assets -> StatusValues \cup {NoRow, Deleted}]
  /\ assignment \in [Assignments -> Rows \cup {NoRow, Deleted}]
  /\ plan \in Plans \cup {NoRow, Deleted}
  /\ logs \in 0..MaxLogs
  /\ lock \in Threads \cup {NoThread}
  /\ clients \in Clients

OneAtATime == \A t, u \in clients.threads : t = u
WebOnly == clients.calls \cap AssistantCalls = {}

\* The assignments whose return columns only the return calls have written.
\* PUT accepts those columns too and checks nothing about them: it gives an
\* asset back, or takes it out again, without a request.
Regular == {i \in LiveRows : ~assignment[i].put}

\* "Asset is not available for assignment": while calls come one at a time
\* and from the web only, an asset has at most one holder, however often its
\* assignments are moved, returned and deleted, and whatever PUT made of
\* others of its assignments.
OneHolder ==
  OneAtATime /\ WebOnly =>
    \A i, j \in Regular :
      ~assignment[i].returned /\ ~assignment[j].returned
        /\ assignment[i].asset = assignment[j].asset => i = j

\* The two-step return: under the same clients an asset is back if and only
\* if its return request was approved, unless a PUT wrote either.
ReturnTellsRequest ==
  OneAtATime /\ WebOnly =>
    \A i \in Regular :
      assignment[i].returned <=> assignment[i].request = "approved"

\* A returned assignment stays returned when requests, approvals and
\* rejections of the return race each other on copies of the row: only a PUT
\* that writes the return date takes a return back.
ReturnStays ==
  [][\A i \in Assignments :
       (i \in LiveRows /\ assignment[i].returned /\ assignment'[i] \in Rows)
       => assignment'[i].returned \/ assignment'[i].put]_vars

\* "Completed or cancelled scheduled maintenance cannot be edited": one at a
\* time and from the web only, what carries a log is completed, for good.
LogMeansCompleted ==
  OneAtATime /\ WebOnly =>
    (plan \in Plans /\ plan.log # 0 => plan.status = "completed")

\* What the status of a row says has happened, and nothing else: the two above.
RecordsTellEvents == ReturnTellsRequest /\ LogMeansCompleted

\* Completions and cancellations of one maintenance race: it is completed, and
\* logged as a replacement, at most once.
OneLogPerMaintenance == WebOnly => logs <= 1
-----------------------------------------------------------------------------
(* The instance that TLC checks.                                           *)

\* A client of the web, a client of the web and the assistant, or clients of
\* the web that race on returns and on the completion of a maintenance.
MCClients ==
  [threads : {{t} : t \in Threads}, calls : {Calls \ AssistantCalls, Calls}]
  \cup [threads : {Threads},
        calls : {{"assign", "delete_assignment", "request_return", "return",
                  "reject_return", "create_asset", "schedule", "complete",
                  "cancel", "delete_log"}}]

\* PUT is partial: it sends any of the columns.
AnyBody == [asset : Assets \cup {Keep}, returned : BOOLEAN \cup {Keep},
            request : RequestStatuses \cup {Keep}]

\* TLC need not tell assets, assignments and threads apart.
CustodySymmetry ==
  Permutations(Assets) \cup Permutations(Assignments) \cup Permutations(Threads)
=============================================================================
