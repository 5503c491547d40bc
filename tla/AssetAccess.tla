---------------------------- MODULE AssetAccess ----------------------------
(***************************************************************************)
(* Who sees which asset: lists, the export, single objects, the planned    *)
(* maintenance, the tools of the assistant, and the buttons that a client  *)
(* is told to offer.  Each computes what a user may see with queries of    *)
(* its own.                                                                *)
(*                                                                         *)
(* One user looks; how the rows change is in AssetCustody and merged into  *)
(* single steps here.  Every user has a profile.  Conditions, categories   *)
(* and further columns that lists filter by, QR codes and the layout of    *)
(* exports are left out.                                                   *)
(***************************************************************************)
EXTENDS Integers, FiniteSetsExt, WebThreads

CONSTANTS
  Assets, Employees,
  Viewer,            \* the employee who looks
  MaxAssignments     \* bound on the Assignment rows

RequestStatuses == {"none", "pending", "approved", "rejected"}
AssetStatuses == {"active", "maintenance"}
DueStates == {"overdue", "due_today", "upcoming"}
Keys == 1..MaxAssignments

AccessConstants ==
  /\ Viewer \in Employees /\ MaxAssignments \in Nat
  /\ Nil \notin Assets \cup Employees /\ Nil \notin Keys
  /\ Nil \notin BOOLEAN /\ Nil \notin DueStates
  \* Clients also say which rights the viewer may get, and which teams.
  /\ \A c \in Clients : c.area = "access" =>
       c.rights \subseteq SUBSET STRING /\ c.teams \subseteq SUBSET (Employees \ {Viewer})

VARIABLES
  status,      \* Asset.status
  assignment,  \* Assignment, in the order of assigned_at
  plan,        \* one ScheduledMaintenance, due on the second day
  rights,      \* feature_action of the viewer's permissions, or "staff"
  team,        \* direct_reports of the viewer
  today

rows == <<status, assignment, plan>>
vars == <<status, assignment, plan, rights, team, today, job, clients>>

-----------------------------------------------------------------------------
(* Rights.                                                                 *)

\* ASSET_PERMISSION_ALIASES
NamesOf(f) ==
  CASE f = "view_own_assets" -> {f, "view_own_assigned_assets"}
    [] f = "assign_assets" -> {f, "assign_assets_to_employees"}
    [] f = "process_asset_return" -> {f, "approve_asset_return"}
    [] OTHER -> {f}

IsStaff == "staff" \in rights
Has(f) == IsStaff \/ NamesOf(f) \cap rights # {}

Scope ==
  IF Has("view_all_assets") THEN "all"
  ELSE IF Has("view_team_assets") THEN "team"
  ELSE IF Has("view_own_assets") THEN "own" ELSE "none"

\* Whose things the scope shows.
Seen == CASE Scope = "all" -> Employees
          [] Scope = "team" -> team \cup {Viewer}
          [] Scope = "own" -> {Viewer}
          [] OTHER -> {}

SeesLogs == Has("view_asset_history")
            /\ (Scope \in {"all", "team"} \/ Has("log_asset_replacement"))

-----------------------------------------------------------------------------
(* Assignments and what follows from them.                                 *)

Live == {i \in Keys : assignment[i] # Nil}
Active(a) == {i \in Live : assignment[i].asset = a /\ ~assignment[i].returned}
Current(a) == IF Active(a) = {} THEN Nil ELSE Max(Active(a))

\* Mutation of IsAvailable: the asset's status is enough.
IsAvailableByStatus(a) == status[a] = "active"
IsAvailable(a) == status[a] = "active" /\ Active(a) = {}

\* Mutation of CanView: a team does not include its manager.
CanViewOthers(a) ==
  Scope = "all" \/ (Current(a) # Nil /\ assignment[Current(a)].employee \in Seen \ {Viewer})
\* can_view_asset: by its current assignment alone.
CanView(a) ==
  Scope = "all" \/ (Current(a) # Nil /\ assignment[Current(a)].employee \in Seen)
CanViewAssignment(i) == Scope = "all" \/ assignment[i].employee \in Seen

\* _get_assets_for_user: by any active assignment.
Listed ==
  IF Scope = "all" THEN Assets
  ELSE {a \in Assets : \E i \in Active(a) : assignment[i].employee \in Seen}

\* _apply_asset_filters: Nil filters nothing.
Filtered(assets, ofStatus, employee, available) ==
  {a \in assets :
     /\ ofStatus \in {Nil, status[a]}
     /\ employee # Nil => \E i \in Active(a) : assignment[i].employee = employee
     /\ available = TRUE => status[a] = "active" /\ Active(a) = {}
     /\ available = FALSE => Active(a) # {} \/ status[a] # "active"}

AssetList(ofStatus, available) == Filtered(Listed, ofStatus, Nil, available)
Export(ofStatus, employee, available) ==
  IF Has("export_inventory") THEN Filtered(Assets, ofStatus, employee, available) ELSE {}
AssistantAssets == {a \in Assets : CanView(a)}

\* AssignmentListView, with its filter "active"
AssignmentList(active) ==
  {i \in Live : assignment[i].employee \in Seen /\ active \in {Nil, ~assignment[i].returned}}
ReturnQueue(s) ==
  IF Has("process_asset_return") THEN {i \in Live : assignment[i].request = s} ELSE {}
CanViewReturn(i) ==
  IsStaff \/ assignment[i].employee = Viewer \/ Has("process_asset_return")

-----------------------------------------------------------------------------
(* What the viewer is offered, and what the calls accept of the viewer.    *)

\* Mutation of OffersReturn: offered to whoever sees the asset.
OffersReturnToAll(a) == Current(a) # Nil /\ Has("initiate_asset_return")
\* get_asset_object_capabilities
OffersReturn(a) ==
  Current(a) # Nil /\ assignment[Current(a)].employee = Viewer /\ Has("initiate_asset_return")
OffersAssign(a) == Has("assign_assets") /\ IsAvailable(a)

Requestable(i) == ~assignment[i].returned /\ assignment[i].request # "pending"
AcceptsRequest(i) ==
  Has("initiate_asset_return") /\ (IsStaff \/ assignment[i].employee = Viewer) /\ Requestable(i)
AcceptsAssign(a) == Has("assign_assets") /\ a \in Filtered(Assets, Nil, Nil, TRUE)

-----------------------------------------------------------------------------
(* Planned maintenance.                                                    *)

Holds(a) == \E i \in Active(a) : assignment[i].employee = Viewer

\* Mutation of PlanListed: also what the viewer has held.
PlanListedOnceHeld ==
  plan # Nil /\ (SeesLogs \/ (Has("view_own_assets") /\ plan.status = "scheduled"
                   /\ \E i \in Live : assignment[i].asset = plan.asset
                                      /\ assignment[i].employee = Viewer))
\* ScheduledMaintenanceListView._visible_queryset
PlanListed ==
  /\ plan # Nil
  /\ SeesLogs \/ (Has("view_own_assets") /\ plan.status = "scheduled" /\ Holds(plan.asset))
\* ScheduledMaintenanceDetailView._can_view_schedule
PlanOpens ==
  \/ SeesLogs
  \/ /\ Has("view_own_assets") /\ plan.status = "scheduled"
     /\ \E i \in Active(plan.asset) : assignment[i].employee = Viewer
AssistantSeesPlan == plan # Nil /\ SeesLogs

DueDay == 2
\* Mutation of DueState: a plan is overdue on its day.
DueStateStrict ==
  IF plan.status # "scheduled" THEN Nil
  ELSE IF today >= DueDay THEN "overdue" ELSE "upcoming"
\* ScheduledMaintenance.due_state
DueState ==
  IF plan.status # "scheduled" THEN Nil
  ELSE IF today > DueDay THEN "overdue"
  ELSE IF today = DueDay THEN "due_today" ELSE "upcoming"
\* The filter due_state of the list
PlanDue(s) ==
  /\ PlanListed /\ plan.status = "scheduled"
  /\ \/ s = "overdue" /\ DueDay < today
     \/ s = "due_today" /\ DueDay = today
     \/ s = "upcoming" /\ DueDay > today

-----------------------------------------------------------------------------
(* What others do to the rows.                                             *)

Others == UNCHANGED <<rights, team, today, job, clients>>
Does(c) == c \in clients.calls

\* Assignments by the view, of what is available, or by the assistant, of anything.
Assign ==
  /\ \E c \in {"assign", "assistant_assign"}, a \in Assets, e \in Employees :
       /\ Does(c) /\ (c = "assign" => IsAvailable(a))
       /\ \E i \in Keys :
            /\ i = Cardinality(Live) + 1
            /\ assignment' = [assignment EXCEPT ![i] =
                 [asset |-> a, employee |-> e, returned |-> FALSE, request |-> "none"]]
  /\ UNCHANGED <<status, plan>> /\ Others

\* The holder asks, a processor approves or rejects, and the assistant just returns.
Return ==
  /\ \E i \in Live :
       LET row == assignment[i]
           Becomes(r) == assignment' = [assignment EXCEPT ![i] = r]
       IN \/ Does("request") /\ Requestable(i) /\ Becomes([row EXCEPT !.request = "pending"])
          \/ /\ Does("approve") /\ ~row.returned /\ row.request = "pending"
             /\ Becomes([row EXCEPT !.returned = TRUE, !.request = "approved"])
          \/ /\ Does("reject") /\ row.request = "pending"
             /\ Becomes([row EXCEPT !.request = "rejected"])
          \/ Does("assistant_return") /\ ~row.returned /\ Becomes([row EXCEPT !.returned = TRUE])
  /\ UNCHANGED <<status, plan>> /\ Others

SetStatus ==
  /\ Does("status")
  /\ \E a \in Assets, s \in AssetStatuses : status' = [status EXCEPT ![a] = s]
  /\ UNCHANGED <<assignment, plan>> /\ Others

Plan ==
  /\ \/ Does("schedule") /\ plan = Nil
        /\ \E a \in Assets : plan' = [asset |-> a, status |-> "scheduled"]
     \/ Does("finish") /\ plan # Nil /\ plan.status = "scheduled"
        /\ \E s \in {"completed", "cancelled"} : plan' = [plan EXCEPT !.status = s]
  /\ UNCHANGED <<status, assignment>> /\ Others

\* RolePermissions, and the admin site
Grant ==
  /\ \/ rights' \in clients.rights /\ UNCHANGED team
     \/ team' \in clients.teams /\ UNCHANGED rights
  /\ UNCHANGED <<rows, today, job, clients>>

NextDay ==
  /\ Does("schedule") /\ today < 3
  /\ today' = today + 1
  /\ UNCHANGED <<rows, rights, team, job, clients>>

-----------------------------------------------------------------------------
Start ==
  /\ status = [a \in Assets |-> "active"] /\ assignment = [i \in Keys |-> Nil]
  /\ plan = Nil /\ rights = {} /\ team = {} /\ today = 1
Init == Begin /\ Start

Next == Assign \/ Return \/ SetStatus \/ Plan \/ Grant \/ NextDay

Spec == Init /\ [][Next]_vars
-----------------------------------------------------------------------------
(* Properties.                                                             *)

\* Assets have a status, assignments an employee and the state of a return.
TypeOK ==
  /\ status \in [Assets -> AssetStatuses]
  /\ \A i \in Live : assignment[i] \in
       [asset : Assets, employee : Employees, returned : BOOLEAN, request : RequestStatuses]
  /\ plan # Nil => plan.asset \in Assets /\ plan.status \in {"scheduled", "completed", "cancelled"}
  /\ team \subseteq Employees \ {Viewer} /\ today \in 1..3

\* What can be opened is listed, what is listed can be opened unless the assistant has
\* assigned it to a second employee, and assets and assignments that are listed agree;
\* the export has at least what its user sees.
ListedAreOpen ==
  LET opened == {a \in Assets : CanView(a)} IN
    /\ opened \subseteq Listed /\ AssistantAssets = opened
    /\ \A a \in Listed : Cardinality(Active(a)) <= 1 => a \in opened
    /\ Scope # "all" => Listed = {assignment[i].asset : i \in AssignmentList(TRUE)}
    /\ AssignmentList(Nil) = {i \in Live : CanViewAssignment(i)}
    /\ Has("export_inventory") =>
         \A b \in {TRUE, FALSE, Nil} : AssetList(Nil, b) \subseteq Export(Nil, Nil, b)

\* Every asset is either available or not, in lists as in the asset itself, and whoever
\* filters by an employee gets what the employee holds, none of it available.
AvailabilityAgrees ==
  /\ AssetList(Nil, TRUE) = {a \in Listed : IsAvailable(a)}
  /\ AssetList(Nil, FALSE) = Listed \ AssetList(Nil, TRUE)
  /\ \A e \in Employees : Export(Nil, e, TRUE) = {}

\* A button that is offered works, unless the request is pending already; a holder who
\* could ask for the return of the current assignment is offered to; and staff and
\* processors see what was said on each return they find in the queue.
OfferedIsAccepted ==
  /\ \A a \in Assets :
       /\ OffersAssign(a) <=> AcceptsAssign(a)
       /\ OffersReturn(a) =>
            AcceptsRequest(Current(a)) \/ assignment[Current(a)].request = "pending"
       /\ Current(a) # Nil /\ assignment[Current(a)].employee = Viewer
            /\ AcceptsRequest(Current(a)) => OffersReturn(a)
  /\ \A s \in RequestStatuses : \A i \in ReturnQueue(s) : CanViewReturn(i)

\* A plan is listed exactly if it opens, in one due state, the one it is shown with; the
\* assistant shows no other; and who is not allowed the history sees open plans only,
\* of assets that are listed.
PlansAgree ==
  /\ plan # Nil => (PlanListed <=> PlanOpens)
  /\ \A s \in DueStates : PlanDue(s) <=> (PlanListed /\ DueState = s)
  /\ AssistantSeesPlan => PlanListed
  /\ PlanListed /\ ~SeesLogs => plan.status = "scheduled" /\ plan.asset \in Listed
=============================================================================
