-------------------------- MODULE TrainingBudgets --------------------------
(***************************************************************************)
(* The training entries of one employee and the budgets of the years they  *)
(* are spent in.  Every change of an entry recomputes the budget of its    *)
(* year: the row is locked, the costs are added up, and an alert is sent   *)
(* when 80% are crossed.                                                   *)
(***************************************************************************)
EXTENDS Naturals, Sequences, WebThreads

CONSTANTS
  Entries, \* primary keys; bound on the entries created
  Years

\* late: completed in another year than it took place in.
EntryCalls == {"create", "late", "edit", "delete"}
BudgetCalls == {"allocate", "change", "drop", "me"}
Calls == EntryCalls \cup BudgetCalls \cup {"ai_create"}
Faults == {"crash"}

Costs == {1, 2}
Allocations == {0, 2, 4}
Rows == [training_date : Years, completed_at : Years, cost : Costs]
Most == 2 * Cardinality(Entries)
Budgets == [allocated_budget : Allocations, used_budget : 0..Most, threshold_notified_at : BOOLEAN]

TrainingConstants ==
  /\ IsFiniteSet(Entries) /\ Entries # {} /\ Years # {}
  /\ Nil \notin Rows \cup Budgets \cup Entries
  /\ \A c \in Clients : c.area = "training" => c.allocations \subseteq Allocations

VARIABLES
  entry,  \* TrainingEntry; without completed_at, its date stands for it
  budget, \* TrainingBudget, one a year
  alerts  \* year -> alerts since the use was last below the threshold; up to 2

vars == <<entry, budget, alerts, job, clients>>

-----------------------------------------------------------------------------
Live == {e \in Entries : entry[e] # Nil}
Unused(e) == entry[e] = Nil /\ \A t \in Threads : job[t].key # e
Budgeted == {year \in Years : budget[year] # Nil}

\* What the entries of a year cost, unit by unit.
Units(year) ==
  {u \in Entries \X Costs :
     u[1] \in Live /\ entry[u[1]].completed_at = year /\ u[2] <= entry[u[1]].cost}
SumEntryCosts(year) == Cardinality(Units(year))

\* An allocation of nothing is used up by any cost.
Above(b) == 10 * b.used_budget >= 8 * b.allocated_budget /\ b.used_budget > 0

\* Between the sum and the commit, the row is locked if there was one.
Locked(year) == \E t \in Threads : At(t, "save") /\ job[t].key = year /\ job[t].row.budget # Nil

\* The years a thread has yet to recompute; the first one is next.
Recalculate(t, years) == Take(t, "recalculate", Nil, [years |-> years])
Later(t, years) == IF Len(years) = 1 THEN Done(t) ELSE Recalculate(t, Tail(years))

-----------------------------------------------------------------------------
(* Entries.                                                                *)

\* Both of the calls the view makes, one after the other.
Create(t) ==
  /\ \E e \in Entries, r \in Rows :
       /\ \/ Free(t, "create") /\ r.training_date = r.completed_at
          \/ Free(t, "late") /\ r.training_date # r.completed_at
       /\ Unused(e)
       /\ entry' = [entry EXCEPT ![e] = r]
       /\ Recalculate(t, <<r.training_date, r.training_date>>)
  /\ UNCHANGED <<budget, alerts, clients>>

\* The assistant's tool recomputes nothing.
AssistantCreate(t) ==
  /\ Free(t, "ai_create")
  /\ \E e \in Entries, r \in Rows :
       Unused(e) /\ r.training_date = r.completed_at /\ entry' = [entry EXCEPT ![e] = r]
  /\ UNCHANGED <<budget, alerts, job, clients>>

LoadEntry(t) ==
  /\ \E c \in {"edit", "delete"}, e \in Live : Free(t, c) /\ Take(t, c, e, entry[e])
  /\ UNCHANGED <<entry, budget, alerts, clients>>

\* The new year, and the one the copy was in.
Touched(old, new) == IF old = new THEN <<new>> ELSE <<new, old>>

\* The whole row, which a deletion does not stop.
Edit(t) ==
  /\ At(t, "edit")
  /\ \E r \in Rows :
       /\ r.training_date = r.completed_at \/ "late" \in clients.calls
       /\ entry' = [entry EXCEPT ![job[t].key] = r]
       /\ Recalculate(t, Touched(job[t].row.training_date, r.training_date))
  /\ UNCHANGED <<budget, alerts, clients>>

Delete(t) ==
  /\ At(t, "delete")
  /\ entry' = [entry EXCEPT ![job[t].key] = Nil]
  /\ LET year == job[t].row.training_date IN Recalculate(t, <<year, year>>)
  /\ UNCHANGED <<budget, alerts, clients>>

-----------------------------------------------------------------------------
(* recalculate_budget                                                      *)

\* Mutation of WaitsForRow: the row is read without select_for_update.
WaitsForRowNot(year) == TRUE

\* select_for_update, and any write to the row
WaitsForRow(year) == ~Locked(year)

\* Nothing to record where there is neither a budget nor a cost.
Sum(t) ==
  /\ At(t, "recalculate")
  /\ LET years == job[t].row.years
         year == Head(years)
     IN /\ WaitsForRow(year)
        /\ IF budget[year] = Nil /\ SumEntryCosts(year) = 0
           THEN Later(t, years)
           ELSE Take(t, "save", year, [years |-> years, budget |-> budget[year], used |-> SumEntryCosts(year)])
  /\ UNCHANGED <<entry, budget, alerts, clients>>

\* A row created meanwhile makes the INSERT fail, and the rest of the call with it.
SaveUsed(t) ==
  /\ At(t, "save")
  /\ LET year == job[t].key
         j == job[t].row
         b == IF j.budget = Nil
              THEN [allocated_budget |-> 0, used_budget |-> j.used, threshold_notified_at |-> FALSE]
              ELSE [j.budget EXCEPT !.used_budget = j.used]
     IN IF j.budget = Nil /\ budget[year] # Nil
        THEN Done(t) /\ UNCHANGED <<budget, alerts>>
        ELSE /\ budget' = [budget EXCEPT ![year] = IF @ = Nil THEN b ELSE [@ EXCEPT !.used_budget = j.used]]
             /\ alerts' = IF Above(b) THEN alerts ELSE [alerts EXCEPT ![year] = 0]
             /\ Take(t, "notify", year, [years |-> j.years, budget |-> b])
  /\ UNCHANGED <<entry, clients>>

\* Mutation of Marked: the mark stays.
MarkedOnce(b) == b.threshold_notified_at \/ Above(b)

\* A budget with neither money nor use keeps its mark as it is.
Marked(b) ==
  IF b.allocated_budget = 0 /\ b.used_budget = 0 THEN b.threshold_notified_at ELSE Above(b)

\* _maybe_notify_threshold, outside the transaction, on the row it has read
MaybeNotifyThreshold(t) ==
  /\ At(t, "notify")
  /\ LET year == job[t].key
         b == job[t].row.budget
     IN /\ WaitsForRow(year)
        /\ alerts' = IF Above(b) /\ ~b.threshold_notified_at
                     THEN [alerts EXCEPT ![year] = IF @ < 2 THEN @ + 1 ELSE @]
                     ELSE alerts
        /\ IF budget[year] = Nil /\ Marked(b) # b.threshold_notified_at
           THEN Done(t) /\ UNCHANGED budget
           ELSE /\ budget' = IF Marked(b) = b.threshold_notified_at THEN budget
                             ELSE [budget EXCEPT ![year].threshold_notified_at = Marked(b)]
                /\ Later(t, job[t].row.years)
  /\ UNCHANGED <<entry, clients>>

Crash(t) ==
  /\ Fault("crash") /\ (At(t, "recalculate") \/ At(t, "save") \/ At(t, "notify"))
  /\ Done(t)
  /\ UNCHANGED <<entry, budget, alerts, clients>>

-----------------------------------------------------------------------------
(* Budgets.                                                                *)

Allocate(t) ==
  /\ Free(t, "allocate")
  /\ \E year \in Years, a \in clients.allocations :
       /\ budget[year] = Nil
       /\ budget' = [budget EXCEPT ![year] = [allocated_budget |-> a, used_budget |-> 0,
                                           threshold_notified_at |-> FALSE]]
       /\ Recalculate(t, <<year>>)
  /\ UNCHANGED <<entry, alerts, clients>>

LoadBudget(t) ==
  /\ \E year \in Budgeted : Free(t, "change") /\ Take(t, "change", year, budget[year])
  /\ UNCHANGED <<entry, budget, alerts, clients>>

\* The whole row is saved, the use and the mark the copy has among it; then it
\* is recomputed.
Change(t) ==
  /\ At(t, "change") /\ WaitsForRow(job[t].key)
  /\ LET year == job[t].key IN
       /\ \E a \in clients.allocations :
            LET b == [job[t].row EXCEPT !.allocated_budget = a] IN
            /\ budget' = [budget EXCEPT ![year] = b]
            /\ alerts' = IF Above(b) THEN alerts ELSE [alerts EXCEPT ![year] = 0]
       /\ Recalculate(t, <<year>>)
  /\ UNCHANGED <<entry, clients>>

Drop(t) ==
  /\ Free(t, "drop")
  /\ \E year \in Budgeted :
       /\ WaitsForRow(year)
       /\ budget' = [budget EXCEPT ![year] = Nil]
       /\ alerts' = [alerts EXCEPT ![year] = 0]
  /\ UNCHANGED <<entry, job, clients>>

Me(t) ==
  /\ Free(t, "me")
  /\ \E year \in Years : Recalculate(t, <<year>>)
  /\ UNCHANGED <<entry, budget, alerts, clients>>

-----------------------------------------------------------------------------
Start ==
  /\ entry = [e \in Entries |-> Nil]
  /\ budget = [year \in Years |-> [allocated_budget |-> 2, used_budget |-> 0, threshold_notified_at |-> FALSE]]
  /\ alerts = [year \in Years |-> 0]

Init == Start /\ Begin

Next ==
  \E t \in Threads :
    \/ Create(t) \/ AssistantCreate(t) \/ LoadEntry(t) \/ Edit(t) \/ Delete(t)
    \/ Sum(t) \/ SaveUsed(t) \/ MaybeNotifyThreshold(t) \/ Crash(t)
    \/ Allocate(t) \/ LoadBudget(t) \/ Change(t) \/ Drop(t) \/ Me(t)

Spec == Init /\ [][Next]_vars

-----------------------------------------------------------------------------
(* Properties.                                                             *)

Only(calls) == clients.calls \subseteq calls

\* Entries and budgets are in their columns' range, and no more alerts are sent than
\* the bound of the counter.
TypeOK ==
  /\ entry \in [Entries -> Rows \cup {Nil}]
  /\ budget \in [Years -> Budgets \cup {Nil}]
  /\ alerts \in [Years -> 0..2]

\* However calls race that create and delete entries and change budgets, or edit entries
\* one at a time: once all have ended, a budget tells what its entries cost.  Two edits
\* of one entry recompute the years each has loaded, and may leave out another.
UsedTellsEntries ==
  /\ Only({"create", "delete", "me", "change"}
          \cup IF OneAtATime THEN BudgetCalls \cup {"edit"} ELSE {})
  /\ clients.faults = {} /\ AllIdle
  => \A year \in Budgeted : budget[year].used_budget = SumEntryCosts(year)

\* Of calls one at a time, on budgets with money in them and entries counted in
\* their year: an alert for every time the threshold is crossed, and only one.
AlertedPerCrossing ==
  /\ OneAtATime /\ 0 \notin clients.allocations /\ Only(Calls \ {"drop", "late", "ai_create"})
  /\ clients.faults = {} /\ AllIdle
  => \A year \in Budgeted : alerts[year] = IF Above(budget[year]) THEN 1 ELSE 0
=============================================================================
