------------------------- MODULE IntegrationsProofs -------------------------
(***************************************************************************)
(* Theorems about the components of Integrations, for any threads and     *)
(* clients and any number of rows: the promises of EmployeeAccounts and    *)
(* AssetAccess, of OAuthConnections, of DocumentFiles and                  *)
(* DocumentTemplates, of AssistantTurns, and of AssistantRouting but for   *)
(* what is computed by a fold.                                             *)
(***************************************************************************)
EXTENDS Integrations, Integers, Sequences, FiniteSetTheorems, TLAPS

-----------------------------------------------------------------------------
(* One area at a time: clients stay what they are, so that nothing but the *)
(* component of their area takes steps.                                    *)

LEMMA OAuthKeepsClients == OAuth!Next => UNCHANGED clients
BY Zenon DEF OAuth!Next, OAuth!Expire, OAuth!TimePasses, OAuth!Authorize, OAuth!CallbackLoad,
  OAuth!Exchange, OAuth!Connect, OAuth!Store, OAuth!Map, OAuth!SaveMapping,
  OAuth!Disconnect, OAuth!Load, OAuth!Refresh, OAuth!Keep

LEMMA FilesKeepsClients == Files!Next => UNCHANGED clients
BY DEF Files!Next, Files!SaveFile, Files!Insert, Files!Load, Files!DeleteFile,
  Files!DeleteRow, Files!LoadBulk, Files!BulkDeleteFile, Files!BulkDeleteRows,
  Files!BulkRollBack, Files!LoadChange, Files!SaveArchived, Files!SaveVisibility,
  Files!LoadBulkArchive, Files!BulkArchive, Files!Crash

LEMMA AssistantKeepsClients == Assistant!Next => UNCHANGED clients
BY DEF Assistant!Next, Assistant!Expire, Assistant!Turn, Assistant!Stage,
  Assistant!AgentConfirm, Assistant!AgentCancel, Assistant!Refill, Assistant!Refuse,
  Assistant!Execute, Assistant!Clear, Assistant!Answer, Assistant!Crash

LEMMA SigningKeepsClients == Signing!Next => UNCHANGED clients
BY DEF Signing!Next, Signing!Register, Signing!Create, Signing!Name, Signing!Insert,
  Signing!InsertProfile, Signing!SignIn, Signing!SaveProfile, Signing!Edit,
  Signing!EditEmail, Signing!CheckEmail, Signing!SaveUser, Signing!Signal, Signing!Delete,
  Signing!MarkInactive, Signing!Anonymise, Signing!Crash

LEMMA WritingKeepsClients == Writing!Next => UNCHANGED clients
BY Zenon DEF Writing!Next, Writing!Create, Writing!AssistantCreate, Writing!LoadPut,
  Writing!LoadPatch, Writing!Save, Writing!LoadAssistantUpdate, Writing!AssistantUpdate,
  Writing!Delete, Writing!Duplicate, Writing!CloneFields, Writing!DropFields,
  Writing!AddField, Writing!Answer, Writing!Use, Writing!Generate, Writing!Crash

LEMMA RoutingKeepsClients == Routing!Next => UNCHANGED clients
BY Zenon DEF Routing!Next, Routing!Settle, Routing!Say, Routing!Orchestrate, Routing!Agent,
  Routing!Route, Routing!Answer, Routing!Crash

LEMMA LookingKeepsClients == Looking!Next => UNCHANGED clients
BY Zenon DEF Looking!Next, Looking!Assign, Looking!Return, Looking!SetStatus, Looking!Plan,
  Looking!Grant, Looking!NextDay, Looking!Others

LEMMA ClientsStay == [Next]_vars => UNCHANGED clients
BY OAuthKeepsClients, FilesKeepsClients, AssistantKeepsClients, SigningKeepsClients,
   WritingKeepsClients, RoutingKeepsClients, LookingKeepsClients
   DEF Next, Step, Elsewhere, data, vars

LEMMA OAuthStep ==
  ASSUME [Next]_vars
  PROVE  IF clients.area = "oauth" THEN [OAuth!Next]_OAuth!vars ELSE UNCHANGED oauth
BY DEF Next, Step, Elsewhere, Areas, data, vars, oauth, OAuth!vars, OAuth!data

LEMMA SigningStep ==
  ASSUME [Next]_vars
  PROVE  IF clients.area = "accounts" THEN [Signing!Next]_Signing!vars ELSE UNCHANGED accounts
BY DEF Next, Step, Elsewhere, Areas, data, vars, accounts, Signing!vars

LEMMA LookingStep ==
  ASSUME [Next]_vars
  PROVE  IF clients.area = "access" THEN [Looking!Next]_Looking!vars ELSE UNCHANGED custody
BY DEF Next, Step, Elsewhere, Areas, data, vars, custody, Looking!vars

LEMMA AssistantStep ==
  ASSUME [Next]_vars
  PROVE  IF clients.area = "assistant" THEN [Assistant!Next]_Assistant!vars ELSE UNCHANGED assistant
BY DEF Next, Step, Elsewhere, Areas, data, vars, assistant, Assistant!vars, Assistant!data

LEMMA RoutingStep ==
  ASSUME [Next]_vars
  PROVE  IF clients.area = "routing" THEN [Routing!Next]_Routing!vars ELSE UNCHANGED chats
BY DEF Next, Step, Elsewhere, Areas, data, vars, chats, Routing!vars

LEMMA FilesStep ==
  ASSUME [Next]_vars
  PROVE  IF clients.area = "files" THEN [Files!Next]_Files!vars ELSE UNCHANGED files
BY DEF Next, Step, Elsewhere, Areas, data, vars, files, Files!vars

LEMMA WritingStep ==
  ASSUME [Next]_vars
  PROVE  IF clients.area = "templates" THEN [Writing!Next]_Writing!vars ELSE UNCHANGED templates
BY DEF Next, Step, Elsewhere, Areas, data, vars, templates, Writing!vars

-----------------------------------------------------------------------------
(* Finite sets of numbers.  Among the sets of what is larger than a member *)
(* one has no smaller one, and that is empty.                              *)

LEMMA Largest ==
  ASSUME NEW S \in SUBSET Int, IsFiniteSet(S), S # {}
  PROVE  \E n \in S : \A i \in S : n >= i
<1> DEFINE Above(n) == {i \in S : i > n}
           All == {Above(n) : n \in S}
<1>1. IsWellFoundedOn(StrictSubsetOrdering(S), FiniteSubsetsOf(S))
  BY FS_StrictSubsetOrderingWellFounded
<1>2. All \subseteq FiniteSubsetsOf(S) /\ All # {}
  <2>1. FiniteSubsetsOf(S) = SUBSET S
    BY FS_FiniteSubsetsOfFinite
  <2>2. All \subseteq SUBSET S
    OBVIOUS
  <2>3. All # {}
    OBVIOUS
  <2> QED
    BY <2>1, <2>2, <2>3
<1>3. PICK T \in All : \A U \in All : <<U, T>> \notin StrictSubsetOrdering(S)
  <2> HIDE DEF All
  <2> QED
    BY <1>1, <1>2, WFMin
<1>4. PICK n \in S : T = Above(n)
  OBVIOUS
<1>5. ASSUME NEW i \in S, i > n PROVE FALSE
  <2>1. Above(i) \in All
    OBVIOUS
  <2>2. \A j \in Above(i) : j \in Above(n)
    BY <1>5
  <2>3. i \in Above(n) /\ i \notin Above(i)
    BY <1>5
  <2>4. Above(i) \in SUBSET S /\ Above(n) \in SUBSET S
    OBVIOUS
  <2>5. <<Above(i), Above(n)>> \in StrictSubsetOrdering(S)
    <3> HIDE DEF Above
    <3> QED
      BY <2>2, <2>3, <2>4 DEF StrictSubsetOrdering
  <2> QED
    BY <2>1, <2>5, <1>3, <1>4
<1> QED
  BY <1>5

LEMMA Smallest ==
  ASSUME NEW S \in SUBSET Int, IsFiniteSet(S), S # {}
  PROVE  \E n \in S : \A i \in S : n <= i
<1> DEFINE Below(n) == {i \in S : i < n}
           All == {Below(n) : n \in S}
<1>1. IsWellFoundedOn(StrictSubsetOrdering(S), FiniteSubsetsOf(S))
  BY FS_StrictSubsetOrderingWellFounded
<1>2. All \subseteq FiniteSubsetsOf(S) /\ All # {}
  <2>1. FiniteSubsetsOf(S) = SUBSET S
    BY FS_FiniteSubsetsOfFinite
  <2>2. All \subseteq SUBSET S
    OBVIOUS
  <2>3. All # {}
    OBVIOUS
  <2> QED
    BY <2>1, <2>2, <2>3
<1>3. PICK T \in All : \A U \in All : <<U, T>> \notin StrictSubsetOrdering(S)
  <2> HIDE DEF All
  <2> QED
    BY <1>1, <1>2, WFMin
<1>4. PICK n \in S : T = Below(n)
  OBVIOUS
<1>5. ASSUME NEW i \in S, i < n PROVE FALSE
  <2>1. Below(i) \in All
    OBVIOUS
  <2>2. \A j \in Below(i) : j \in Below(n)
    BY <1>5
  <2>3. i \in Below(n) /\ i \notin Below(i)
    BY <1>5
  <2>4. Below(i) \in SUBSET S /\ Below(n) \in SUBSET S
    OBVIOUS
  <2>5. <<Below(i), Below(n)>> \in StrictSubsetOrdering(S)
    <3> HIDE DEF Below
    <3> QED
      BY <2>2, <2>3, <2>4 DEF StrictSubsetOrdering
  <2> QED
    BY <2>1, <2>5, <1>3, <1>4
<1> QED
  BY <1>5

\* Instances have cardinalities of their own, which are the same.
LEMMA SameCounting ==
  ASSUME NEW S
  PROVE  /\ Signing!IsFiniteSet(S) <=> IsFiniteSet(S)
         /\ Signing!Cardinality(S) = Cardinality(S)
         /\ Looking!Cardinality(S) = Cardinality(S)
         /\ OAuth!Cardinality(S) = Cardinality(S)
<1>1. Signing!IsFiniteSet(S) <=> IsFiniteSet(S)
  BY DEF Signing!IsFiniteSet, IsFiniteSet
<1>2. Signing!Cardinality(S) = Cardinality(S)
  BY DEF Signing!Cardinality, Cardinality
<1>3. Looking!Cardinality(S) = Cardinality(S)
  BY DEF Looking!Cardinality, Cardinality
<1>4. OAuth!Cardinality(S) = Cardinality(S)
  BY DEF OAuth!Cardinality, Cardinality
<1> QED
  BY <1>1, <1>2, <1>3, <1>4

-----------------------------------------------------------------------------
(* AssetAccess.  The queries are compared in every state that is typed;    *)
(* the assignment that counts as current is an active one, if any is.      *)

LookingInv ==
  /\ Looking!TypeOK
  /\ DOMAIN held = Looking!Keys
  /\ plan \in [asset : Assets, status : {"scheduled", "completed", "cancelled"}] \cup {Nil}

LEMMA LookingInit ==
  ASSUME Looking!AccessConstants, Init
  PROVE  LookingInv
BY DEF Looking!AccessConstants, Init, Looking!Start, LookingInv, Looking!TypeOK, Looking!Live,
  Looking!Keys, Looking!AssetStatuses

LEMMA CurrentIsActive ==
  ASSUME Looking!AccessConstants, NEW a
  PROVE  /\ Looking!Current(a) # Nil => Looking!Current(a) \in Looking!Active(a)
         /\ Looking!Active(a) # {} => Looking!Current(a) # Nil
<1>1. Looking!Active(a) \in SUBSET (1..MaxAssignments) /\ MaxAssignments \in Nat
  BY DEF Looking!Active, Looking!Live, Looking!Keys, Looking!AccessConstants
<1>2. IsFiniteSet(1..MaxAssignments)
  BY <1>1, FS_Interval
<1>3. IsFiniteSet(Looking!Active(a)) /\ Looking!Active(a) \in SUBSET Int
  BY <1>1, <1>2, FS_Subset
<1>4. ASSUME Looking!Active(a) # {}
      PROVE  Looking!Max(Looking!Active(a)) \in Looking!Active(a)
  BY <1>3, <1>4, Largest DEF Looking!Max
<1> QED
  BY <1>1, <1>4 DEF Looking!Current, Looking!AccessConstants, Looking!Keys

\* If no more than one assignment of an asset is active, that is the current one.
LEMMA OnlyCurrent ==
  ASSUME Looking!AccessConstants, NEW a, NEW i \in Looking!Active(a),
         Looking!Cardinality(Looking!Active(a)) <= 1
  PROVE  Looking!Current(a) = i
<1>1. Looking!Active(a) \in SUBSET (1..MaxAssignments) /\ MaxAssignments \in Nat
  BY DEF Looking!Active, Looking!Live, Looking!Keys, Looking!AccessConstants
<1>2. IsFiniteSet(1..MaxAssignments)
  BY <1>1, FS_Interval
<1>3. IsFiniteSet(Looking!Active(a))
  BY <1>1, <1>2, FS_Subset
<1>4. Cardinality(Looking!Active(a)) \in {0, 1}
  BY <1>3, FS_CardinalityType, SameCounting
<1>5. Looking!Active(a) = {i}
  BY <1>3, <1>4, FS_EmptySet, FS_Singleton
<1> QED
  BY <1>5, CurrentIsActive

LEMMA LookingInvStep ==
  ASSUME Looking!AccessConstants, LookingInv, [Looking!Next]_Looking!vars,
         clients \in Clients, clients.area = "access"
  PROVE  LookingInv'
<1> USE DEF LookingInv, Looking!TypeOK, Looking!Live, Looking!Keys, Looking!rows, Looking!Others
<1>1. CASE Looking!Assign
  BY <1>1 DEF Looking!Assign, Looking!RequestStatuses
<1>2. CASE Looking!Return
  <2> DEFINE Rows == [asset : Assets, employee : Employees, returned : BOOLEAN,
                      request : Looking!RequestStatuses]
  <2>1. PICK i \in Looking!Live, r \in Rows : held' = [held EXCEPT ![i] = r]
    <3>1. PICK i \in Looking!Live :
            \/ held' = [held EXCEPT ![i] = [held[i] EXCEPT !.request = "pending"]]
            \/ held' = [held EXCEPT ![i] = [held[i] EXCEPT !.returned = TRUE, !.request = "approved"]]
            \/ held' = [held EXCEPT ![i] = [held[i] EXCEPT !.request = "rejected"]]
            \/ held' = [held EXCEPT ![i] = [held[i] EXCEPT !.returned = TRUE]]
      BY <1>2, Zenon DEF Looking!Return
    <3>2. /\ [held[i] EXCEPT !.request = "pending"] \in Rows
          /\ [held[i] EXCEPT !.returned = TRUE, !.request = "approved"] \in Rows
          /\ [held[i] EXCEPT !.request = "rejected"] \in Rows
          /\ [held[i] EXCEPT !.returned = TRUE] \in Rows
      BY DEF Looking!RequestStatuses
    <3> QED
      BY <3>1, <3>2
  <2>2. UNCHANGED <<status, plan, permitted, team, date>>
    BY <1>2 DEF Looking!Return
  <2> QED
    BY <2>1, <2>2
<1>3. CASE Looking!SetStatus
  BY <1>3 DEF Looking!SetStatus
<1>4. CASE Looking!Plan
  BY <1>4 DEF Looking!Plan
<1>5. CASE Looking!Grant
  BY <1>5 DEF Looking!Grant, Looking!AccessConstants
<1>6. CASE Looking!NextDay
  BY <1>6 DEF Looking!NextDay
<1>7. CASE UNCHANGED Looking!vars
  BY <1>7 DEF Looking!vars
<1> QED
  BY <1>1, <1>2, <1>3, <1>4, <1>5, <1>6, <1>7 DEF Looking!Next

\* The viewer's own things are among those seen in every scope but none.
LEMMA LookingScopes ==
  ASSUME Looking!AccessConstants, LookingInv
  PROVE  /\ Looking!Seen \subseteq Employees
         /\ Looking!Scope = "all" => Looking!Seen = Employees
         /\ Looking!Has("view_own_assets") => Viewer \in Looking!Seen
BY DEF Looking!AccessConstants, LookingInv, Looking!TypeOK, Looking!Seen, Looking!Scope

LEMMA LookingLists ==
  ASSUME Looking!AccessConstants, LookingInv
  PROVE  Looking!ListedAreOpen
<1>1. {a \in Assets : Looking!CanView(a)} \subseteq Looking!Listed
  BY CurrentIsActive DEF Looking!CanView, Looking!Listed
<1>2. Looking!AssistantAssets = {a \in Assets : Looking!CanView(a)}
  BY DEF Looking!AssistantAssets
<1>3. \A a \in Looking!Listed :
        Looking!Cardinality(Looking!Active(a)) <= 1 => a \in {i \in Assets : Looking!CanView(i)}
  BY CurrentIsActive, OnlyCurrent DEF Looking!CanView, Looking!Listed
<1>4. ASSUME Looking!Scope # "all"
      PROVE  Looking!Listed = {held[i].asset : i \in Looking!AssignmentList(TRUE)}
  <2>1. Looking!AssignmentList(TRUE) =
          {i \in Looking!Live : held[i].employee \in Looking!Seen /\ ~held[i].returned}
    BY DEF Looking!AssignmentList, LookingInv, Looking!TypeOK, Looking!AccessConstants
  <2>2. \A i \in Looking!AssignmentList(TRUE) :
          held[i].asset \in Assets /\ i \in Looking!Active(held[i].asset)
    BY <2>1 DEF Looking!Active, LookingInv, Looking!TypeOK
  <2>3. \A a \in Assets : \A i \in Looking!Active(a) :
          held[i].employee \in Looking!Seen =>
            i \in Looking!AssignmentList(TRUE) /\ held[i].asset = a
    BY <2>1 DEF Looking!Active
  <2>4. Looking!Listed = {a \in Assets : \E i \in Looking!Active(a) : held[i].employee \in Looking!Seen}
    BY <1>4 DEF Looking!Listed
  <2>5. \A i \in Looking!AssignmentList(TRUE) : held[i].employee \in Looking!Seen
    BY <2>1
  <2> QED
    BY <2>2, <2>3, <2>4, <2>5
<1>5. Looking!AssignmentList(Nil) = {i \in Looking!Live : Looking!CanViewAssignment(i)}
  BY LookingScopes DEF Looking!AssignmentList, Looking!CanViewAssignment, LookingInv, Looking!TypeOK
<1>6. Looking!Has("export_inventory") =>
        \A j \in {TRUE, FALSE, Nil} : Looking!AssetList(Nil, j) \subseteq Looking!Export(Nil, Nil, j)
  BY DEF Looking!AssetList, Looking!Export, Looking!Filtered, Looking!Listed
<1> QED
  BY <1>1, <1>2, <1>3, <1>4, <1>5, <1>6 DEF Looking!ListedAreOpen

LEMMA LookingAvailability ==
  ASSUME Looking!AccessConstants, LookingInv
  PROVE  Looking!AvailabilityAgrees
<1>1. Looking!AssetList(Nil, TRUE) = {a \in Looking!Listed : Looking!IsAvailable(a)}
  BY DEF Looking!AssetList, Looking!Filtered, Looking!IsAvailable
<1>2. Looking!AssetList(Nil, FALSE) = Looking!Listed \ Looking!AssetList(Nil, TRUE)
  BY DEF Looking!AssetList, Looking!Filtered
<1>3. \A e \in Employees : Looking!Export(Nil, e, TRUE) = {}
  BY DEF Looking!Export, Looking!Filtered, Looking!AccessConstants
<1> QED
  BY <1>1, <1>2, <1>3 DEF Looking!AvailabilityAgrees

LEMMA LookingOffers ==
  ASSUME Looking!AccessConstants, LookingInv
  PROVE  Looking!OfferedIsAccepted
<1>1. ASSUME NEW a \in Assets
      PROVE  Looking!OffersAssign(a) <=> Looking!AcceptsAssign(a)
  BY DEF Looking!OffersAssign, Looking!AcceptsAssign, Looking!Filtered, Looking!IsAvailable
<1>2. ASSUME NEW a \in Assets
      PROVE  /\ Looking!OffersReturn(a) =>
                  \/ Looking!AcceptsRequest(Looking!Current(a))
                  \/ held[Looking!Current(a)].request = "pending"
             /\ Looking!Current(a) # Nil /\ held[Looking!Current(a)].employee = Viewer
                  /\ Looking!AcceptsRequest(Looking!Current(a)) => Looking!OffersReturn(a)
  BY CurrentIsActive DEF Looking!OffersReturn, Looking!AcceptsRequest, Looking!Requestable,
     Looking!Active
<1>3. \A s \in Looking!RequestStatuses : \A i \in Looking!ReturnQueue(s) : Looking!CanViewReturn(i)
  BY DEF Looking!ReturnQueue, Looking!CanViewReturn
<1> QED
  BY <1>1, <1>2, <1>3 DEF Looking!OfferedIsAccepted

LEMMA LookingPlans ==
  ASSUME Looking!AccessConstants, LookingInv
  PROVE  Looking!PlansAgree
<1>1. plan # Nil => (Looking!PlanListed <=> Looking!PlanOpens)
  BY DEF Looking!PlanListed, Looking!PlanOpens, Looking!Holds
<1>2. \A s \in Looking!DueStates :
        Looking!PlanDue(s) <=> (Looking!PlanListed /\ Looking!DueState = s)
  <2>1. date \in 1..3 /\ Looking!DueDay = 2
    BY DEF LookingInv, Looking!TypeOK, Looking!DueDay
  <2>2. Nil \notin {"overdue", "due_today", "upcoming"}
    BY DEF Looking!AccessConstants, Looking!DueStates
  <2> QED
    BY <2>1, <2>2 DEF Looking!PlanDue, Looking!DueState, Looking!DueStates
<1>3. Looking!AssistantSeesPlan => Looking!PlanListed
  BY DEF Looking!AssistantSeesPlan, Looking!PlanListed
<1>4. Looking!PlanListed /\ ~Looking!SeesLogs =>
        plan.status = "scheduled" /\ plan.asset \in Looking!Listed
  BY LookingScopes DEF Looking!PlanListed, Looking!Holds, Looking!Listed, LookingInv, Looking!TypeOK
<1> QED
  BY <1>1, <1>2, <1>3, <1>4 DEF Looking!PlansAgree

-----------------------------------------------------------------------------
(* EmployeeAccounts, however calls race: the key of a new account is its   *)
(* thread's until the user is inserted, and a key with a profile keeps its *)
(* user.  SigningInv is the type invariant with that.                      *)

Renaming == [user : Signing!Users, copy : Signing!Profiles]
SigningJobs ==
  {Signing!Idle}
  \cup [call : {"name"}, key : Accounts, row : Emails]
  \cup [call : {"insert"}, key : Accounts, row : [email : Emails, username : Signing!Usernames]]
  \cup [call : {"profile"}, key : Accounts, row : Emails]
  \cup [call : {"save"}, key : Accounts, row : Signing!Profiles]
  \cup [call : {"check"}, key : Accounts, row : [email : Emails, copy : Signing!Profiles]]
  \cup [call : {"user", "signal"}, key : Accounts, row : Renaming]
  \cup [call : {"mark", "anonymise"}, key : Accounts, row : {Nil}]

\* The key is new or is that of a user, in a table of users.
Fits(j, users) ==
  IF j.call \in {"name", "insert"} THEN users[j.key] = Nil
  ELSE j = Signing!Idle \/ users[j.key] # Nil
SigningFits(j) == Fits(j, account)

SigningInv ==
  /\ Signing!TypeOK
  /\ job \in [Threads -> SigningJobs]
  /\ \A t \in Threads : SigningFits(job[t])
  /\ \A t, u \in Threads : job[t].call \in {"name", "insert"} /\ job[u].key = job[t].key => t = u
  /\ clients.emails \subseteq Emails

LEMMA SigningInit ==
  ASSUME Signing!AccountConstants, Init, clients.area = "accounts"
  PROVE  SigningInv
<1>1. \A t \in Threads : job[t] = Signing!Idle
  BY DEF Init, Begin, Idle, Signing!Idle
<1>2. job \in [Threads -> SigningJobs] /\ clients \in Clients
  BY <1>1 DEF Init, Begin, SigningJobs
<1>3. Signing!TypeOK
  BY DEF Init, Signing!Start, Signing!TypeOK, Signing!Live
<1>4. \A t \in Threads : SigningFits(job[t])
  BY <1>1 DEF SigningFits, Fits, Signing!Idle
<1> QED
  BY <1>1, <1>2, <1>3, <1>4 DEF SigningInv, Signing!Idle, Signing!AccountConstants

\* There is a number for a new username: those that are used are used by as many
\* accounts.
LEMMA NumberLeft ==
  ASSUME Signing!AccountConstants, SigningInv, NEW e \in Emails
  PROVE  LET S == {i \in 0..Signing!Cardinality(Accounts) : ~Signing!Used(<<e, i>>)}
         IN Signing!Min(S) \in S
<1> DEFINE N == Cardinality(Accounts)
           S == {i \in 0..N : ~Signing!Used(<<e, i>>)}
<1>1. IsFiniteSet(Accounts) /\ N \in Nat
  BY SameCounting, FS_CardinalityType DEF Signing!AccountConstants
<1>2. IsFiniteSet(0..N) /\ Cardinality(0..N) = N + 1
  BY <1>1, FS_Interval
<1>3. S \in SUBSET Int /\ IsFiniteSet(S)
  <2>1. S \in SUBSET (0..N)
    OBVIOUS
  <2>2. IsFiniteSet(S)
    BY <2>1, <1>2, FS_Subset
  <2> QED
    BY <2>1, <2>2
<1>4. S # {}
  <2>1. SUFFICES ASSUME S = {} PROVE FALSE
    OBVIOUS
  <2> DEFINE f == [i \in 0..N |-> CHOOSE k \in Signing!Live : account[k].username = <<e, i>>]
  <2>2. ASSUME NEW i \in 0..N
        PROVE  f[i] \in Signing!Live /\ account[f[i]].username = <<e, i>>
    <3>1. \E k \in Signing!Live : account[k].username = <<e, i>>
      BY <2>1 DEF Signing!Used
    <3> QED
      BY <3>1
  <2>3. f \in [0..N -> Accounts]
    BY <2>2 DEF Signing!Live
  <2> HIDE DEF f
  <2>4. PICK i \in 0..N : \E n \in 0..N : i # n /\ f[i] = f[n]
    BY <1>1, <1>2, <2>3, FS_PigeonHole
  <2>5. PICK n \in 0..N : i # n /\ f[i] = f[n]
    BY <2>4
  <2>6. <<e, i>> = <<e, n>>
    BY <2>2, <2>5
  <2> QED
    BY <2>5, <2>6
<1>5. PICK n \in S : \A i \in S : n <= i
  BY <1>3, <1>4, Smallest
<1>6. Signing!Min(S) \in S
  <2> HIDE DEF S
  <2> QED
    BY <1>5 DEF Signing!Min
<1>7. Signing!Cardinality(Accounts) = N
  BY SameCounting
<1> QED
  BY <1>6, <1>7

LEMMA SigningJob ==
  ASSUME SigningInv, NEW t \in Threads
  PROVE  /\ job[t].call = "name" => job[t].key \in Accounts /\ job[t].row \in Emails
         /\ job[t].call = "insert" =>
              job[t].key \in Accounts /\ job[t].row \in [email : Emails, username : Signing!Usernames]
         /\ job[t].call = "profile" => job[t].key \in Accounts /\ job[t].row \in Emails
         /\ job[t].call = "save" => job[t].key \in Accounts /\ job[t].row \in Signing!Profiles
         /\ job[t].call = "check" =>
              job[t].key \in Accounts /\ job[t].row \in [email : Emails, copy : Signing!Profiles]
         /\ job[t].call \in {"user", "signal"} => job[t].key \in Accounts /\ job[t].row \in Renaming
         /\ job[t].call \in {"mark", "anonymise"} => job[t].key \in Accounts
         /\ job[t].call \in {"profile", "save", "check", "user", "signal", "mark", "anonymise"} =>
              account[job[t].key] # Nil
         /\ job[t].call \in {"name", "insert"} => account[job[t].key] = Nil
<1>1. job[t] \in SigningJobs /\ SigningFits(job[t])
  BY DEF SigningInv
<1>2. job[t].call \in {"profile", "save", "check", "user", "signal", "mark", "anonymise"} =>
        job[t] # Signing!Idle
  BY DEF Signing!Idle
<1>3. job[t].call \in {"profile", "save", "check", "user", "signal", "mark", "anonymise"} =>
        account[job[t].key] # Nil
  BY <1>1, <1>2 DEF SigningFits, Fits
<1>4. job[t].call \in {"name", "insert"} => account[job[t].key] = Nil
  BY <1>1 DEF SigningFits, Fits
<1> QED
  BY <1>1, <1>3, <1>4 DEF SigningJobs, Signing!Idle

\* What a step may do to the threads: it begins with a key that is nobody's or a
\* user's, goes on with its key, or ends; and writes no user but that of its key.
LEMMA SigningFrame ==
  ASSUME Signing!AccountConstants, SigningInv, UNCHANGED clients,
         NEW t \in Threads, NEW j \in SigningJobs, job' = [job EXCEPT ![t] = j],
         \A k \in Accounts : account'[k] = account[k] \/ (account'[k] # Nil /\ k = job[t].key),
         Fits(j, account'),
         \/ j = Signing!Idle
         \/ j.key = job[t].key /\ (j.call \in {"name", "insert"} => job[t].call \in {"name", "insert"})
         \/ account[j.key] # Nil /\ j.call \notin {"name", "insert"}
         \/ \A u \in Threads : job[u].key # j.key
  PROVE  /\ job' \in [Threads -> SigningJobs]
         /\ \A u \in Threads : SigningFits(job[u])'
         /\ \A u, n \in Threads :
              job'[u].call \in {"name", "insert"} /\ job'[n].key = job'[u].key => u = n
         /\ clients'.emails \subseteq Emails
<1>1. job \in [Threads -> SigningJobs] /\ clients'.emails \subseteq Emails
  BY DEF SigningInv
<1>2. job'[t] = j /\ \A u \in Threads \ {t} : job'[u] = job[u]
  BY <1>1
<1>3. \A u \in Threads : SigningFits(job[u]) /\ job[u] \in SigningJobs
  BY DEF SigningInv
<1>4. \A u, n \in Threads : job[u].call \in {"name", "insert"} /\ job[n].key = job[u].key => u = n
  BY DEF SigningInv
<1>5. \A u \in Threads : job[u].call \in {"name", "insert"} => job[u].key \in Accounts /\ account[job[u].key] = Nil
  BY SigningJob
<1>6. \A u \in Threads : job[u] = Signing!Idle \/ job[u].key \in Accounts
  BY <1>3 DEF SigningJobs
<1>7. ASSUME NEW u \in Threads \ {t} PROVE SigningFits(job[u])'
  <2>1. job'[u] = job[u]
    BY <1>2
  <2>2. CASE job[u].call \in {"name", "insert"}
    <3>1. job[u].key \in Accounts /\ account[job[u].key] = Nil /\ job[u].key # job[t].key
      BY <2>2, <1>4, <1>5
    <3> QED
      BY <2>1, <2>2, <3>1 DEF SigningFits, Fits
  <2>3. CASE job[u].call \notin {"name", "insert"} /\ job[u] # Signing!Idle
    <3>1. job[u].key \in Accounts /\ account[job[u].key] # Nil
      BY <2>3, <1>3, <1>6 DEF SigningFits, Fits
    <3> QED
      BY <2>1, <2>3, <3>1 DEF SigningFits, Fits
  <2>4. CASE job[u] = Signing!Idle
    BY <2>1, <2>4 DEF SigningFits, Fits, Signing!Idle
  <2> QED
    BY <2>2, <2>3, <2>4
<1>8. SigningFits(job[t])'
  BY <1>2 DEF SigningFits, Fits
<1>9. ASSUME NEW u \in Threads, NEW n \in Threads, u # n, job'[u].call \in {"name", "insert"},
             job'[n].key = job'[u].key
      PROVE  FALSE
  <2>1. u = t \/ n = t
    BY <1>2, <1>4, <1>9
  <2>2. CASE u = t
    <3>1. j.call \in {"name", "insert"} /\ job[n].key = j.key
      BY <1>2, <1>9, <2>2
    <3>2. j # Signing!Idle
      BY <3>1 DEF Signing!Idle
    <3> QED
      BY <3>1, <3>2, <1>4, <1>9, <2>2
  <2>3. CASE n = t
    <3>1. job[u].call \in {"name", "insert"} /\ job[u].key = j.key
      BY <1>2, <1>9, <2>3
    <3>2. job[u].key \in Accounts /\ account[job[u].key] = Nil
      BY <3>1, <1>5
    <3>3. j # Signing!Idle
      BY <3>1, <3>2 DEF Signing!Idle, Signing!AccountConstants
    <3> QED
      BY <3>1, <3>2, <3>3, <1>4, <1>9, <2>3
  <2> QED
    BY <2>1, <2>2, <2>3
<1> QED
  BY <1>1, <1>2, <1>7, <1>8, <1>9

LEMMA UserWritten ==
  ASSUME Signing!AccountConstants, Signing!TypeOK, NEW k \in Accounts, NEW r \in Signing!Users,
         account' = [account EXCEPT ![k] = r], UNCHANGED profile,
         r.username # Nil => \A a \in Signing!Live \ {k} : account[a].username # r.username
  PROVE  Signing!TypeOK'
<1>1. account' \in [Accounts -> Signing!Users \cup {Nil}] /\ r # Nil
  BY DEF Signing!TypeOK, Signing!AccountConstants
<1>2. Signing!Live' = Signing!Live \cup {k}
  BY <1>1 DEF Signing!Live, Signing!TypeOK
<1>3. account'[k] = r /\ \A a \in Signing!Live \ {k} : account'[a] = account[a]
  BY DEF Signing!TypeOK, Signing!Live
<1>4. \A i, a \in Signing!Live' :
        account'[i].username # Nil /\ account'[i].username = account'[a].username => i = a
  BY <1>2, <1>3 DEF Signing!TypeOK
<1> QED
  BY <1>1, <1>2, <1>4 DEF Signing!TypeOK

LEMMA ProfileWritten ==
  ASSUME Signing!TypeOK, NEW k \in Signing!Live, NEW r \in Signing!Profiles,
         profile' = [profile EXCEPT ![k] = r], UNCHANGED account
  PROVE  Signing!TypeOK'
BY DEF Signing!TypeOK, Signing!Live

LEMMA SigningInvStep ==
  ASSUME Signing!AccountConstants, SigningInv, [Signing!Next]_Signing!vars
  PROVE  SigningInv'
<1>1. CASE UNCHANGED Signing!vars
  <2> USE <1>1 DEF Signing!vars
  <2>1. Signing!TypeOK'
    BY DEF SigningInv, Signing!TypeOK, Signing!Live
  <2>2. \A t \in Threads : SigningFits(job[t])'
    BY DEF SigningInv, SigningFits, Fits
  <2> QED
    BY <2>1, <2>2 DEF SigningInv
<1> SUFFICES ASSUME NEW t \in Threads,
                    \/ Signing!Register(t) \/ Signing!Create(t) \/ Signing!Name(t)
                    \/ Signing!Insert(t) \/ Signing!InsertProfile(t) \/ Signing!SignIn(t)
                    \/ Signing!SaveProfile(t) \/ Signing!Edit(t) \/ Signing!EditEmail(t)
                    \/ Signing!CheckEmail(t) \/ Signing!SaveUser(t) \/ Signing!Signal(t)
                    \/ Signing!Delete(t) \/ Signing!MarkInactive(t) \/ Signing!Anonymise(t)
                    \/ Signing!Crash(t)
             PROVE  SigningInv'
  BY <1>1 DEF Signing!Next
<1> DEFINE Steps(j) ==
             /\ j \in SigningJobs /\ job' = [job EXCEPT ![t] = j]
             /\ Fits(j, account')
             /\ \/ j = Signing!Idle
                \/ j.key = job[t].key /\ (j.call \in {"name", "insert"} => job[t].call \in {"name", "insert"})
                \/ account[j.key] # Nil /\ j.call \notin {"name", "insert"}
                \/ \A u \in Threads : job[u].key # j.key
           Writes == \A k \in Accounts : account'[k] = account[k] \/ (account'[k] # Nil /\ k = job[t].key)
<1>2. ASSUME NEW j, Steps(j), Writes, Signing!TypeOK', UNCHANGED clients
      PROVE  SigningInv'
  BY <1>2, SigningFrame DEF SigningInv
<1>3. Signing!TypeOK /\ clients.emails \subseteq Emails /\ job \in [Threads -> SigningJobs]
  BY DEF SigningInv
<1>4. ASSUME UNCHANGED <<account, profile>> PROVE Signing!TypeOK' /\ Writes
  BY <1>3, <1>4 DEF Signing!TypeOK, Signing!Live
<1>5. Signing!Idle \in SigningJobs /\ Fits(Signing!Idle, account')
  BY DEF SigningJobs, Fits, Signing!Idle
<1>6. \A k \in Accounts : profile[k] # Nil => account[k] # Nil /\ profile[k] \in Signing!Profiles
  BY <1>3 DEF Signing!TypeOK, Signing!Live
<1>7. \A k \in Signing!Live : k \in Accounts /\ account[k] # Nil /\ account[k] \in Signing!Users
  BY <1>3 DEF Signing!TypeOK, Signing!Live
<1>8. CASE Signing!Register(t)
  <2>1. PICK k \in Accounts, e \in Emails : \E i \in Signing!Usernames :
          Signing!Fresh(k) /\ Signing!Take(t, "insert", k, [email |-> e, username |-> i])
    <3>1. Signing!Cardinality(Accounts) \in Nat
      BY SameCounting, FS_CardinalityType DEF Signing!AccountConstants
    <3>2. clients.emails \X {0} \subseteq Signing!Usernames
      BY <1>3, <3>1 DEF Signing!Usernames
    <3> QED
      BY <1>3, <1>8, <3>2 DEF Signing!Register
  <2>2. PICK i \in Signing!Usernames :
          Signing!Fresh(k) /\ Signing!Take(t, "insert", k, [email |-> e, username |-> i])
    BY <2>1
  <2>3. UNCHANGED <<account, profile, clients>>
    BY <1>8 DEF Signing!Register
  <2>4. Steps([call |-> "insert", key |-> k, row |-> [email |-> e, username |-> i]])
    BY <2>2, <2>3 DEF Signing!Take, Signing!Fresh, SigningJobs, SigningFits, Fits
  <2> HIDE DEF Steps, Writes
  <2> QED
    BY <1>2, <1>4, <2>3, <2>4
<1>9. CASE Signing!Create(t)
  <2>1. PICK k \in Accounts, e \in Emails : Signing!Fresh(k) /\ Signing!Take(t, "name", k, e)
    BY <1>3, <1>9 DEF Signing!Create
  <2>2. UNCHANGED <<account, profile, clients>>
    BY <1>9 DEF Signing!Create
  <2>3. Steps([call |-> "name", key |-> k, row |-> e])
    BY <2>1, <2>2 DEF Signing!Take, Signing!Fresh, SigningJobs, SigningFits, Fits
  <2> HIDE DEF Steps, Writes
  <2> QED
    BY <1>2, <1>4, <2>2, <2>3
<1>10. CASE Signing!Name(t)
  <2>1. job[t].call = "name" /\ job[t].key \in Accounts /\ job[t].row \in Emails
        /\ account[job[t].key] = Nil
    BY <1>10, SigningJob DEF Signing!Name, Signing!At
  <2>2. PICK i \in 0..Signing!Cardinality(Accounts) :
          Signing!Take(t, "insert", job[t].key, [email |-> job[t].row, username |-> <<job[t].row, i>>])
    BY <1>10, <2>1, NumberLeft DEF Signing!Name
  <2>3. UNCHANGED <<account, profile, clients>>
    BY <1>10 DEF Signing!Name
  <2>4. Steps([call |-> "insert", key |-> job[t].key,
               row |-> [email |-> job[t].row, username |-> <<job[t].row, i>>]])
    BY <2>1, <2>2, <2>3 DEF Signing!Take, SigningJobs, SigningFits, Fits, Signing!Usernames
  <2> HIDE DEF Steps, Writes
  <2> QED
    BY <1>2, <1>4, <2>3, <2>4
<1>11. CASE Signing!Insert(t)
  <2> DEFINE k == job[t].key
             r == job[t].row
             i == [username |-> r.username, email |-> r.email, is_active |-> TRUE]
  <2>1. k \in Accounts /\ r \in [email : Emails, username : Signing!Usernames] /\ account[k] = Nil
        /\ job[t].call = "insert" /\ UNCHANGED <<profile, clients>>
    BY <1>11, SigningJob DEF Signing!Insert, Signing!At
  <2>2. CASE Signing!Used(r.username)
    <3>1. job' = [job EXCEPT ![t] = Signing!Idle] /\ UNCHANGED account
      BY <1>11, <2>2 DEF Signing!Insert, Signing!Done
    <3>2. Steps(Signing!Idle)
      BY <1>5, <3>1
    <3> HIDE DEF Steps, Writes
    <3> QED
      BY <1>2, <1>4, <2>1, <3>1, <3>2
  <2>3. CASE ~Signing!Used(r.username)
    <3>1. account' = [account EXCEPT ![k] = i] /\ Signing!Take(t, "profile", k, r.email)
      BY <1>11, <2>3 DEF Signing!Insert
    <3>2. i \in Signing!Users /\ i # Nil
      <4>1. r.username \in Signing!Usernames /\ r.email \in Emails
        BY <2>1
      <4>2. i \in Signing!Users
        <5> HIDE DEF r
        <5> QED
          BY <4>1 DEF Signing!Users
      <4> QED
        BY <4>2 DEF Signing!AccountConstants
    <3>3. Signing!TypeOK'
      <4>1. i.username # Nil => \A a \in Signing!Live \ {k} : account[a].username # i.username
        BY <2>3 DEF Signing!Used
      <4> HIDE DEF i, k
      <4> QED
        BY <1>3, <2>1, <3>1, <3>2, <4>1, UserWritten
    <3>4. Writes /\ account'[k] # Nil
      BY <1>3, <2>1, <3>1, <3>2 DEF Signing!TypeOK
    <3>5. Steps([call |-> "profile", key |-> k, row |-> r.email])
      BY <2>1, <3>1, <3>4 DEF Signing!Take, SigningJobs, SigningFits, Fits
    <3> HIDE DEF Steps, Writes
    <3> QED
      BY <1>2, <2>1, <3>3, <3>4, <3>5
  <2> QED
    BY <2>2, <2>3
<1>12. CASE Signing!InsertProfile(t)
  <2> DEFINE k == job[t].key
             r == [email_address |-> job[t].row, is_active |-> TRUE]
  <2>1. k \in Signing!Live /\ r \in Signing!Profiles /\ job[t].call = "profile"
        /\ k \in Accounts /\ account[k] # Nil
    BY <1>12, SigningJob DEF Signing!InsertProfile, Signing!At, Signing!Profiles, Signing!Live
  <2>2. profile' = [profile EXCEPT ![k] = r] /\ UNCHANGED <<account, clients>>
        /\ Signing!Take(t, "save", k, r)
    BY <1>12 DEF Signing!InsertProfile
  <2>3. Signing!TypeOK' /\ Writes
    <3> HIDE DEF r, k
    <3> QED
      BY <1>3, <2>1, <2>2, ProfileWritten
  <2>4. Steps([call |-> "save", key |-> k, row |-> r])
    BY <2>1, <2>2 DEF Signing!Take, SigningJobs, SigningFits, Fits
  <2> HIDE DEF Steps, Writes
  <2> QED
    BY <1>2, <2>2, <2>3, <2>4
<1>13. CASE Signing!SignIn(t) \/ Signing!Edit(t)
  <2>1. PICK k \in Accounts :
          \E r \in Signing!Profiles : profile[k] # Nil /\ Signing!Take(t, "save", k, r)
    <3>1. CASE Signing!SignIn(t)
      BY <1>6, <1>7, <3>1 DEF Signing!SignIn
    <3>2. CASE Signing!Edit(t)
      <4>1. PICK k \in Accounts : profile[k] # Nil /\
              \/ Signing!Take(t, "save", k, profile[k])
              \/ \E e \in clients.emails :
                   Signing!Take(t, "save", k, [profile[k] EXCEPT !.email_address = e])
        BY <3>2 DEF Signing!Edit
      <4>2. profile[k] \in Signing!Profiles
        BY <1>6, <4>1
      <4>3. \A e \in Emails : [profile[k] EXCEPT !.email_address = e] \in Signing!Profiles
        BY <4>2 DEF Signing!Profiles
      <4> QED
        BY <1>3, <4>1, <4>2, <4>3
    <3> QED
      BY <1>13, <3>1, <3>2
  <2>2. PICK r \in Signing!Profiles : profile[k] # Nil /\ Signing!Take(t, "save", k, r)
    BY <2>1
  <2>3. UNCHANGED <<account, profile, clients>>
    BY <1>13 DEF Signing!SignIn, Signing!Edit
  <2>4. Steps([call |-> "save", key |-> k, row |-> r])
    BY <1>6, <2>2, <2>3 DEF Signing!Take, SigningJobs, SigningFits, Fits
  <2> HIDE DEF Steps, Writes
  <2> QED
    BY <1>2, <1>4, <2>3, <2>4
<1>14. CASE Signing!SaveProfile(t)
  <2>1. job[t].key \in Signing!Live /\ job[t].row \in Signing!Profiles
    BY <1>14, SigningJob DEF Signing!SaveProfile, Signing!At, Signing!Live
  <2>2. /\ profile' = [profile EXCEPT ![job[t].key] = job[t].row]
        /\ UNCHANGED <<account, clients>> /\ job' = [job EXCEPT ![t] = Signing!Idle]
    BY <1>14 DEF Signing!SaveProfile, Signing!Done
  <2>3. Signing!TypeOK' /\ Writes
    BY <1>3, <2>1, <2>2, ProfileWritten
  <2>4. Steps(Signing!Idle)
    BY <1>5, <2>2
  <2> HIDE DEF Steps, Writes
  <2> QED
    BY <1>2, <2>2, <2>3, <2>4
<1>15. CASE Signing!EditEmail(t)
  <2>1. PICK k \in Accounts, e \in Emails :
          profile[k] # Nil /\ Signing!Take(t, "check", k, [email |-> e, copy |-> profile[k]])
    BY <1>3, <1>15 DEF Signing!EditEmail
  <2>2. UNCHANGED <<account, profile, clients>>
    BY <1>15 DEF Signing!EditEmail
  <2>3. Steps([call |-> "check", key |-> k, row |-> [email |-> e, copy |-> profile[k]]])
    BY <1>6, <2>1, <2>2 DEF Signing!Take, SigningJobs, SigningFits, Fits
  <2> HIDE DEF Steps, Writes
  <2> QED
    BY <1>2, <1>4, <2>2, <2>3
<1>16. CASE Signing!CheckEmail(t)
  <2> DEFINE k == job[t].key
             r == [user |-> [account[k] EXCEPT !.email = job[t].row.email], copy |-> job[t].row.copy]
  <2>1. k \in Accounts /\ account[k] # Nil /\ account[k] \in Signing!Users
        /\ job[t].row \in [email : Emails, copy : Signing!Profiles]
        /\ UNCHANGED <<account, profile, clients>>
    BY <1>7, <1>16, SigningJob DEF Signing!CheckEmail, Signing!At, Signing!Live
  <2>2. r \in Renaming
    BY <2>1 DEF Renaming, Signing!Users
  <2>3. \/ job' = [job EXCEPT ![t] = Signing!Idle]
        \/ Signing!Take(t, "user", k, r)
    BY <1>16 DEF Signing!CheckEmail, Signing!Done
  <2>4. Steps(Signing!Idle) \/ Steps([call |-> "user", key |-> k, row |-> r])
    <3> HIDE DEF r, k
    <3>1. CASE job' = [job EXCEPT ![t] = Signing!Idle]
      BY <1>5, <3>1
    <3>2. CASE Signing!Take(t, "user", k, r)
      BY <2>1, <2>2, <3>2 DEF Signing!Take, SigningJobs, SigningFits, Fits
    <3> QED
      BY <2>3, <3>1, <3>2
  <2> HIDE DEF Steps, Writes
  <2> QED
    BY <1>2, <1>4, <2>1, <2>4
<1>17. CASE Signing!SaveUser(t)
  <2> DEFINE k == job[t].key
             i == job[t].row.user
  <2>1. k \in Accounts /\ i \in Signing!Users /\ i # Nil /\ job[t].row \in Renaming
        /\ job[t].call = "user" /\ account[k] # Nil /\ UNCHANGED <<profile, clients>>
    BY <1>17, SigningJob DEF Signing!SaveUser, Signing!At, Renaming, Signing!AccountConstants
  <2> DEFINE Twin == \E a \in Signing!Live \ {k} : i.username # Nil /\ account[a].username = i.username
  <2>2. CASE Twin
    <3>1. job' = [job EXCEPT ![t] = Signing!Idle] /\ UNCHANGED account
      BY <1>17, <2>2 DEF Signing!SaveUser, Signing!Done
    <3>2. Steps(Signing!Idle)
      BY <1>5, <3>1
    <3> HIDE DEF Steps, Writes
    <3> QED
      BY <1>2, <1>4, <2>1, <3>1, <3>2
  <2>3. CASE ~Twin
    <3>1. account' = [account EXCEPT ![k] = i] /\ Signing!Take(t, "signal", k, job[t].row)
      BY <1>17, <2>3 DEF Signing!SaveUser
    <3>2. Signing!TypeOK'
      <4>1. i.username # Nil => \A a \in Signing!Live \ {k} : account[a].username # i.username
        BY <2>3
      <4> HIDE DEF i, k, Twin
      <4> QED
        BY <1>3, <2>1, <3>1, <4>1, UserWritten
    <3>3. Writes /\ account'[k] # Nil
      BY <1>3, <2>1, <3>1 DEF Signing!TypeOK
    <3>4. Steps([call |-> "signal", key |-> k, row |-> job[t].row])
      BY <2>1, <3>1, <3>3 DEF Signing!Take, SigningJobs, SigningFits, Fits
    <3> HIDE DEF Steps, Writes
    <3> QED
      BY <1>2, <2>1, <3>2, <3>3, <3>4
  <2> QED
    BY <2>2, <2>3
<1>18. CASE Signing!Signal(t)
  <2> DEFINE k == job[t].key
  <2>1. k \in Accounts /\ k \in Signing!Live /\ job[t].row \in Renaming /\ account[k] # Nil
    BY <1>18, SigningJob DEF Signing!Signal, Signing!At, Signing!Live
  <2>2. job[t].row.copy \in Signing!Profiles /\ Signing!Addressed(job[t].row) \in Signing!Profiles
    BY <2>1 DEF Renaming, Signing!Profiles, Signing!Users, Signing!Addressed
  <2>3. /\ profile' = [profile EXCEPT ![k] = job[t].row.copy] /\ UNCHANGED <<account, clients>>
        /\ Signing!Take(t, "save", k, Signing!Addressed(job[t].row))
    BY <1>18 DEF Signing!Signal
  <2>4. Signing!TypeOK' /\ Writes
    <3> HIDE DEF k
    <3> QED
      BY <1>3, <2>1, <2>2, <2>3, ProfileWritten
  <2>5. Steps([call |-> "save", key |-> k, row |-> Signing!Addressed(job[t].row)])
    BY <2>1, <2>2, <2>3 DEF Signing!Take, SigningJobs, SigningFits, Fits
  <2> HIDE DEF Steps, Writes
  <2> QED
    BY <1>2, <2>3, <2>4, <2>5
<1>19. CASE Signing!Delete(t)
  <2>1. PICK k \in Accounts : profile[k] # Nil /\ Signing!Take(t, "mark", k, Nil)
    BY <1>19 DEF Signing!Delete
  <2>2. UNCHANGED <<account, profile, clients>>
    BY <1>19 DEF Signing!Delete
  <2>3. Steps([call |-> "mark", key |-> k, row |-> Nil])
    BY <1>6, <2>1, <2>2 DEF Signing!Take, SigningJobs, SigningFits, Fits
  <2> HIDE DEF Steps, Writes
  <2> QED
    BY <1>2, <1>4, <2>2, <2>3
<1>20. CASE Signing!MarkInactive(t)
  <2> DEFINE k == job[t].key
  <2>1. k \in Accounts /\ k \in Signing!Live /\ account[k] # Nil
        /\ Signing!DeletedProfile \in Signing!Profiles
    BY <1>20, SigningJob DEF Signing!MarkInactive, Signing!At, Signing!Live, Signing!DeletedProfile,
       Signing!Profiles
  <2>2. /\ profile' = [profile EXCEPT ![k] = Signing!DeletedProfile] /\ UNCHANGED <<account, clients>>
        /\ Signing!Take(t, "anonymise", k, Nil)
    BY <1>20 DEF Signing!MarkInactive
  <2>3. Signing!TypeOK' /\ Writes
    <3> HIDE DEF k
    <3> QED
      BY <1>3, <2>1, <2>2, ProfileWritten
  <2>4. Steps([call |-> "anonymise", key |-> k, row |-> Nil])
    BY <2>1, <2>2 DEF Signing!Take, SigningJobs, SigningFits, Fits
  <2> HIDE DEF Steps, Writes
  <2> QED
    BY <1>2, <2>2, <2>3, <2>4
<1>21. CASE Signing!Anonymise(t)
  <2> DEFINE k == job[t].key
  <2>1. k \in Accounts /\ account[k] # Nil /\ Signing!Anonymous \in Signing!Users
        /\ Signing!Anonymous # Nil /\ Signing!DeletedProfile \in Signing!Profiles
        /\ Signing!Anonymous.username = Nil
    <3>1. k \in Accounts /\ account[k] # Nil
      BY <1>21, SigningJob DEF Signing!Anonymise, Signing!At
    <3>2. Signing!Anonymous \in Signing!Users /\ Signing!Anonymous.username = Nil
      BY DEF Signing!Anonymous, Signing!Users
    <3>3. Signing!DeletedProfile \in Signing!Profiles
      BY DEF Signing!DeletedProfile, Signing!Profiles
    <3> QED
      BY <3>1, <3>2, <3>3 DEF Signing!AccountConstants
  <2>2. /\ account' = [account EXCEPT ![k] = Signing!Anonymous] /\ UNCHANGED <<profile, clients>>
        /\ Signing!Take(t, "save", k, Signing!DeletedProfile)
    BY <1>21 DEF Signing!Anonymise
  <2>3. Signing!TypeOK'
    <3> HIDE DEF k
    <3> QED
      BY <1>3, <2>1, <2>2, UserWritten
  <2>4. Writes /\ account'[k] # Nil
    BY <1>3, <2>1, <2>2 DEF Signing!TypeOK
  <2>5. Steps([call |-> "save", key |-> k, row |-> Signing!DeletedProfile])
    BY <2>1, <2>2, <2>4 DEF Signing!Take, SigningJobs, SigningFits, Fits
  <2> HIDE DEF Steps, Writes
  <2> QED
    BY <1>2, <2>2, <2>3, <2>4, <2>5
<1>22. CASE Signing!Crash(t)
  <2>1. job' = [job EXCEPT ![t] = Signing!Idle] /\ UNCHANGED <<account, profile, clients>>
    BY <1>22 DEF Signing!Crash, Signing!Done
  <2>2. Steps(Signing!Idle)
    BY <1>5, <2>1
  <2> HIDE DEF Steps, Writes
  <2> QED
    BY <1>2, <1>4, <2>1, <2>2
<1> QED
  BY <1>8, <1>9, <1>10, <1>11, <1>12, <1>13, <1>14, <1>15, <1>16, <1>17, <1>18, <1>19, <1>20,
     <1>21, <1>22

-----------------------------------------------------------------------------
(* EmployeeAccounts, one call at a time.  SoleInv says of the user and the *)
(* profile that they agree, unless the call under way is between the two   *)
(* saves, and of what that call holds that it is what is stored, so that   *)
(* its saves make them agree again; a call that dies may leave a user with *)
(* an inactive profile, and never the other way about.                     *)

Registering == "register" \in clients.calls
Addressing == "edit_address" \in clients.calls

\* A profile that suits the user of its key.
Suits(k, r) ==
  /\ ~account[k].is_active => ~r.is_active
  /\ clients.faults = {} =>
       /\ account[k].is_active <=> r.is_active
       /\ Addressing \/ r.email_address = account[k].email
Settled(k) == profile[k] # Nil /\ Suits(k, profile[k])

InactiveTogether ==
  \A k \in Signing!Live : ~account[k].is_active => profile[k] # Nil /\ ~profile[k].is_active
OneHolder ==
  Registering \/ \A k, a \in Signing!Live :
                   account[k].email # Nil /\ account[k].email = account[a].email => k = a

BetweenSaves == {"profile", "anonymise", "signal", "save"}
SoleFits(j) ==
  /\ j.call = "name" => Registering \/ Signing!Holders(j.row) = {}
  /\ j.call = "insert" => Registering \/ Signing!Holders(j.row.email) = {}
  /\ j.call = "profile" => account[j.key].is_active /\ account[j.key].email = j.row
  /\ j.call = "save" => Suits(j.key, j.row)
  /\ j.call \in {"check", "user", "signal"} => j.row.copy = profile[j.key]
  /\ j.call = "user" =>
       /\ Registering \/ Signing!Holders(j.row.user.email) \ {j.key} = {}
       /\ j.row.user.is_active <=> account[j.key].is_active
  /\ j.call = "signal" =>
       /\ account[j.key] = j.row.user
       /\ clients.faults = {} => (account[j.key].is_active <=> profile[j.key].is_active)
  /\ j.call = "anonymise" => profile[j.key] = Signing!DeletedProfile

SoleInv ==
  /\ \A t \in Threads : job[t] # Signing!Idle => t \in clients.threads
  /\ InactiveTogether /\ OneHolder
  /\ clients.faults = {} =>
       \A k \in Signing!Live :
         Settled(k) \/ \E t \in Threads : job[t].call \in BetweenSaves /\ job[t].key = k
  /\ \A t \in Threads : SoleFits(job[t])

LEMMA SoleInit ==
  ASSUME Init
  PROVE  SoleInv
<1>1. \A t \in Threads : job[t] = Signing!Idle
  BY DEF Init, Begin, Idle, Signing!Idle
<1>2. Signing!Live = {}
  BY DEF Init, Signing!Start, Signing!Live
<1>3. \A t \in Threads : SoleFits(job[t])
  BY <1>1 DEF SoleFits, Signing!Idle
<1> QED
  BY <1>1, <1>2, <1>3 DEF SoleInv, InactiveTogether, OneHolder

\* Who steps is the only thread with a call.
LEMMA SigningAlone ==
  ASSUME SigningInv, SoleInv, Signing!OneAtATime, NEW t \in Threads,
         \/ Signing!Register(t) \/ Signing!Create(t) \/ Signing!Name(t)
         \/ Signing!Insert(t) \/ Signing!InsertProfile(t) \/ Signing!SignIn(t)
         \/ Signing!SaveProfile(t) \/ Signing!Edit(t) \/ Signing!EditEmail(t)
         \/ Signing!CheckEmail(t) \/ Signing!SaveUser(t) \/ Signing!Signal(t)
         \/ Signing!Delete(t) \/ Signing!MarkInactive(t) \/ Signing!Anonymise(t)
         \/ Signing!Crash(t)
  PROVE  /\ t \in clients.threads
         /\ \A u \in Threads \ {t} : job[u] = Signing!Idle /\ job'[u] = Signing!Idle
<1>1. t \in clients.threads
  <2>1. \/ \E c : Signing!Free(t, c)
        \/ job[t] # Signing!Idle
    BY DEF Signing!Register, Signing!Create, Signing!Name, Signing!Insert, Signing!InsertProfile,
       Signing!SignIn, Signing!SaveProfile, Signing!Edit, Signing!EditEmail, Signing!CheckEmail,
       Signing!SaveUser, Signing!Signal, Signing!Delete, Signing!MarkInactive, Signing!Anonymise,
       Signing!Crash, Signing!At, Signing!Idle
  <2> QED
    BY <2>1 DEF SoleInv, Signing!Free
<1>2. \E j : job' = [job EXCEPT ![t] = j]
  BY DEF Signing!Register, Signing!Create, Signing!Name, Signing!Insert, Signing!InsertProfile,
     Signing!SignIn, Signing!SaveProfile, Signing!Edit, Signing!EditEmail, Signing!CheckEmail,
     Signing!SaveUser, Signing!Signal, Signing!Delete, Signing!MarkInactive, Signing!Anonymise,
     Signing!Crash, Signing!Take, Signing!Done
<1> QED
  BY <1>1, <1>2 DEF SoleInv, SigningInv, Signing!OneAtATime

\* A step of the only thread, when it leaves users and profiles alone and they agree.
LEMMA SoleQuiet ==
  ASSUME SoleInv, UNCHANGED <<account, profile, clients>>, NEW t \in Threads, t \in clients.threads,
         \A u \in Threads \ {t} : job[u] = Signing!Idle /\ job'[u] = Signing!Idle,
         clients.faults # {} \/ job[t].call \notin BetweenSaves,
         SoleFits(job[t])'
  PROVE  SoleInv'
<1>1. Signing!Live' = Signing!Live
  BY DEF Signing!Live
<1>2. InactiveTogether' /\ OneHolder'
  BY <1>1 DEF SoleInv, InactiveTogether, OneHolder, Registering
<1>3. \A k : Settled(k)' <=> Settled(k)
  BY DEF Settled, Suits, Addressing
<1>4. clients.faults = {} => \A k \in Signing!Live : Settled(k)
  BY DEF SoleInv, BetweenSaves, Signing!Idle
<1>5. \A u \in Threads : SoleFits(job[u])'
  BY DEF SoleFits, Signing!Idle
<1>6. \A u \in Threads : job'[u] # Signing!Idle => u \in clients'.threads
  OBVIOUS
<1> QED
  BY <1>1, <1>2, <1>3, <1>4, <1>5, <1>6 DEF SoleInv

\* A step of the only thread that writes the user or the profile of its key.
LEMMA SoleWritten ==
  ASSUME SoleInv, UNCHANGED clients, NEW t \in Threads, t \in clients.threads,
         \A u \in Threads \ {t} : job[u] = Signing!Idle /\ job'[u] = Signing!Idle,
         NEW k, k = job[t].key,
         Signing!Live' = Signing!Live \cup {k},
         \A a \in Signing!Live \ {k} : account'[a] = account[a] /\ profile'[a] = profile[a],
         ~account'[k].is_active => profile'[k] # Nil /\ ~profile'[k].is_active,
         \/ Registering \/ account'[k].email = Nil
         \/ \A a \in Signing!Live \ {k} : account[a].email # account'[k].email,
         \/ clients.faults # {}
         \/ profile'[k] # Nil /\ Suits(k, profile[k])'
         \/ job'[t].call \in BetweenSaves /\ job'[t].key = k,
         SoleFits(job[t])'
  PROVE  SoleInv'
<1>1. InactiveTogether'
  BY DEF SoleInv, InactiveTogether
<1>2. OneHolder'
  BY DEF SoleInv, OneHolder, Registering
<1>3. ASSUME clients.faults = {}, NEW a \in Signing!Live \ {k}
      PROVE  Settled(a)'
  <2>1. Settled(a)
    BY <1>3 DEF SoleInv, BetweenSaves, Signing!Idle
  <2> QED
    BY <2>1 DEF Settled, Suits, Addressing
<1>4. clients.faults = {} =>
        Settled(k)' \/ \E u \in Threads : job'[u].call \in BetweenSaves /\ job'[u].key = k
  BY DEF Settled, Suits
<1>5. \A u \in Threads : SoleFits(job[u])'
  BY DEF SoleFits, Signing!Idle
<1>6. \A u \in Threads : job'[u] # Signing!Idle => u \in clients'.threads
  OBVIOUS
<1> QED
  BY <1>1, <1>2, <1>3, <1>4, <1>5, <1>6 DEF SoleInv

LEMMA SoleStep ==
  ASSUME Signing!AccountConstants, SigningInv, SoleInv, Signing!OneAtATime,
         [Signing!Next]_Signing!vars
  PROVE  SoleInv'
<1>1. CASE UNCHANGED Signing!vars
  BY <1>1 DEF Signing!vars, SoleInv, InactiveTogether, OneHolder, Registering, Signing!Live,
     Settled, Suits, Addressing, SoleFits, Signing!Holders
<1> SUFFICES ASSUME NEW t \in Threads,
                    \/ Signing!Register(t) \/ Signing!Create(t) \/ Signing!Name(t)
                    \/ Signing!Insert(t) \/ Signing!InsertProfile(t) \/ Signing!SignIn(t)
                    \/ Signing!SaveProfile(t) \/ Signing!Edit(t) \/ Signing!EditEmail(t)
                    \/ Signing!CheckEmail(t) \/ Signing!SaveUser(t) \/ Signing!Signal(t)
                    \/ Signing!Delete(t) \/ Signing!MarkInactive(t) \/ Signing!Anonymise(t)
                    \/ Signing!Crash(t)
             PROVE  SoleInv'
  BY <1>1 DEF Signing!Next
<1>2. t \in clients.threads /\ \A u \in Threads \ {t} : job[u] = Signing!Idle /\ job'[u] = Signing!Idle
  BY SigningAlone
<1>3. job \in [Threads -> SigningJobs] /\ SoleFits(job[t])
  BY DEF SigningInv, SoleInv
<1>4. /\ account \in [Accounts -> Signing!Users \cup {Nil}]
      /\ profile \in [Accounts -> Signing!Profiles \cup {Nil}]
      /\ \A k \in Accounts : profile[k] # Nil => k \in Signing!Live
  BY DEF SigningInv, Signing!TypeOK
<1>5. InactiveTogether /\ OneHolder
  BY DEF SoleInv
<1>6. job[t].call \notin BetweenSaves /\ clients.faults = {} => \A k \in Signing!Live : Settled(k)
  BY <1>2 DEF SoleInv, BetweenSaves, Signing!Idle
<1>7. Nil \notin Signing!Users /\ Nil \notin Signing!Profiles /\ Nil \notin Emails /\ Nil \notin Accounts
  BY DEF Signing!AccountConstants
\* Of a user with a profile, the profile suits the user.
<1>8. job[t].call \notin BetweenSaves =>
        \A k \in Accounts : profile[k] # Nil => Suits(k, profile[k])
  BY <1>4, <1>5, <1>6 DEF InactiveTogether, Settled, Suits
<1>9. ASSUME UNCHANGED <<account, profile, clients>>,
             clients.faults # {} \/ job[t].call \notin BetweenSaves, SoleFits(job[t])'
      PROVE  SoleInv'
  BY <1>2, <1>9, SoleQuiet
<1>10. ASSUME job'[t] = Signing!Idle PROVE SoleFits(job[t])'
  BY <1>10 DEF SoleFits, Signing!Idle
<1>11. CASE Signing!Register(t) \/ Signing!Create(t)
  <2>1. job[t].call \notin BetweenSaves /\ UNCHANGED <<account, profile, clients>>
    BY <1>11 DEF Signing!Register, Signing!Create, Signing!Free, Signing!Idle, BetweenSaves
  <2>2. SoleFits(job[t])'
    <3>1. CASE Signing!Register(t)
      <4>1. Registering /\ job'[t].call = "insert"
        BY <3>1, <1>3 DEF Signing!Register, Signing!Free, Registering, Signing!Take
      <4> QED
        BY <4>1, <2>1 DEF SoleFits, Registering
    <3>2. CASE Signing!Create(t)
      <4>1. PICK k \in Accounts, e \in clients.emails :
              /\ Signing!Fresh(k) /\ Signing!Take(t, "name", k, e)
              /\ Signing!Holders(e) \ {k} = {} \/ Signing!Holders(e) = {}
        BY <3>2 DEF Signing!Create, Signing!Taken
      <4>2. Signing!Holders(e) = {}
        BY <4>1 DEF Signing!Fresh, Signing!Holders, Signing!Live
      <4>3. job'[t].call = "name" /\ job'[t].row = e
        BY <1>3, <4>1 DEF Signing!Take
      <4>4. Signing!Holders(e)' = Signing!Holders(e)
        BY <2>1 DEF Signing!Holders, Signing!Live
      <4> QED
        BY <4>2, <4>3, <4>4 DEF SoleFits
    <3> QED
      BY <1>11, <3>1, <3>2
  <2> QED
    BY <1>9, <2>1, <2>2
<1>12. CASE Signing!Name(t)
  <2>1. UNCHANGED <<account, profile, clients>> /\ job[t].call = "name"
    BY <1>12 DEF Signing!Name, Signing!At
  <2>2. job'[t].call = "insert" /\ job'[t].row.email = job[t].row
    BY <1>12, <1>3 DEF Signing!Name, Signing!Take
  <2>3. Registering \/ Signing!Holders(job[t].row) = {}
    BY <1>3, <2>1 DEF SoleFits
  <2>4. SoleFits(job[t])'
    BY <2>1, <2>2, <2>3 DEF SoleFits, Registering, Signing!Holders, Signing!Live
  <2> QED
    BY <1>9, <2>1, <2>4 DEF BetweenSaves
<1>13. CASE Signing!Insert(t)
  <2>1. job[t].call = "insert" /\ UNCHANGED <<profile, clients>> /\ job[t].key \in Accounts
        /\ account[job[t].key] = Nil
    BY <1>13, SigningJob DEF Signing!Insert, Signing!At
  <2>2. CASE Signing!Used(job[t].row.username)
    <3>1. job'[t] = Signing!Idle /\ UNCHANGED account
      BY <1>3, <1>13, <2>2 DEF Signing!Insert, Signing!Done
    <3> QED
      BY <1>9, <1>10, <2>1, <3>1 DEF BetweenSaves
  <2>3. CASE ~Signing!Used(job[t].row.username)
    <3>1. PICK k : k = job[t].key
      OBVIOUS
    <3>2. PICK r : r = job[t].row
      OBVIOUS
    <3> DEFINE i == [username |-> r.username, email |-> r.email, is_active |-> TRUE]
    <3>3. account' = [account EXCEPT ![k] = i] /\ Signing!Take(t, "profile", k, r.email)
      BY <1>13, <2>3, <3>1, <3>2 DEF Signing!Insert
    <3>4. i # Nil
      <4>1. r \in [email : Emails, username : Signing!Usernames]
        BY <2>1, <3>2, SigningJob
      <4>2. i \in Signing!Users
        BY <4>1 DEF Signing!Users
      <4> QED
        BY <1>7, <4>2
    <3>5. account'[k] = i /\ \A a \in Signing!Live \ {k} : account'[a] = account[a]
      BY <1>4, <2>1, <3>1, <3>3 DEF Signing!Live
    <3>6. Signing!Live' = Signing!Live \cup {k}
      BY <1>4, <2>1, <3>1, <3>3, <3>4 DEF Signing!Live
    <3>7. job'[t] = [call |-> "profile", key |-> k, row |-> r.email]
      BY <1>3, <3>3 DEF Signing!Take
    <3>8. SoleFits(job[t])'
      BY <3>5, <3>7 DEF SoleFits
    <3>9. Registering \/ \A a \in Signing!Live \ {k} : account[a].email # account'[k].email
      BY <1>3, <2>1, <3>2, <3>5 DEF SoleFits, Signing!Holders
    <3>10. account'[k].is_active /\ job'[t].call \in BetweenSaves /\ job'[t].key = k
      BY <3>5, <3>7 DEF BetweenSaves
    <3> HIDE DEF i
    <3> QED
      BY <1>2, <2>1, <3>1, <3>5, <3>6, <3>8, <3>9, <3>10, SoleWritten
  <2> QED
    BY <2>2, <2>3
\* A step that writes nothing but a profile that suits its user.
<1>14. ASSUME UNCHANGED <<account, clients>>, NEW k \in Signing!Live, k = job[t].key,
              NEW r \in Signing!Profiles, profile' = [profile EXCEPT ![k] = r],
              ~account[k].is_active => ~r.is_active,
              \/ clients.faults # {} \/ Suits(k, r)
              \/ job'[t].call \in BetweenSaves /\ job'[t].key = k,
              SoleFits(job[t])'
       PROVE  SoleInv'
  <2>1. profile'[k] = r /\ r # Nil /\ \A a \in Signing!Live \ {k} : profile'[a] = profile[a]
    BY <1>4, <1>7, <1>14 DEF Signing!Live
  <2>2. Signing!Live' = Signing!Live \cup {k}
    BY <1>14 DEF Signing!Live
  <2>3. \/ Registering \/ account'[k].email = Nil
        \/ \A a \in Signing!Live \ {k} : account[a].email # account'[k].email
    BY <1>5, <1>14 DEF OneHolder
  <2>4. Suits(k, r) => Suits(k, profile[k])'
    BY <1>14, <2>1 DEF Suits, Addressing
  <2> QED
    BY <1>2, <1>14, <2>1, <2>2, <2>3, <2>4, SoleWritten
<1>15. CASE Signing!InsertProfile(t)
  <2>1. PICK k : k = job[t].key
    OBVIOUS
  <2>2. PICK r : r = [email_address |-> job[t].row, is_active |-> TRUE]
    OBVIOUS
  <2>3. job[t].call = "profile" /\ k \in Signing!Live /\ r \in Signing!Profiles
    BY <1>15, <2>1, <2>2, SigningJob DEF Signing!InsertProfile, Signing!At, Signing!Live, Signing!Profiles
  <2>4. /\ profile' = [profile EXCEPT ![k] = r] /\ UNCHANGED <<account, clients>>
        /\ Signing!Take(t, "save", k, r)
    BY <1>15, <2>1, <2>2 DEF Signing!InsertProfile
  <2>5. Suits(k, r)
    BY <1>3, <2>1, <2>2, <2>3 DEF SoleFits, Suits
  <2>6. job'[t].call = "save" /\ job'[t].key = k /\ job'[t].row = r
    BY <1>3, <2>4 DEF Signing!Take
  <2>7. SoleFits(job[t])'
    BY <2>4, <2>5, <2>6 DEF SoleFits, Suits, Addressing
  <2> QED
    BY <1>14, <2>1, <2>3, <2>4, <2>5, <2>7 DEF Suits
<1>16. CASE Signing!SignIn(t) \/ Signing!Edit(t)
  <2>1. job[t].call \notin BetweenSaves /\ UNCHANGED <<account, profile, clients>>
    BY <1>16 DEF Signing!SignIn, Signing!Edit, Signing!Free, Signing!Idle, BetweenSaves
  <2>2. PICK k \in Accounts : profile[k] # Nil /\
          \/ Signing!Take(t, "save", k, profile[k])
          \/ /\ Addressing
             /\ \E e \in clients.emails :
                  Signing!Take(t, "save", k, [profile[k] EXCEPT !.email_address = e])
    <3>1. CASE Signing!SignIn(t)
      BY <3>1 DEF Signing!SignIn, Signing!Live
    <3>2. CASE Signing!Edit(t)
      BY <3>2 DEF Signing!Edit, Signing!Free, Addressing
    <3> QED
      BY <1>16, <3>1, <3>2
  <2>3. PICK r : /\ r.is_active = profile[k].is_active
                 /\ Addressing \/ r.email_address = profile[k].email_address
                 /\ Signing!Take(t, "save", k, r)
    <3>1. profile[k] \in Signing!Profiles
      BY <1>4, <2>2
    <3>2. \A e : [profile[k] EXCEPT !.email_address = e].is_active = profile[k].is_active
      BY <3>1 DEF Signing!Profiles
    <3> QED
      BY <2>2, <3>2
  <2>4. Suits(k, r)
    BY <1>8, <2>1, <2>2, <2>3 DEF Suits
  <2>5. job'[t].call = "save" /\ job'[t].key = k /\ job'[t].row = r
    BY <1>3, <2>3 DEF Signing!Take
  <2>6. SoleFits(job[t])'
    BY <2>1, <2>4, <2>5 DEF SoleFits, Suits, Addressing
  <2> QED
    BY <1>9, <2>1, <2>6
<1>17. CASE Signing!SaveProfile(t)
  <2>1. PICK k : k = job[t].key
    OBVIOUS
  <2>2. PICK r : r = job[t].row
    OBVIOUS
  <2>3. job[t].call = "save" /\ k \in Signing!Live /\ r \in Signing!Profiles
    BY <1>17, <2>1, <2>2, SigningJob DEF Signing!SaveProfile, Signing!At, Signing!Live
  <2>4. /\ profile' = [profile EXCEPT ![k] = r] /\ UNCHANGED <<account, clients>>
        /\ job'[t] = Signing!Idle
    BY <1>3, <1>17, <2>1, <2>2 DEF Signing!SaveProfile, Signing!Done
  <2>5. Suits(k, r)
    BY <1>3, <2>1, <2>2, <2>3 DEF SoleFits
  <2>6. SoleFits(job[t])'
    BY <1>10, <2>4
  <2> QED
    BY <1>14, <2>1, <2>3, <2>4, <2>5, <2>6 DEF Suits
<1>18. CASE Signing!EditEmail(t)
  <2>1. job[t].call \notin BetweenSaves /\ UNCHANGED <<account, profile, clients>>
    BY <1>18 DEF Signing!EditEmail, Signing!Free, Signing!Idle, BetweenSaves
  <2>2. PICK k \in Accounts : \E e \in clients.emails :
          profile[k] # Nil /\ Signing!Take(t, "check", k, [email |-> e, copy |-> profile[k]])
    BY <1>18 DEF Signing!EditEmail
  <2>3. job'[t].call = "check" /\ job'[t].key = k /\ job'[t].row.copy = profile[k]
    BY <1>3, <2>2 DEF Signing!Take
  <2>4. SoleFits(job[t])'
    BY <2>1, <2>3 DEF SoleFits
  <2> QED
    BY <1>9, <2>1, <2>4
<1>19. CASE Signing!CheckEmail(t)
  <2>1. job[t].call = "check" /\ UNCHANGED <<account, profile, clients>> /\ job[t].key \in Accounts
        /\ account[job[t].key] \in Signing!Users
    BY <1>4, <1>19, SigningJob DEF Signing!CheckEmail, Signing!At
  <2>2. CASE Signing!Taken(job[t].row.email, job[t].key)
    BY <1>3, <1>9, <1>10, <1>19, <2>1, <2>2 DEF Signing!CheckEmail, Signing!Done, BetweenSaves
  <2>3. CASE ~Signing!Taken(job[t].row.email, job[t].key)
    <3>1. PICK k : k = job[t].key
      OBVIOUS
    <3>2. PICK r : r = job[t].row
      OBVIOUS
    <3>3. PICK i : i = [account[k] EXCEPT !.email = r.email]
      OBVIOUS
    <3>4. i.email = r.email /\ i.is_active = account[k].is_active
      BY <2>1, <3>1, <3>3 DEF Signing!Users
    <3>5. job'[t] = [call |-> "user", key |-> k, row |-> [user |-> i, copy |-> r.copy]]
      BY <1>3, <1>19, <2>3, <3>1, <3>2, <3>3 DEF Signing!CheckEmail, Signing!Take
    <3>6. r.copy = profile[k]
      BY <1>3, <2>1, <3>1, <3>2 DEF SoleFits
    <3>7. Signing!Holders(i.email) \ {k} = {}
      BY <2>3, <3>1, <3>2, <3>4 DEF Signing!Taken
    <3>8. (Signing!Holders(i.email) \ {k} = {})'
      BY <2>1, <3>7 DEF Signing!Holders, Signing!Live
    <3>9. /\ job'[t].call = "user" /\ job'[t].key = k /\ job'[t].row.copy = r.copy
          /\ job'[t].row.user = i
      BY <3>5
    <3>10. SoleFits(job[t])'
      BY <2>1, <3>4, <3>6, <3>8, <3>9 DEF SoleFits
    <3> QED
      BY <1>9, <2>1, <3>10 DEF BetweenSaves
  <2> QED
    BY <2>2, <2>3
<1>20. CASE Signing!SaveUser(t)
  <2>1. PICK k : k = job[t].key
    OBVIOUS
  <2>2. PICK r : r = job[t].row
    OBVIOUS
  <2>3. /\ job[t].call = "user" /\ UNCHANGED <<profile, clients>> /\ k \in Accounts
        /\ account[k] # Nil /\ r.user \in Signing!Users /\ k \in Signing!Live
    BY <1>20, <2>1, <2>2, SigningJob DEF Signing!SaveUser, Signing!At, Renaming, Signing!Live
  <2>4. /\ r.copy = profile[k] /\ (r.user.is_active <=> account[k].is_active)
        /\ Registering \/ Signing!Holders(r.user.email) \ {k} = {}
    BY <1>3, <2>1, <2>2, <2>3 DEF SoleFits
  <2>5. CASE job'[t] = Signing!Idle /\ UNCHANGED account
    BY <1>9, <1>10, <2>3, <2>5 DEF BetweenSaves
  <2>6. CASE account' = [account EXCEPT ![k] = r.user] /\ Signing!Take(t, "signal", k, r)
    <3>1. account'[k] = r.user /\ \A a \in Signing!Live \ {k} : account'[a] = account[a]
      BY <1>4, <2>3, <2>6 DEF Signing!Live
    <3>2. Signing!Live' = Signing!Live \cup {k}
      BY <1>4, <1>7, <2>3, <2>6 DEF Signing!Live
    <3>3. job'[t].call = "signal" /\ job'[t].key = k /\ job'[t].row = r
      BY <1>3, <2>6 DEF Signing!Take
    <3>4. clients.faults = {} => (account[k].is_active <=> profile[k].is_active)
      BY <1>6, <2>3 DEF Settled, Suits, BetweenSaves
    <3>5. SoleFits(job[t])'
      BY <2>3, <2>4, <3>1, <3>3, <3>4 DEF SoleFits
    <3>6. ~account'[k].is_active => profile'[k] # Nil /\ ~profile'[k].is_active
      BY <1>5, <2>3, <2>4, <3>1 DEF InactiveTogether
    <3>7. Registering \/ \A a \in Signing!Live \ {k} : account[a].email # account'[k].email
      BY <2>4, <3>1 DEF Signing!Holders
    <3> QED
      BY <1>2, <2>1, <2>3, <3>1, <3>2, <3>3, <3>5, <3>6, <3>7, SoleWritten DEF BetweenSaves
  <2>7. \/ job'[t] = Signing!Idle /\ UNCHANGED account
        \/ account' = [account EXCEPT ![k] = r.user] /\ Signing!Take(t, "signal", k, r)
    BY <1>3, <1>20, <2>1, <2>2 DEF Signing!SaveUser, Signing!Done
  <2> QED
    BY <2>5, <2>6, <2>7
<1>21. CASE Signing!Signal(t)
  <2>1. PICK k : k = job[t].key
    OBVIOUS
  <2>2. PICK r : r = job[t].row
    OBVIOUS
  <2>3. /\ job[t].call = "signal" /\ k \in Signing!Live /\ r.copy \in Signing!Profiles
        /\ r.user \in Signing!Users
    BY <1>21, <2>1, <2>2, SigningJob DEF Signing!Signal, Signing!At, Renaming, Signing!Live
  <2>4. /\ profile' = [profile EXCEPT ![k] = r.copy] /\ UNCHANGED <<account, clients>>
        /\ Signing!Take(t, "save", k, Signing!Addressed(r))
    BY <1>21, <2>1, <2>2 DEF Signing!Signal
  <2>5. /\ r.copy = profile[k] /\ account[k] = r.user
        /\ clients.faults = {} => (account[k].is_active <=> profile[k].is_active)
    BY <1>3, <2>1, <2>2, <2>3 DEF SoleFits
  <2>6. PICK i : i = Signing!Addressed(r)
    OBVIOUS
  <2>7. i.email_address = account[k].email /\ i.is_active = profile[k].is_active
    BY <2>3, <2>5, <2>6 DEF Signing!Addressed, Signing!Profiles
  <2>8. ~account[k].is_active => ~profile[k].is_active
    BY <1>5, <2>3 DEF InactiveTogether
  <2>9. Suits(k, i)
    BY <2>5, <2>7, <2>8 DEF Suits
  <2>10. job'[t].call = "save" /\ job'[t].key = k /\ job'[t].row = i
    BY <1>3, <2>4, <2>6 DEF Signing!Take
  <2>11. SoleFits(job[t])'
    BY <2>4, <2>9, <2>10 DEF SoleFits, Suits, Addressing
  <2> QED
    BY <1>14, <2>1, <2>3, <2>4, <2>5, <2>8, <2>10, <2>11 DEF BetweenSaves
<1>22. CASE Signing!Delete(t)
  <2>1. job[t].call \notin BetweenSaves /\ UNCHANGED <<account, profile, clients>>
    BY <1>22 DEF Signing!Delete, Signing!Free, Signing!Idle, BetweenSaves
  <2>2. job'[t].call = "mark"
    BY <1>3, <1>22 DEF Signing!Delete, Signing!Take
  <2>3. SoleFits(job[t])'
    BY <2>2 DEF SoleFits
  <2> QED
    BY <1>9, <2>1, <2>3
<1>23. CASE Signing!MarkInactive(t)
  <2>1. PICK k : k = job[t].key
    OBVIOUS
  <2>2. job[t].call = "mark" /\ k \in Signing!Live
    BY <1>23, <2>1, SigningJob DEF Signing!MarkInactive, Signing!At, Signing!Live
  <2>3. /\ profile' = [profile EXCEPT ![k] = Signing!DeletedProfile] /\ UNCHANGED <<account, clients>>
        /\ Signing!Take(t, "anonymise", k, Nil)
    BY <1>23, <2>1 DEF Signing!MarkInactive
  <2>4. Signing!DeletedProfile \in Signing!Profiles /\ ~Signing!DeletedProfile.is_active
    BY DEF Signing!DeletedProfile, Signing!Profiles
  <2>5. job'[t].call = "anonymise" /\ job'[t].key = k
    BY <1>3, <2>3 DEF Signing!Take
  <2>6. profile'[k] = Signing!DeletedProfile
    BY <1>4, <2>2, <2>3 DEF Signing!Live
  <2>7. SoleFits(job[t])'
    BY <2>5, <2>6 DEF SoleFits, Signing!DeletedProfile
  <2> QED
    BY <1>14, <2>1, <2>2, <2>3, <2>4, <2>5, <2>7 DEF BetweenSaves
<1>24. CASE Signing!Anonymise(t)
  <2>1. PICK k : k = job[t].key
    OBVIOUS
  <2>2. job[t].call = "anonymise" /\ k \in Accounts /\ k \in Signing!Live
    BY <1>24, <2>1, SigningJob DEF Signing!Anonymise, Signing!At, Signing!Live
  <2>3. /\ account' = [account EXCEPT ![k] = Signing!Anonymous] /\ UNCHANGED <<profile, clients>>
        /\ Signing!Take(t, "save", k, Signing!DeletedProfile)
    BY <1>24, <2>1 DEF Signing!Anonymise
  <2>4. Signing!Anonymous.email = Nil /\ ~Signing!Anonymous.is_active /\ Signing!Anonymous # Nil
    <3>1. Signing!Anonymous \in Signing!Users
      BY DEF Signing!Anonymous, Signing!Users
    <3> QED
      BY <1>7, <3>1 DEF Signing!Anonymous
  <2>5. /\ Signing!DeletedProfile.email_address = Nil /\ ~Signing!DeletedProfile.is_active
        /\ Signing!DeletedProfile # Nil
    <3>1. Signing!DeletedProfile \in Signing!Profiles
      BY DEF Signing!DeletedProfile, Signing!Profiles
    <3> QED
      BY <1>7, <3>1 DEF Signing!DeletedProfile
  <2>6. profile[k] = Signing!DeletedProfile
    BY <1>3, <2>1, <2>2 DEF SoleFits
  <2>7. account'[k] = Signing!Anonymous /\ \A a \in Signing!Live \ {k} : account'[a] = account[a]
    BY <1>4, <2>2, <2>3 DEF Signing!Live
  <2>8. Signing!Live' = Signing!Live \cup {k}
    BY <1>4, <2>2, <2>3, <2>4 DEF Signing!Live
  <2>9. job'[t].call = "save" /\ job'[t].key = k /\ job'[t].row = Signing!DeletedProfile
    BY <1>3, <2>3 DEF Signing!Take
  <2>10. SoleFits(job[t])'
    BY <2>4, <2>5, <2>7, <2>9 DEF SoleFits, Suits
  <2>11. ~account'[k].is_active => profile'[k] # Nil /\ ~profile'[k].is_active
    BY <2>3, <2>5, <2>6
  <2> QED
    BY <1>2, <2>1, <2>3, <2>4, <2>7, <2>8, <2>9, <2>10, <2>11, SoleWritten DEF BetweenSaves
<1>25. CASE Signing!Crash(t)
  <2>1. UNCHANGED <<account, profile, clients>> /\ clients.faults # {} /\ job'[t] = Signing!Idle
    BY <1>3, <1>25 DEF Signing!Crash, Signing!Fault, Signing!Done
  <2> QED
    BY <1>9, <1>10, <2>1
<1> QED
  BY <1>11, <1>12, <1>13, <1>15, <1>16, <1>17, <1>18, <1>19, <1>20, <1>21, <1>22, <1>23, <1>24, <1>25

\* What AccountPromises says of accounts.
LEMMA AccountsKept ==
  ASSUME SigningInv, Signing!OneAtATime => SoleInv
  PROVE  /\ Signing!TypeOK /\ Signing!OneAccountPerEmail
         /\ Signing!DeactivatedTogether /\ Signing!AddressFollowsAccount
<1>1. Signing!OneAccountPerEmail
  <2>1. SUFFICES ASSUME SoleInv, ~Registering, NEW e \in Emails, Nil \notin Emails
                 PROVE  Signing!Cardinality(Signing!Holders(e)) <= 1
    BY ProvedConstants DEF Signing!OneAccountPerEmail, Registering, Signing!AccountConstants
  <2>2. \A k, a \in Signing!Holders(e) : k = a
    BY <2>1 DEF SoleInv, OneHolder, Signing!Holders
  <2>3. Signing!Holders(e) = {} \/ \E k : Signing!Holders(e) = {k}
    BY <2>2
  <2>4. Cardinality(Signing!Holders(e)) \in {0, 1}
    BY <2>3, FS_EmptySet, FS_Singleton
  <2> QED
    BY <2>4, SameCounting
<1>2. ASSUME Signing!OneAtATime, clients.faults = {}, Signing!AllIdle, NEW k \in Signing!Live
      PROVE  Settled(k)
  BY <1>2 DEF SoleInv, Signing!AllIdle, Signing!Idle, BetweenSaves
<1>3. Signing!DeactivatedTogether
  BY <1>2 DEF Signing!DeactivatedTogether, SoleInv, InactiveTogether, Settled, Suits
<1>4. Signing!AddressFollowsAccount
  BY <1>2 DEF Signing!AddressFollowsAccount, Settled, Suits, Addressing
<1> QED
  BY <1>1, <1>3, <1>4 DEF SigningInv

-----------------------------------------------------------------------------
(* AssistantTurns: what is in the session, on the screen and in the turns  *)
(* are proposals that were staged.                                         *)

TurnRows == Assistant!Pending \cup {Nil}
Turns == [call : {"none", "turn", "execute", "clear", "answer"},
          key : {Nil, "form", "reply", "agent"}, row : TurnRows]
Known(S, r) == r # Nil => r.proposal \in S
TurnFits(S, j) ==
  /\ j \in Turns /\ Known(S, j.row)
  /\ j.call = "execute" => j.row # Nil
  /\ j.call = "none" => j = Assistant!Idle

TurnJobs ==
  /\ job \in [Threads -> Turns]
  /\ \A t \in Threads : /\ TurnFits(staged, job[t])
                        /\ job[t].call # "none" => t \in clients.threads
TurnsInv ==
  /\ Assistant!TypeOK /\ TurnJobs
  /\ Known(staged, pending) /\ Known(staged, shown)
  /\ \A p \in Proposals : ran[p] > 0 => p \in staged

LEMMA AssistantInit ==
  ASSUME Assistant!AssistantConstants, Assistant!Start, Begin
  PROVE  TurnsInv
BY DEF TurnsInv, TurnJobs, TurnFits, Turns, TurnRows, Known, Assistant!TypeOK, Assistant!Start,
  Assistant!AssistantConstants, Assistant!Idle, Begin, Idle

\* A turn takes its next stage.
LEMMA TurnTaken ==
  ASSUME TurnJobs, NEW t \in Threads, NEW j, TurnFits(staged', j),
         j.call # "none" => t \in clients.threads,
         job' = [job EXCEPT ![t] = j], clients' = clients, staged \subseteq staged'
  PROVE  TurnJobs'
<1> USE DEF TurnJobs, TurnFits
<1>1. job' \in [Threads -> Turns]
  OBVIOUS
<1>2. ASSUME NEW u \in Threads
      PROVE  /\ TurnFits(staged, job[u])'
             /\ (job[u].call # "none" => u \in clients.threads)'
  <2>1. CASE u = t
    BY <2>1
  <2>2. CASE u # t
    <3>1. job'[u] = job[u]
      BY <2>2
    <3>2. TurnFits(staged', job[u])
      BY DEF Known
    <3> QED
      BY <3>1, <3>2
  <2> QED
    BY <2>1, <2>2
<1> QED
  BY <1>1, <1>2

LEMMA RowsOfTurns ==
  ASSUME NEW p \in Assistant!Pending
  PROVE  /\ p.proposal \in Proposals /\ p.complete \in BOOLEAN /\ p.expired \in BOOLEAN
         /\ \A b \in BOOLEAN : /\ [p EXCEPT !.complete = b] \in Assistant!Pending
                               /\ [p EXCEPT !.complete = b].proposal = p.proposal
                               /\ [p EXCEPT !.expired = b] \in Assistant!Pending
                               /\ [p EXCEPT !.expired = b].proposal = p.proposal
BY DEF Assistant!Pending

LEMMA TurnsOf ==
  ASSUME NEW S, NEW c \in {"turn", "execute", "clear", "answer"},
         NEW k \in {Nil, "form", "reply", "agent"}, NEW r \in TurnRows,
         Known(S, r), c = "execute" => r # Nil
  PROVE  LET j == [call |-> c, key |-> k, row |-> r] IN
           TurnFits(S, j) /\ j.call = c /\ j.key = k /\ j.row = r
BY DEF TurnFits, Turns, TurnRows

LEMMA TurnMoves ==
  ASSUME TurnJobs, NEW t \in Threads, t \in clients.threads,
         NEW c \in {"turn", "execute", "clear", "answer"},
         NEW k \in {Nil, "form", "reply", "agent"}, NEW r \in TurnRows,
         Known(staged', r), c = "execute" => r # Nil, Assistant!Take(t, c, k, r),
         clients' = clients, staged \subseteq staged'
  PROVE  TurnJobs'
<1> DEFINE j == [call |-> c, key |-> k, row |-> r]
<1>1. job' = [job EXCEPT ![t] = j]
  BY DEF Assistant!Take
<1>2. TurnFits(staged', j)
  BY TurnsOf
<1> QED
  BY <1>1, <1>2, TurnTaken

LEMMA TurnEnds ==
  ASSUME TurnJobs, NEW t \in Threads, Assistant!Done(t), clients' = clients, staged' = staged
  PROVE  TurnJobs'
<1>1. TurnFits(staged', Assistant!Idle) /\ Assistant!Idle.call = "none"
  BY DEF TurnFits, Turns, TurnRows, Known, Assistant!Idle
<1> QED
  BY <1>1, TurnTaken DEF Assistant!Done

LEMMA TurnGoesOn ==
  ASSUME TurnJobs, NEW t \in Threads, t \in clients.threads, NEW r \in TurnRows,
         Known(staged, r), Assistant!Continue(t, r), clients' = clients, staged' = staged
  PROVE  TurnJobs'
BY TurnMoves DEF Assistant!Continue

\* Run, called with the action that is pending.
LEMMA RunTurn ==
  ASSUME NEW t \in Threads, NEW p \in Assistant!Pending,
         NEW by \in {"form", "reply", "agent"}, Assistant!Run(t, p, by)
  PROVE  \E r \in Assistant!Pending :
           /\ r.proposal = p.proposal
           /\ job' = [job EXCEPT ![t] = [call |-> "execute", key |-> by, row |-> r]]
<1>1. PICK full \in {p.complete, p.complete \/ by = "form"} :
        Assistant!Take(t, "execute", by, [p EXCEPT !.complete = full])
  BY DEF Assistant!Run
<1>2. full \in BOOLEAN
  BY RowsOfTurns
<1> QED
  BY <1>1, <1>2, RowsOfTurns DEF Assistant!Take

LEMMA TurnTypes ==
  ASSUME TurnsInv, NEW t \in Threads, Assistant!Turn(t) PROVE TurnsInv'
<1> USE DEF TurnsInv, Assistant!TypeOK
<1>1. PICK c \in {"confirm", "yes", "no", "message"} :
        /\ Assistant!Free(t, c)
        /\ Assistant!Agrees(c)
        /\ \/ /\ c \in {"confirm", "yes"} /\ Assistant!Open(pending)
              /\ Assistant!Run(t, pending, IF c = "confirm" THEN "form" ELSE "reply")
              /\ UNCHANGED <<pending, over>>
           \/ /\ c = "confirm" /\ ~Assistant!Open(pending)
              /\ IF pending = Nil THEN UNCHANGED <<pending, over>> ELSE Assistant!Drop(pending)
              /\ Assistant!Done(t)
           \/ /\ c = "no" /\ Assistant!Open(pending)
              /\ Assistant!Drop(pending)
              /\ Assistant!Take(t, "answer", Nil, Nil)
           \/ /\ c = "message" \/ (c \in {"yes", "no"} /\ ~Assistant!Open(pending))
              /\ Assistant!Take(t, "turn", Nil, pending)
              /\ UNCHANGED <<pending, over>>
  BY DEF Assistant!Turn
<1>2. UNCHANGED <<staged, ran, shown, clients>>
  BY DEF Assistant!Turn
<1>3. t \in clients.threads
  BY <1>1 DEF Assistant!Free
<1>4. agreed' \subseteq staged
  BY <1>1 DEF Assistant!Agrees, Known
<1>5. pending' \in {pending, Nil} /\ over' \subseteq staged
  BY <1>1 DEF Assistant!Drop, Assistant!Open, Known
<1>6. TurnJobs'
  <2>1. ASSUME pending # Nil, NEW by \in {"form", "reply"}, Assistant!Run(t, pending, by)
        PROVE  TurnJobs'
    <3>1. PICK r \in Assistant!Pending :
            /\ r.proposal = pending.proposal
            /\ job' = [job EXCEPT ![t] = [call |-> "execute", key |-> by, row |-> r]]
      BY <2>1, RunTurn
    <3>2. Known(staged, r)
      BY <2>1, <3>1 DEF Known
    <3>3. r # Nil
      BY ProvedConstants DEF Assistant!AssistantConstants
    <3> QED
      BY <1>2, <1>3, <2>1, <3>1, <3>2, <3>3, TurnMoves DEF TurnRows, Assistant!Take
  <2>2. CASE Assistant!Done(t)
    BY <1>2, <2>2, TurnEnds
  <2>3. CASE Assistant!Take(t, "answer", Nil, Nil)
    BY <1>2, <1>3, <2>3, TurnMoves DEF TurnRows, Known
  <2>4. CASE Assistant!Take(t, "turn", Nil, pending)
    BY <1>2, <1>3, <2>4, TurnMoves DEF TurnRows
  <2> QED
    BY <1>1, <2>1, <2>2, <2>3, <2>4 DEF Assistant!Open
<1> QED
  BY <1>2, <1>4, <1>5, <1>6 DEF Known

LEMMA StageTypes ==
  ASSUME TurnsInv, NEW t \in Threads, Assistant!Stage(t) PROVE TurnsInv'
<1> USE DEF TurnsInv, Assistant!TypeOK
<1>1. PICK p \in Proposals \ staged, full \in BOOLEAN :
        LET row == [proposal |-> p, complete |-> full, expired |-> FALSE] IN
          /\ staged' = staged \cup {p} /\ pending' = row /\ Assistant!Take(t, "turn", Nil, row)
  BY DEF Assistant!Stage
<1> DEFINE row == [proposal |-> p, complete |-> full, expired |-> FALSE]
<1>2. row \in Assistant!Pending /\ row.proposal = p
  BY DEF Assistant!Pending
<1>3. UNCHANGED <<ran, shown, agreed, over, clients>> /\ t \in clients.threads
  BY DEF Assistant!Stage, Assistant!At, TurnJobs
<1>4. TurnJobs'
  <2>1. Known(staged', row)
    BY <1>1, <1>2 DEF Known
  <2> QED
    BY <1>1, <1>2, <1>3, <2>1, TurnMoves DEF TurnRows
<1> QED
  BY <1>1, <1>2, <1>3, <1>4 DEF Known

LEMMA AgentTypes ==
  ASSUME TurnsInv, NEW t \in Threads, Assistant!AgentConfirm(t) \/ Assistant!AgentCancel(t)
  PROVE  TurnsInv'
<1> USE DEF TurnsInv, Assistant!TypeOK
<1>1. UNCHANGED <<staged, ran, shown, agreed, clients>> /\ t \in clients.threads /\ pending # Nil
  BY DEF Assistant!AgentConfirm, Assistant!AgentCancel, Assistant!At, TurnJobs
<1>2. CASE Assistant!Drop(pending) /\ Assistant!Take(t, "turn", Nil, Nil)
  <2>1. TurnJobs'
    BY <1>1, <1>2, TurnMoves DEF TurnRows, Known
  <2> QED
    BY <1>1, <1>2, <2>1 DEF Known, Assistant!Drop
<1>3. CASE Assistant!Run(t, pending, "agent") /\ UNCHANGED <<pending, over>>
  <2>1. PICK r \in Assistant!Pending :
          /\ r.proposal = pending.proposal
          /\ job' = [job EXCEPT ![t] = [call |-> "execute", key |-> "agent", row |-> r]]
    BY <1>1, <1>3, RunTurn DEF Known
  <2>2. Known(staged, r) /\ r # Nil
    BY <1>1, <2>1, ProvedConstants DEF Known, Assistant!AssistantConstants
  <2>3. TurnJobs'
    BY <1>1, <2>1, <2>2, TurnMoves DEF TurnRows, Assistant!Take
  <2> QED
    BY <1>1, <1>3, <2>3 DEF Known
<1> QED
  BY <1>2, <1>3 DEF Assistant!AgentConfirm, Assistant!AgentCancel

LEMMA ToolTypes ==
  ASSUME TurnsInv, NEW t \in Threads,
         Assistant!Refill(t) \/ Assistant!Refuse(t) \/ Assistant!Execute(t) \/ Assistant!Clear(t)
  PROVE  TurnsInv'
<1> USE DEF TurnsInv, Assistant!TypeOK
<1>1. UNCHANGED <<staged, shown, agreed, over, clients>> /\ t \in clients.threads
  BY DEF Assistant!Refill, Assistant!Refuse, Assistant!Execute, Assistant!Clear, Assistant!At,
    Assistant!data, TurnJobs
<1>2. /\ job[t].row \in TurnRows /\ Known(staged, job[t].row)
      /\ job[t].key \in {Nil, "form", "reply", "agent"}
      /\ job[t].call = "execute" => job[t].row # Nil
  BY DEF TurnJobs, TurnFits, Turns
<1>3. CASE Assistant!Refill(t)
  <2>1. TurnJobs'
    BY <1>1, <1>2, <1>3, TurnGoesOn DEF Assistant!Refill
  <2>2. pending' \in Assistant!Pending /\ pending'.proposal = job[t].row.proposal
    BY <1>2, <1>3, RowsOfTurns DEF Assistant!Refill, Assistant!At, TurnRows
  <2> QED
    BY <1>1, <1>2, <1>3, <2>1, <2>2 DEF Assistant!Refill, Assistant!At, Known
<1>4. CASE Assistant!Refuse(t)
  <2>1. TurnJobs'
    BY <1>1, <1>2, <1>4, TurnGoesOn DEF Assistant!Refuse
  <2> QED
    BY <1>1, <1>4, <2>1 DEF Assistant!Refuse, Assistant!data, Known
<1>5. CASE Assistant!Execute(t)
  <2> DEFINE p == job[t].row.proposal
  <2>1. p \in Proposals /\ p \in staged
    BY <1>2, <1>5 DEF Assistant!Execute, Assistant!At, Known
  <2>2. /\ ran[p] < MaxRuns /\ ran' = [ran EXCEPT ![p] = @ + 1]
        /\ Assistant!Take(t, "clear", job[t].key, Nil) /\ UNCHANGED pending
    BY <1>5 DEF Assistant!Execute
  <2>3. ran[p] + 1 \in 0..MaxRuns
    BY <2>1, <2>2, ProvedConstants DEF Assistant!AssistantConstants
  <2>4. TurnJobs'
    BY <1>1, <1>2, <2>2, TurnMoves DEF TurnRows, Known
  <2>5. ran' \in [Proposals -> 0..MaxRuns] /\ \A q \in Proposals : ran'[q] > 0 => q \in staged
    BY <2>1, <2>2, <2>3
  <2> QED
    BY <1>1, <2>2, <2>4, <2>5 DEF Known
<1>6. CASE Assistant!Clear(t)
  <2>1. TurnJobs'
    BY <1>1, <1>6, TurnGoesOn DEF Assistant!Clear, TurnRows, Known
  <2> QED
    BY <1>1, <1>6, <2>1 DEF Assistant!Clear, Known
<1> QED
  BY <1>3, <1>4, <1>5, <1>6

LEMMA TurnsInvStep ==
  ASSUME TurnsInv, [Assistant!Next]_Assistant!vars PROVE TurnsInv'
<1>1. CASE UNCHANGED Assistant!vars
  BY <1>1 DEF TurnsInv, TurnJobs, TurnFits, Turns, TurnRows, Known, Assistant!TypeOK,
    Assistant!vars, Assistant!data
<1>2. CASE Assistant!Expire
  <2>1. UNCHANGED <<staged, ran, shown, agreed, over, job, clients>> /\ pending # Nil
    BY <1>2 DEF Assistant!Expire, Assistant!Open
  <2>2. pending' \in Assistant!Pending /\ pending'.proposal = pending.proposal
    BY <1>2, <2>1, RowsOfTurns DEF Assistant!Expire, TurnsInv, Assistant!TypeOK
  <2>3. TurnJobs'
    BY <2>1 DEF TurnsInv, TurnJobs, TurnFits, Known
  <2> QED
    BY <2>1, <2>2, <2>3 DEF TurnsInv, Assistant!TypeOK, Known
<1>3. ASSUME NEW t \in Threads, Assistant!Answer(t) \/ Assistant!Crash(t) PROVE TurnsInv'
  <2>1. /\ UNCHANGED <<pending, staged, ran, agreed, over, clients>> /\ Assistant!Done(t)
        /\ shown' \in {shown, job[t].row}
    BY <1>3 DEF Assistant!Answer, Assistant!Crash, Assistant!data
  <2>2. TurnJobs'
    BY <2>1, TurnEnds DEF TurnsInv
  <2>3. job[t].row \in TurnRows /\ Known(staged, job[t].row)
    BY DEF TurnsInv, TurnJobs, TurnFits, Turns
  <2> QED
    BY <2>1, <2>2, <2>3 DEF TurnsInv, Assistant!TypeOK, TurnRows, Known
<1> QED
  BY <1>1, <1>2, <1>3, TurnTypes, StageTypes, AgentTypes, ToolTypes DEF Assistant!Next

-----------------------------------------------------------------------------
(* One turn at a time: what waits or runs was neither cancelled nor found  *)
(* expired.  Without faults, what waits or is about to run has not run, or *)
(* is about to be cleared; and what waits is what the turn, or the user    *)
(* between turns, last saw.                                                *)

NotOver ==
  /\ pending # Nil => pending.proposal \notin over
  /\ \A t \in Threads : job[t].call = "execute" => job[t].row.proposal \notin over

NotRun ==
  /\ \A p \in Proposals : ran[p] <= 1
  /\ \A t \in Threads : job[t].call = "execute" => ran[job[t].row.proposal] = 0
  /\ pending # Nil /\ ran[pending.proposal] > 0 => \E t \in Threads : job[t].call = "clear"

Tells(r, p) == p # Nil => r # Nil /\ r.proposal = p.proposal
Seen ==
  /\ \A p \in Proposals : ran[p] > 0 => p \in agreed
  /\ \A t \in Threads :
       /\ job[t].call = "execute" => job[t].row.proposal \in agreed
       /\ job[t].call \in {"turn", "execute", "answer"} => Tells(job[t].row, pending)
  /\ (\A t \in Threads : job[t].call = "none") => Tells(shown, pending)

TurnsSerial ==
  /\ NotOver
  /\ clients.faults = {} => NotRun
  /\ clients.faults = {} /\ "agent_confirm" \notin clients.calls => Seen

LEMMA SerialInit ==
  ASSUME Assistant!AssistantConstants, Assistant!Start, Begin
  PROVE  TurnsSerial
BY DEF TurnsSerial, NotOver, NotRun, Seen, Tells, Assistant!Start, Begin, Idle,
  Assistant!AssistantConstants

\* Nobody but the thread of a turn is in one.
LEMMA OthersIdle ==
  ASSUME TurnsInv, Assistant!OneAtATime, NEW t \in Threads, t \in clients.threads,
         NEW j, job' = [job EXCEPT ![t] = j]
  PROVE  /\ job'[t] = j
         /\ \A u \in Threads : u # t => job[u].call = "none" /\ job'[u].call = "none"
BY DEF TurnsInv, TurnJobs, Assistant!OneAtATime

\* What the next stage has to be for the three to hold.
LEMMA SerialStage ==
  ASSUME TurnsInv, Assistant!OneAtATime, NEW t \in Threads, t \in clients.threads,
         NEW j, job' = [job EXCEPT ![t] = j], clients' = clients
  PROVE  /\ /\ pending' # Nil => pending'.proposal \notin over'
            /\ j.call = "execute" => j.row.proposal \notin over'
            => NotOver'
         /\ /\ \A p \in Proposals : ran'[p] <= 1
            /\ j.call = "execute" => ran'[j.row.proposal] = 0
            /\ pending' # Nil => ran'[pending'.proposal] = 0 \/ j.call = "clear"
            /\ pending' \in Assistant!Pending \cup {Nil} /\ ran' \in [Proposals -> 0..MaxRuns]
            => NotRun'
         /\ /\ \A p \in Proposals : ran'[p] > 0 => p \in agreed'
            /\ j.call = "execute" => j.row.proposal \in agreed'
            /\ j.call \in {"turn", "execute", "answer"} => Tells(j.row, pending')
            /\ j.call = "none" => Tells(shown', pending')
            => Seen'
<1>1. job'[t] = j /\ \A u \in Threads : u # t => job'[u].call = "none"
  BY OthersIdle
<1>2. ASSUME NEW p \in Assistant!Pending, ran' \in [Proposals -> 0..MaxRuns] 
      PROVE  ran'[p.proposal] = 0 <=> ~(ran'[p.proposal] > 0)
  BY <1>2, RowsOfTurns, ProvedConstants DEF Assistant!AssistantConstants
<1> QED
  BY <1>1, <1>2 DEF NotOver, NotRun, Seen

\* In another stage than the clearing, what waits has not run.
LEMMA WaitingNotRun ==
  ASSUME TurnsInv, Assistant!OneAtATime, NotRun, NEW t \in Threads, t \in clients.threads,
         job[t].call # "clear", pending # Nil
  PROVE  ran[pending.proposal] = 0
<1>1. \A u \in Threads : job[u].call # "clear"
  BY DEF TurnsInv, TurnJobs, Assistant!OneAtATime
<1>2. pending.proposal \in Proposals
  BY RowsOfTurns DEF TurnsInv, Assistant!TypeOK
<1> QED
  BY <1>1, <1>2, ProvedConstants DEF NotRun, TurnsInv, Assistant!TypeOK, Assistant!AssistantConstants

LEMMA TurnSerial ==
  ASSUME TurnsInv, TurnsInv', Assistant!OneAtATime, TurnsSerial, NEW t \in Threads,
         Assistant!Turn(t)
  PROVE  TurnsSerial'
<1>1. PICK c \in {"confirm", "yes", "no", "message"} :
        /\ Assistant!Free(t, c)
        /\ Assistant!Agrees(c)
        /\ \/ /\ c \in {"confirm", "yes"} /\ Assistant!Open(pending)
              /\ Assistant!Run(t, pending, IF c = "confirm" THEN "form" ELSE "reply")
              /\ UNCHANGED <<pending, over>>
           \/ /\ c = "confirm" /\ ~Assistant!Open(pending)
              /\ IF pending = Nil THEN UNCHANGED <<pending, over>> ELSE Assistant!Drop(pending)
              /\ Assistant!Done(t)
           \/ /\ c = "no" /\ Assistant!Open(pending)
              /\ Assistant!Drop(pending)
              /\ Assistant!Take(t, "answer", Nil, Nil)
           \/ /\ c = "message" \/ (c \in {"yes", "no"} /\ ~Assistant!Open(pending))
              /\ Assistant!Take(t, "turn", Nil, pending)
              /\ UNCHANGED <<pending, over>>
  BY DEF Assistant!Turn
<1>2. UNCHANGED <<staged, ran, shown, clients>> /\ t \in clients.threads /\ job[t].call = "none"
  BY <1>1 DEF Assistant!Turn, Assistant!Free, Assistant!Idle
<1>3. agreed \subseteq agreed'
  BY <1>1 DEF Assistant!Agrees
<1>4. \A u \in Threads : job[u].call = "none"
  BY <1>2 DEF TurnsInv, TurnJobs, Assistant!OneAtATime
<1>5. clients.faults = {} => (pending # Nil => ran[pending.proposal] = 0)
  BY <1>2, WaitingNotRun DEF TurnsSerial
<1>6. clients.faults = {} /\ "agent_confirm" \notin clients.calls => Tells(shown, pending)
  BY <1>4 DEF TurnsSerial, Seen
<1>7. CASE /\ c \in {"confirm", "yes"} /\ pending # Nil
          /\ Assistant!Run(t, pending, IF c = "confirm" THEN "form" ELSE "reply")
          /\ UNCHANGED <<pending, over>>
  <2>1. PICK r \in Assistant!Pending, by \in {"form", "reply"} :
          /\ r.proposal = pending.proposal
          /\ job' = [job EXCEPT ![t] = [call |-> "execute", key |-> by, row |-> r]]
    <3>1. pending \in Assistant!Pending
      BY <1>7 DEF TurnsInv, Assistant!TypeOK
    <3> QED
      BY <3>1, <1>7, RunTurn
  <2> DEFINE j == [call |-> "execute", key |-> by, row |-> r]
  <2>2. j.call = "execute" /\ j.row = r
    OBVIOUS
  <2>3. clients.faults = {} /\ "agent_confirm" \notin clients.calls => pending.proposal \in agreed'
    BY <1>1, <1>6, <1>7 DEF Assistant!Agrees, Tells
  <2>4. NotOver'
    BY <1>2, <1>7, <2>1, <2>2, SerialStage DEF TurnsSerial, NotOver
  <2>5. clients.faults = {} => NotRun'
    BY <1>2, <1>5, <1>7, <2>1, <2>2, SerialStage DEF TurnsSerial, NotRun, TurnsInv, Assistant!TypeOK
  <2>6. r # Nil
    BY ProvedConstants DEF Assistant!AssistantConstants
  <2>7. clients.faults = {} /\ "agent_confirm" \notin clients.calls => Seen'
    BY <1>2, <1>3, <1>7, <2>1, <2>2, <2>3, <2>6, SerialStage DEF TurnsSerial, Seen, Tells
  <2> QED
    BY <1>2, <2>4, <2>5, <2>7 DEF TurnsSerial
<1>8. ASSUME NEW j, job' = [job EXCEPT ![t] = j], j.call \in {"none", "answer"}, 
             pending' = Nil
      PROVE  TurnsSerial'
  <2>1. NotOver'
    BY <1>2, <1>8, SerialStage
  <2>2. clients.faults = {} => NotRun'
    BY <1>2, <1>8, SerialStage DEF TurnsSerial, NotRun, TurnsInv, Assistant!TypeOK
  <2>3. clients.faults = {} /\ "agent_confirm" \notin clients.calls => Seen'
    BY <1>2, <1>3, <1>8, SerialStage DEF TurnsSerial, Seen, Tells
  <2> QED
    BY <1>2, <2>1, <2>2, <2>3 DEF TurnsSerial
<1>9. CASE pending' = Nil /\ (Assistant!Done(t) \/ Assistant!Take(t, "answer", Nil, Nil))
  BY <1>8, <1>9 DEF Assistant!Done, Assistant!Idle, Assistant!Take
<1>10. CASE Assistant!Take(t, "turn", Nil, pending) /\ UNCHANGED <<pending, over>>
  <2> DEFINE j == [call |-> "turn", key |-> Nil, row |-> pending]
  <2>1. job' = [job EXCEPT ![t] = j] /\ j.call = "turn" /\ j.row = pending
    BY <1>10 DEF Assistant!Take
  <2>2. NotOver'
    BY <1>2, <1>10, <2>1, SerialStage DEF TurnsSerial, NotOver
  <2>3. clients.faults = {} => NotRun'
    BY <1>2, <1>5, <1>10, <2>1, SerialStage DEF TurnsSerial, NotRun, TurnsInv, Assistant!TypeOK
  <2>4. clients.faults = {} /\ "agent_confirm" \notin clients.calls => Seen'
    BY <1>2, <1>3, <1>10, <2>1, SerialStage DEF TurnsSerial, Seen, Tells
  <2> QED
    BY <1>2, <2>2, <2>3, <2>4 DEF TurnsSerial
<1> QED
  BY <1>1, <1>7, <1>9, <1>10 DEF Assistant!Open, Assistant!Drop

LEMMA StageSerial ==
  ASSUME TurnsInv, TurnsInv', Assistant!OneAtATime, TurnsSerial, NEW t \in Threads,
         Assistant!Stage(t)
  PROVE  TurnsSerial'
<1>1. PICK p \in Proposals \ staged, full \in BOOLEAN :
        LET row == [proposal |-> p, complete |-> full, expired |-> FALSE] IN
          /\ staged' = staged \cup {p} /\ pending' = row /\ Assistant!Take(t, "turn", Nil, row)
  BY DEF Assistant!Stage
<1>2. UNCHANGED <<ran, shown, agreed, over, clients>> /\ t \in clients.threads
  BY DEF Assistant!Stage, Assistant!At, TurnsInv, TurnJobs
<1> DEFINE row == [proposal |-> p, complete |-> full, expired |-> FALSE]
           j == [call |-> "turn", key |-> Nil, row |-> row]
<1>3. job' = [job EXCEPT ![t] = j] /\ j.call = "turn" /\ j.row = pending' /\ pending'.proposal = p
  BY <1>1 DEF Assistant!Take
<1>4. p \notin over /\ ran[p] = 0
  BY <1>1, ProvedConstants DEF TurnsInv, Assistant!TypeOK, Assistant!AssistantConstants
<1> HIDE DEF j
<1>5. NotOver'
  BY <1>2, <1>3, <1>4, SerialStage
<1>6. clients.faults = {} => NotRun'
  BY <1>2, <1>3, <1>4, SerialStage DEF TurnsSerial, NotRun, TurnsInv, Assistant!TypeOK
<1>7. clients.faults = {} /\ "agent_confirm" \notin clients.calls => Seen'
  BY <1>2, <1>3, <1>4, SerialStage DEF TurnsSerial, Seen, Tells
<1> QED
  BY <1>2, <1>5, <1>6, <1>7 DEF TurnsSerial

LEMMA AgentSerial ==
  ASSUME TurnsInv, TurnsInv', Assistant!OneAtATime, TurnsSerial, NEW t \in Threads,
         Assistant!AgentConfirm(t) \/ Assistant!AgentCancel(t)
  PROVE  TurnsSerial'
<1>1. UNCHANGED <<staged, ran, shown, agreed, clients>> /\ t \in clients.threads
      /\ pending # Nil /\ job[t].call = "turn"
  BY DEF Assistant!AgentConfirm, Assistant!AgentCancel, Assistant!At, TurnsInv, TurnJobs
<1>2. CASE Assistant!Drop(pending) /\ Assistant!Take(t, "turn", Nil, Nil)
  <2> DEFINE j == [call |-> "turn", key |-> Nil, row |-> Nil]
  <2>1. job' = [job EXCEPT ![t] = j] /\ j.call = "turn" /\ pending' = Nil
    BY <1>2 DEF Assistant!Take, Assistant!Drop
  <2> HIDE DEF j
  <2>2. NotOver'
    BY <1>1, <2>1, SerialStage
  <2>3. clients.faults = {} => NotRun'
    BY <1>1, <2>1, SerialStage DEF TurnsSerial, NotRun, TurnsInv, Assistant!TypeOK
  <2>4. clients.faults = {} /\ "agent_confirm" \notin clients.calls => Seen'
    BY <1>1, <2>1, SerialStage DEF TurnsSerial, Seen, Tells
  <2> QED
    BY <1>1, <2>2, <2>3, <2>4 DEF TurnsSerial
<1>3. CASE Assistant!Run(t, pending, "agent") /\ UNCHANGED <<pending, over>>
          /\ "agent_confirm" \in clients.calls
  <2>1. PICK r \in Assistant!Pending :
          /\ r.proposal = pending.proposal
          /\ job' = [job EXCEPT ![t] = [call |-> "execute", key |-> "agent", row |-> r]]
    BY <1>1, <1>3, RunTurn DEF TurnsInv, Assistant!TypeOK
  <2> DEFINE j == [call |-> "execute", key |-> "agent", row |-> r]
  <2>2. job' = [job EXCEPT ![t] = j] /\ j.call = "execute" /\ j.row = r
    BY <2>1
  <2> HIDE DEF j
  <2>3. NotOver'
    BY <1>1, <1>3, <2>1, <2>2, SerialStage DEF TurnsSerial, NotOver
  <2>4. ASSUME clients.faults = {} PROVE NotRun'
    <3>1. ran[pending.proposal] = 0
      BY <1>1, <2>4, WaitingNotRun DEF TurnsSerial
    <3> QED
      BY <1>1, <1>3, <2>1, <2>2, <2>4, <3>1, SerialStage DEF TurnsSerial, NotRun, TurnsInv, Assistant!TypeOK
  <2> QED
    BY <1>1, <1>3, <2>3, <2>4 DEF TurnsSerial
<1> QED
  BY <1>2, <1>3 DEF Assistant!AgentConfirm, Assistant!AgentCancel

LEMMA ToolSerial ==
  ASSUME TurnsInv, TurnsInv', Assistant!OneAtATime, TurnsSerial, NEW t \in Threads,
         Assistant!Refill(t) \/ Assistant!Refuse(t) \/ Assistant!Execute(t) \/ Assistant!Clear(t)
  PROVE  TurnsSerial'
<1>1. UNCHANGED <<staged, shown, agreed, over, clients>> /\ t \in clients.threads
  BY DEF Assistant!Refill, Assistant!Refuse, Assistant!Execute, Assistant!Clear, Assistant!At,
    Assistant!data, TurnsInv, TurnJobs
<1>2. job[t].call = "execute" => job[t].row \in Assistant!Pending /\ job[t].row.proposal \in Proposals
  BY RowsOfTurns DEF TurnsInv, TurnJobs, TurnFits, Turns, TurnRows
<1>3. ASSUME NEW r, Assistant!Continue(t, r)
      PROVE  \E j : /\ job' = [job EXCEPT ![t] = j] /\ j.row = r
                    /\ j.call \in {"turn", "answer"}
  <2> DEFINE j == [call |-> IF job[t].key = "agent" THEN "turn" ELSE "answer", key |-> Nil, row |-> r]
  <2>1. job' = [job EXCEPT ![t] = j] /\ j.row = r /\ j.call \in {"turn", "answer"}
    BY <1>3 DEF Assistant!Continue, Assistant!Take
  <2> QED
    BY <2>1
<1>4. CASE Assistant!Refill(t)
  <2>1. PICK j : job' = [job EXCEPT ![t] = j] /\ j.row = job[t].row /\ j.call \in {"turn", "answer"}
    BY <1>3, <1>4 DEF Assistant!Refill
  <2>2. /\ job[t].call = "execute" /\ pending' \in Assistant!Pending /\ ran' = ran
        /\ pending'.proposal = job[t].row.proposal
    BY <1>2, <1>4, RowsOfTurns DEF Assistant!Refill, Assistant!At
  <2>3. NotOver'
    BY <1>1, <2>1, <2>2, SerialStage DEF TurnsSerial, NotOver
  <2>4. clients.faults = {} => NotRun'
    BY <1>1, <2>1, <2>2, SerialStage DEF TurnsSerial, NotRun, TurnsInv, Assistant!TypeOK
  <2>5. job[t].row # Nil
    BY <2>2 DEF TurnsInv, TurnJobs, TurnFits
  <2>6. clients.faults = {} /\ "agent_confirm" \notin clients.calls => Seen'
    BY <1>1, <2>1, <2>2, <2>5, SerialStage DEF TurnsSerial, Seen, Tells
  <2> QED
    BY <1>1, <2>3, <2>4, <2>6 DEF TurnsSerial
<1>5. CASE Assistant!Refuse(t)
  <2>1. PICK j : job' = [job EXCEPT ![t] = j] /\ j.row = job[t].row /\ j.call \in {"turn", "answer"}
    BY <1>3, <1>5 DEF Assistant!Refuse
  <2>2. job[t].call = "execute" /\ UNCHANGED <<pending, ran>>
    BY <1>5 DEF Assistant!Refuse, Assistant!At, Assistant!data
  <2>3. NotOver'
    BY <1>1, <2>1, <2>2, SerialStage DEF TurnsSerial, NotOver
  <2>4. clients.faults = {} => NotRun'
    BY <1>1, <2>1, <2>2, WaitingNotRun, SerialStage DEF TurnsSerial, NotRun, TurnsInv, Assistant!TypeOK
  <2>5. clients.faults = {} /\ "agent_confirm" \notin clients.calls => Seen'
    BY <1>1, <2>1, <2>2, SerialStage DEF TurnsSerial, Seen, Tells
  <2> QED
    BY <1>1, <2>3, <2>4, <2>5 DEF TurnsSerial
<1>6. CASE Assistant!Execute(t)
  <2> DEFINE p == job[t].row.proposal
             j == [call |-> "clear", key |-> job[t].key, row |-> Nil]
  <2>1. /\ job[t].call = "execute" /\ pending' = pending /\ p \in Proposals
        /\ ran' = [ran EXCEPT ![p] = @ + 1]
    BY <1>2, <1>6 DEF Assistant!Execute, Assistant!At
  <2>2. job' = [job EXCEPT ![t] = j] /\ j.call = "clear"
    BY <1>6 DEF Assistant!Execute, Assistant!Take
  <2> HIDE DEF j
  <2>3. NotOver'
    BY <1>1, <2>1, <2>2, SerialStage DEF TurnsSerial, NotOver
  <2>4. ASSUME clients.faults = {} PROVE NotRun'
    <3>1. ran[p] = 0 /\ \A q \in Proposals : ran[q] <= 1
      BY <2>1, <2>4 DEF TurnsSerial, NotRun
    <3>2. ran \in [Proposals -> 0..MaxRuns] /\ ran' \in [Proposals -> 0..MaxRuns]
          /\ pending' \in Assistant!Pending \cup {Nil}
      BY DEF TurnsInv, Assistant!TypeOK
    <3>3. \A q \in Proposals : ran'[q] <= 1
      BY <2>1, <3>1, <3>2
    <3> QED
      BY <1>1, <2>1, <2>2, <3>2, <3>3, SerialStage
  <2>5. ASSUME clients.faults = {}, "agent_confirm" \notin clients.calls PROVE Seen'
    <3>1. p \in agreed /\ \A q \in Proposals : ran[q] > 0 => q \in agreed
      BY <2>1, <2>5 DEF TurnsSerial, Seen
    <3>2. \A q \in Proposals : ran'[q] > 0 => q \in agreed
      BY <2>1, <3>1 DEF TurnsInv, Assistant!TypeOK
    <3> QED
      BY <1>1, <2>1, <2>2, <3>2, SerialStage
  <2> QED
    BY <1>1, <2>3, <2>4, <2>5 DEF TurnsSerial
<1>7. CASE Assistant!Clear(t)
  <2>1. PICK j : job' = [job EXCEPT ![t] = j] /\ j.call \in {"turn", "answer"}
    BY <1>3, <1>7 DEF Assistant!Clear
  <2>2. pending' = Nil /\ ran' = ran
    BY <1>7 DEF Assistant!Clear
  <2>3. NotOver'
    BY <1>1, <2>1, <2>2, SerialStage
  <2>4. clients.faults = {} => NotRun'
    BY <1>1, <2>1, <2>2, SerialStage DEF TurnsSerial, NotRun, TurnsInv, Assistant!TypeOK
  <2>5. clients.faults = {} /\ "agent_confirm" \notin clients.calls => Seen'
    BY <1>1, <2>1, <2>2, SerialStage DEF TurnsSerial, Seen, Tells
  <2> QED
    BY <1>1, <2>3, <2>4, <2>5 DEF TurnsSerial
<1> QED
  BY <1>4, <1>5, <1>6, <1>7

LEMMA AnswerSerial ==
  ASSUME TurnsInv, TurnsInv', Assistant!OneAtATime, TurnsSerial, NEW t \in Threads,
         Assistant!Answer(t) \/ Assistant!Crash(t)
  PROVE  TurnsSerial'
<1>1. UNCHANGED <<pending, staged, ran, agreed, over, clients>>
  BY DEF Assistant!Answer, Assistant!Crash, Assistant!data
<1>2. job' = [job EXCEPT ![t] = Assistant!Idle] /\ Assistant!Idle.call = "none"
  BY DEF Assistant!Answer, Assistant!Crash, Assistant!Done, Assistant!Idle
<1>3. t \in clients.threads
  BY DEF Assistant!Answer, Assistant!Crash, TurnsInv, TurnJobs, TurnFits
<1>4. clients.faults = {} => Assistant!Answer(t) /\ job[t].call \in {"turn", "answer"} /\ shown' = job[t].row
  BY DEF Assistant!Answer, Assistant!Crash, Assistant!Fault
<1> HIDE DEF Assistant!Idle
<1>5. NotOver'
  BY <1>1, <1>2, <1>3, SerialStage DEF TurnsSerial, NotOver
<1>6. clients.faults = {} => NotRun'
  BY <1>1, <1>2, <1>3, <1>4, WaitingNotRun, SerialStage DEF TurnsSerial, NotRun, TurnsInv, Assistant!TypeOK
<1>7. clients.faults = {} /\ "agent_confirm" \notin clients.calls => Seen'
  BY <1>1, <1>2, <1>3, <1>4, SerialStage DEF TurnsSerial, Seen
<1> QED
  BY <1>1, <1>5, <1>6, <1>7 DEF TurnsSerial

LEMMA TurnsSerialStep ==
  ASSUME TurnsInv, Assistant!OneAtATime, TurnsSerial, [Assistant!Next]_Assistant!vars
  PROVE  TurnsSerial'
<1>1. TurnsInv'
  BY TurnsInvStep
<1>2. CASE UNCHANGED Assistant!vars
  BY <1>2 DEF TurnsSerial, NotOver, NotRun, Seen, Tells, Assistant!vars, Assistant!data
<1>3. CASE Assistant!Expire
  <2>1. UNCHANGED <<staged, ran, shown, agreed, over, job, clients>> /\ pending # Nil
    BY <1>3 DEF Assistant!Expire, Assistant!Open
  <2>2. pending' # Nil /\ pending'.proposal = pending.proposal
    BY <1>3, <2>1, RowsOfTurns, ProvedConstants
       DEF Assistant!Expire, TurnsInv, Assistant!TypeOK, Assistant!AssistantConstants
  <2> QED
    BY <2>1, <2>2 DEF TurnsSerial, NotOver, NotRun, Seen, Tells
<1> QED
  BY <1>1, <1>2, <1>3, TurnSerial, StageSerial, AgentSerial, ToolSerial, AnswerSerial
     DEF Assistant!Next

\* What was cancelled or found expired runs no more.
LEMMA OverStays ==
  ASSUME TurnsInv, TurnsSerial, [Assistant!Next]_Assistant!vars, NEW p \in over
  PROVE  ran'[p] = ran[p]
<1>1. ASSUME NEW t \in Threads, Assistant!Execute(t) PROVE ran'[p] = ran[p]
  <2>1. p # job[t].row.proposal
    BY <1>1 DEF Assistant!Execute, Assistant!At, TurnsSerial, NotOver
  <2>2. p \in Proposals
    BY DEF TurnsInv, Assistant!TypeOK
  <2> QED
    BY <1>1, <2>1, <2>2 DEF Assistant!Execute, TurnsInv, Assistant!TypeOK
<1>2. (\E t \in Threads : Assistant!Execute(t)) \/ UNCHANGED ran
  BY DEF Assistant!Next, Assistant!Expire, Assistant!Turn, Assistant!Stage,
    Assistant!AgentConfirm, Assistant!AgentCancel, Assistant!Refill, Assistant!Refuse,
    Assistant!Clear, Assistant!Answer, Assistant!Crash, Assistant!vars, Assistant!data
<1> QED
  BY <1>1, <1>2

-----------------------------------------------------------------------------
(* AssistantRouting: the fields of a turn, whatever its prompt is, and the *)
(* calls of models so far.                                                 *)

Said == [role : {"user"}, text : Texts] \cup {[role |-> "assistant", text |-> Nil]}
Requests(prompt) ==
  [text : Texts, tool : Routing!Tools \cup {Nil}, calls : Nat, attempt : {1, 2}, tries : Nat,
   rounds : Nat, prompt : {prompt}, staged : BOOLEAN, failed : BOOLEAN]

\* What may have been called by this stage, and what was staged.
Orchestrated(row) ==
  /\ row.calls <= (row.attempt - 1) * (Retries + 1) + row.tries /\ row.tries <= Retries
  /\ row.rounds = 0 /\ row.tool = Nil /\ ~row.staged /\ ~row.failed
Agentic(row) ==
  /\ row.calls <= 2 * (Retries + 1) + row.rounds /\ row.rounds < MaxRounds
  /\ row.tool = Nil /\ ~row.failed
Bounded(row) == row.calls <= 2 * (Retries + 1) + MaxRounds
Routed(row) ==
  /\ Bounded(row)
  /\ row.staged => row.failed
  /\ row.tool # Nil => ~row.staged
Answered(row) ==
  /\ Bounded(row)
  /\ row.tool = "read" => ~row.staged
  /\ row.tool = "change" /\ "refusal" \notin clients.faults => row.staged

RequestFits(j) ==
  /\ j.call \in {"none", "orchestrate", "agent", "route", "answer"}
  /\ j.call = "none" => j = Routing!Idle
  /\ j.call # "none" => j.row \in Requests(j.row.prompt)
  /\ j.call = "orchestrate" => Orchestrated(j.row)
  /\ j.call = "agent" => Agentic(j.row)
  /\ j.call = "route" => Routed(j.row)
  /\ j.call = "answer" => Answered(j.row)

RequestJobs ==
  /\ job = [t \in Threads |-> job[t]]
  /\ \A t \in Threads : /\ RequestFits(job[t])
                        /\ job[t].call # "none" => t \in clients.threads
RoutingInv == Routing!TypeOK /\ RequestJobs

LEMMA RoutingInit ==
  ASSUME Routing!Start, Begin PROVE RoutingInv
<1>1. awaited = Nil /\ messages = <<>> /\ job = [t \in Threads |-> Idle]
  BY DEF Routing!Start, Begin
<1>2. Routing!TypeOK
  BY <1>1 DEF Routing!TypeOK
<1> QED
  BY <1>1, <1>2 DEF RoutingInv, RequestJobs, RequestFits, Idle, Routing!Idle

\* The updates of a request keep its fields.
LEMMA RequestUpdates ==
  ASSUME NEW P, NEW row \in Requests(P)
  PROVE  /\ row.prompt = P
         /\ Routing!Called(row) \in Requests(P)
         /\ \A f \in {"text", "tool", "attempt", "tries", "rounds", "staged", "failed"} :
              Routing!Called(row)[f] = row[f]
         /\ Routing!Called(row).calls = row.calls + 1
BY DEF Requests, Routing!Called

LEMMA RequestTaken ==
  ASSUME RequestJobs, NEW t \in Threads, NEW j, RequestFits(j), j.call # "none" => t \in clients.threads,
         job' = [job EXCEPT ![t] = j], clients' = clients
  PROVE  RequestJobs'
<1>1. job'[t] = j /\ \A u \in Threads : u # t => job'[u] = job[u]
  BY DEF RequestJobs
<1>2. job' = [u \in Threads |-> job'[u]]
  BY DEF RequestJobs
<1>3. ASSUME NEW u \in Threads PROVE RequestFits(job[u])' /\ (job[u].call # "none" => u \in clients.threads)'
  <2>1. PICK i : i = job'[u]
    OBVIOUS
  <2>2. RequestFits(i) /\ (i.call # "none" => u \in clients.threads)
    BY <1>1, <2>1 DEF RequestJobs
  <2>3. RequestFits(i)'
    BY <2>2 DEF RequestFits, Answered, Routed, Agentic, Orchestrated, Bounded
  <2> QED
    BY <2>1, <2>2, <2>3
<1> QED
  BY <1>2, <1>3 DEF RequestJobs

\* What a request has to be at its next stage.
RequestAt(c, r) ==
  /\ r \in Requests(r.prompt)
  /\ c = "orchestrate" => Orchestrated(r)
  /\ c = "agent" => Agentic(r)
  /\ c = "route" => Routed(r)
  /\ c = "answer" => Answered(r)

LEMMA RequestMoves ==
  ASSUME RequestJobs, NEW t \in Threads, t \in clients.threads,
         NEW c \in {"orchestrate", "agent", "route", "answer"}, NEW k, NEW r,
         RequestAt(c, r), Routing!Take(t, c, k, r), clients' = clients
  PROVE  RequestJobs'
<1> DEFINE j == [call |-> c, key |-> k, row |-> r]
<1>1. job' = [job EXCEPT ![t] = j]
  BY DEF Routing!Take
<1>2. RequestFits(j)
  BY DEF RequestFits, RequestAt
<1> QED
  BY <1>1, <1>2, RequestTaken

LEMMA RequestEnds ==
  ASSUME RequestJobs, NEW t \in Threads, Routing!Done(t), clients' = clients
  PROVE  RequestJobs'
<1>1. RequestFits(Routing!Idle) /\ Routing!Idle.call = "none"
  BY DEF RequestFits, Routing!Idle
<1> QED
  BY <1>1, RequestTaken DEF Routing!Done

LEMMA SayRequests ==
  ASSUME Routing!RoutingConstants, clients \in Clients, clients.area = "routing",
         RoutingInv, NEW t \in Threads, Routing!Say(t)
  PROVE  RoutingInv'
<1>1. PICK text \in clients.texts :
        /\ messages' = Append(messages, [role |-> "user", text |-> text])
        /\ \/ /\ Routing!Free(t, "say")
              /\ Routing!Take(t, IF clients.configured THEN "orchestrate" ELSE "route", Nil,
                              Routing!NewTurn(text, Nil))
           \/ /\ Routing!Free(t, "tool")
              /\ \E tool \in Routing!Tools : Routing!Take(t, "route", Nil, Routing!NewTurn(text, tool))
  BY DEF Routing!Say
<1>2. text \in Texts /\ UNCHANGED <<awaited, clients>> /\ t \in clients.threads
  BY <1>1 DEF Routing!Say, Routing!RoutingConstants, Routing!Free
<1>3. Routing!TypeOK'
  BY <1>1, <1>2 DEF RoutingInv, Routing!TypeOK
<1>4. Retries \in Nat /\ MaxRounds \in Nat
  BY DEF Routing!RoutingConstants
<1>5. ASSUME NEW tool \in Routing!Tools \cup {Nil}
      PROVE  /\ RequestAt("route", Routing!NewTurn(text, tool))
             /\ tool = Nil => RequestAt("orchestrate", Routing!NewTurn(text, tool))
  BY <1>2, <1>4 DEF RequestAt, Requests, Routing!NewTurn, Orchestrated, Routed, Bounded
<1>6. RequestJobs'
  BY <1>1, <1>2, <1>5, RequestMoves DEF RoutingInv
<1> QED
  BY <1>3, <1>6 DEF RoutingInv

LEMMA OrchestrateRequests ==
  ASSUME Routing!RoutingConstants, RoutingInv, NEW t \in Threads, Routing!Orchestrate(t)
  PROVE  RoutingInv'
<1>a. PICK old, row : old = job[t].row /\ row = Routing!Called(old)
  OBVIOUS
<1>1. UNCHANGED <<messages, awaited, clients>> /\ t \in clients.threads /\ job[t].call = "orchestrate"
  BY DEF Routing!Orchestrate, Routing!At, RoutingInv, RequestJobs
<1>2. old \in Requests(old.prompt) /\ Orchestrated(old)
  BY <1>a, <1>1 DEF RoutingInv, RequestJobs, RequestFits
<1>3. Retries \in Nat /\ MaxRounds \in Nat \ {0}
  BY DEF Routing!RoutingConstants
<1>4. /\ row \in Requests(old.prompt) /\ row.calls = old.calls + 1 /\ row.attempt = old.attempt
      /\ row.tries = old.tries /\ row.tool = Nil /\ ~row.staged /\ ~row.failed /\ row.rounds = 0
      /\ row.prompt = old.prompt
  BY <1>a, <1>2, RequestUpdates DEF Orchestrated
<1>5. /\ old.calls \in Nat /\ old.attempt \in {1, 2} /\ old.tries \in Nat /\ old.rounds \in Nat
      /\ old.calls <= (old.attempt - 1) * (Retries + 1) + old.tries /\ old.tries <= Retries
  BY <1>2 DEF Requests, Orchestrated
<1>6. row.calls <= 2 * (Retries + 1)
  BY <1>3, <1>4, <1>5
<1>7. RequestAt("route", row)
  BY <1>3, <1>4, <1>6 DEF RequestAt, Routed, Bounded, Requests
<1>8. CASE Routing!RetryCall(t, row)
  <2>1. ASSUME row.tries < Retries PROVE RequestAt("orchestrate", [row EXCEPT !.tries = @ + 1])
    <3> DEFINE r == [row EXCEPT !.tries = @ + 1]
    <3>1. /\ r \in Requests(old.prompt) /\ r.prompt = old.prompt /\ r.tries = row.tries + 1 /\ r.rounds = 0
          /\ r.calls = row.calls /\ r.attempt = row.attempt /\ r.tool = Nil /\ ~r.staged /\ ~r.failed
      BY <1>4 DEF Requests
    <3> QED
      BY <1>3, <1>4, <1>5, <2>1, <3>1 DEF RequestAt, Orchestrated
  <2>2. RequestJobs'
    BY <1>1, <1>7, <1>8, <2>1, RequestMoves DEF Routing!RetryCall, RoutingInv
  <2> QED
    BY <1>1, <2>2 DEF RoutingInv, Routing!TypeOK
<1>9. CASE row.attempt = 1 /\ Routing!Take(t, "orchestrate", Nil, [row EXCEPT !.attempt = 2, !.tries = 0])
  <2> DEFINE r == [row EXCEPT !.attempt = 2, !.tries = 0]
  <2>1. /\ r \in Requests(old.prompt) /\ r.prompt = old.prompt /\ r.tries = 0 /\ r.rounds = 0
        /\ r.calls = row.calls /\ r.attempt = 2 /\ r.tool = Nil /\ ~r.staged /\ ~r.failed
    BY <1>4 DEF Requests
  <2>2. RequestAt("orchestrate", r)
    BY <1>3, <1>4, <1>5, <1>9, <2>1 DEF RequestAt, Orchestrated
  <2>3. RequestJobs'
    BY <1>1, <1>9, <2>2, RequestMoves DEF RoutingInv
  <2> QED
    BY <1>1, <2>3 DEF RoutingInv, Routing!TypeOK
<1>10. CASE Routing!Take(t, "route", Nil, row)
  <2>1. RequestJobs'
    BY <1>1, <1>7, <1>10, RequestMoves DEF RoutingInv
  <2> QED
    BY <1>1, <2>1 DEF RoutingInv, Routing!TypeOK
<1>11. CASE Routing!Take(t, "agent", Nil, [row EXCEPT !.prompt = Routing!Prompt(row.text)])
  <2> DEFINE r == [row EXCEPT !.prompt = Routing!Prompt(row.text)]
  <2>1. PICK P : P = Routing!Prompt(row.text)
    OBVIOUS
  <2>2. /\ r \in Requests(P) /\ r.prompt = P /\ r.rounds = row.rounds
        /\ r.calls = row.calls /\ r.tool = Nil /\ ~r.staged /\ ~r.failed
    BY <1>4, <2>1 DEF Requests
  <2>3. RequestAt("agent", r)
    BY <1>3, <1>4, <1>5, <1>6, <2>2 DEF RequestAt, Agentic
  <2>4. RequestJobs'
    BY <1>1, <1>11, <2>3, RequestMoves DEF RoutingInv
  <2> QED
    BY <1>1, <2>4 DEF RoutingInv, Routing!TypeOK
<1> QED
  BY <1>a, <1>8, <1>9, <1>10, <1>11 DEF Routing!Orchestrate

LEMMA AgentRequests ==
  ASSUME Routing!RoutingConstants, RoutingInv, NEW t \in Threads, Routing!Agent(t)
  PROVE  RoutingInv'
<1>a. PICK old : old = job[t].row
  OBVIOUS
<1>b. PICK row : row = [Routing!Called(old) EXCEPT !.rounds = @ + 1]
  OBVIOUS
<1>c. PICK more : more = [row EXCEPT !.staged = TRUE]
  OBVIOUS
<1>1. UNCHANGED <<messages, clients>> /\ t \in clients.threads /\ job[t].call = "agent"
  BY DEF Routing!Agent, Routing!At, RoutingInv, RequestJobs
<1>2. old \in Requests(old.prompt) /\ Agentic(old)
  BY <1>a, <1>1 DEF RoutingInv, RequestJobs, RequestFits
<1>3. Retries \in Nat /\ MaxRounds \in Nat \ {0} /\ Nil \notin Routing!Tools
  BY DEF Routing!RoutingConstants
<1>4. PICK P : P = old.prompt
  OBVIOUS
<1>5. /\ row \in Requests(P) /\ row.calls <= 2 * (Retries + 1) + row.rounds
      /\ row.rounds <= MaxRounds /\ row.tool = Nil /\ ~row.failed
  <2>1. PICK called : called = Routing!Called(old)
    OBVIOUS
  <2>2. /\ called \in Requests(P) /\ called.calls = old.calls + 1 /\ called.rounds = old.rounds
        /\ called.tool = old.tool /\ called.failed = old.failed
    BY <1>2, <1>4, <2>1, RequestUpdates
  <2>3. /\ row \in Requests(P) /\ row.calls = old.calls + 1 /\ row.rounds = old.rounds + 1
        /\ row.tool = old.tool /\ row.failed = old.failed
    BY <1>b, <2>1, <2>2 DEF Requests
  <2>4. old.calls \in Nat /\ old.rounds \in Nat
    BY <1>2 DEF Requests
  <2> QED
    BY <1>2, <1>3, <2>3, <2>4 DEF Agentic
<1>6. /\ more \in Requests(P) /\ more.calls = row.calls /\ more.rounds = row.rounds
      /\ more.tool = Nil /\ ~more.failed
  BY <1>c, <1>5 DEF Requests
<1>7. ASSUME NEW r \in {row, more}
      PROVE  /\ RequestAt("answer", r)
             /\ RequestAt("route", [r EXCEPT !.failed = TRUE])
             /\ row.rounds # MaxRounds => RequestAt("agent", r)
  <2>1. /\ r \in Requests(P) /\ r.prompt = P /\ r.calls <= 2 * (Retries + 1) + r.rounds
        /\ r.calls \in Nat /\ r.rounds \in Nat /\ r.rounds <= MaxRounds /\ r.tool = Nil /\ ~r.failed
        /\ r.rounds = row.rounds
    BY <1>5, <1>6 DEF Requests
  <2>2. Bounded(r)
    BY <1>3, <2>1 DEF Bounded
  <2>3. RequestAt("answer", r)
    BY <1>3, <2>1, <2>2 DEF RequestAt, Answered, Routing!Tools
  <2>4. RequestAt("route", [r EXCEPT !.failed = TRUE])
    <3>1. PICK f : f = [r EXCEPT !.failed = TRUE]
      OBVIOUS
    <3>2. f \in Requests(P) /\ f.prompt = P /\ f.calls = r.calls /\ f.tool = Nil /\ f.failed
      BY <2>1, <3>1 DEF Requests
    <3>3. RequestAt("route", f)
      BY <2>2, <3>2 DEF RequestAt, Routed, Bounded
    <3> QED
      BY <3>1, <3>3
  <2>5. row.rounds # MaxRounds => RequestAt("agent", r)
    BY <1>3, <2>1 DEF RequestAt, Agentic
  <2> QED
    BY <2>3, <2>4, <2>5
<1>8. \E r \in {row, more} :
        \/ Routing!Failed(t, r)
        \/ row.rounds # MaxRounds /\ Routing!Take(t, "agent", Nil, r)
        \/ Routing!AgentAnswer(t, r)
  BY <1>a, <1>b, <1>c DEF Routing!Agent
<1>9. RequestJobs'
  BY <1>1, <1>7, <1>8, RequestMoves
     DEF Routing!Failed, Routing!AgentAnswer, Routing!Answering, RoutingInv
<1>10. awaited' \in {awaited, "input", "consent"}
  BY DEF Routing!Agent, Routing!Stage
<1> QED
  BY <1>1, <1>9, <1>10 DEF RoutingInv, Routing!TypeOK

LEMMA RouteRequests ==
  ASSUME Routing!RoutingConstants, RoutingInv, NEW t \in Threads, Routing!Route(t)
  PROVE  RoutingInv'
<1>a. PICK row : row = job[t].row
  OBVIOUS
<1>b. PICK more : more = [row EXCEPT !.staged = TRUE]
  OBVIOUS
<1>1. UNCHANGED <<messages, clients>> /\ t \in clients.threads /\ job[t].call = "route"
  BY DEF Routing!Route, Routing!At, RoutingInv, RequestJobs
<1>2. row \in Requests(row.prompt) /\ Routed(row)
  BY <1>a, <1>1 DEF RoutingInv, RequestJobs, RequestFits
<1>3. PICK P : P = row.prompt
  OBVIOUS
<1>4. more \in Requests(P) /\ more.prompt = P /\ more.calls = row.calls /\ more.tool = row.tool /\ more.staged
  BY <1>b, <1>2, <1>3 DEF Requests
<1>5. Nil # "read" /\ Nil # "change"
  BY DEF Routing!RoutingConstants, Routing!Tools
<1>6. Routing!Chosen(row) \in {Nil, "read"} \/ "refusal" \in clients.faults => RequestAt("answer", row)
  BY <1>2, <1>5 DEF RequestAt, Answered, Routed, Routing!Chosen
<1>7. Routing!Chosen(row) = "change" => RequestAt("answer", more)
  BY <1>2, <1>4, <1>5 DEF RequestAt, Answered, Routed, Bounded, Routing!Chosen
<1>8. \/ \E k : /\ (Routing!Chosen(row) \in {Nil, "read"} \/ "refusal" \in clients.faults)
                 /\ Routing!Take(t, "answer", k, row)
      \/ \E k : Routing!Chosen(row) = "change" /\ Routing!Take(t, "answer", k, more)
      \/ Routing!Done(t)
  BY <1>a, <1>b DEF Routing!Route, Routing!Answering, Routing!Fault
<1>9. RequestJobs'
  BY <1>1, <1>6, <1>7, <1>8, RequestMoves, RequestEnds DEF RoutingInv
<1>10. awaited' \in {awaited, "input", "consent"}
  BY DEF Routing!Route, Routing!Stage
<1> QED
  BY <1>1, <1>9, <1>10 DEF RoutingInv, Routing!TypeOK

LEMMA RoutingInvStep ==
  ASSUME Routing!RoutingConstants, clients \in Clients, clients.area = "routing",
         RoutingInv, [Routing!Next]_Routing!vars
  PROVE  RoutingInv'
<1>1. CASE UNCHANGED Routing!vars
  BY <1>1 DEF Routing!vars, RoutingInv, Routing!TypeOK, RequestJobs, RequestFits, Answered,
    Routed, Agentic, Orchestrated, Bounded
<1>2. CASE Routing!Settle
  <2>1. UNCHANGED <<messages, job, clients>> /\ awaited' = Nil
    BY <1>2 DEF Routing!Settle
  <2> QED
    BY <2>1 DEF RoutingInv, Routing!TypeOK, RequestJobs, RequestFits, Answered, Routed,
      Agentic, Orchestrated, Bounded
<1>3. ASSUME NEW t \in Threads, Routing!Answer(t) \/ Routing!Crash(t) PROVE RoutingInv'
  <2>1. /\ UNCHANGED <<awaited, clients>> /\ Routing!Done(t)
        /\ messages' \in {messages, Append(messages, [role |-> "assistant", text |-> Nil])}
    BY <1>3 DEF Routing!Answer, Routing!Crash
  <2>2. RequestJobs'
    BY <2>1, RequestEnds DEF RoutingInv
  <2> QED
    BY <2>1, <2>2 DEF RoutingInv, Routing!TypeOK
<1> QED
  BY <1>1, <1>2, <1>3, SayRequests, OrchestrateRequests, AgentRequests, RouteRequests DEF Routing!Next

-----------------------------------------------------------------------------
(* One turn at a time: an answer asks for what waits, and the last message *)
(* is the user's until the assistant has answered it.                      *)

Asks(key, row, waits) ==
  key \in {Nil, waits} /\ (row.staged /\ ~row.failed => key = waits)
UserSpoke == messages # <<>> /\ messages[Len(messages)].role = "user"

RoutingSerial ==
  /\ \A t \in Threads : job[t].call = "answer" => Asks(job[t].key, job[t].row, awaited)
  /\ (\E t \in Threads : job[t].call # "none") => UserSpoke
  /\ Routing!AnsweredOnce

LEMMA RoutingSerialInit ==
  ASSUME Routing!Start, Begin PROVE RoutingSerial
BY DEF RoutingSerial, Routing!Start, Begin, Idle, Routing!AnsweredOnce

LEMMA OtherTurnsIdle ==
  ASSUME RoutingInv, Routing!OneAtATime, NEW t \in Threads, t \in clients.threads,
         NEW j, job' = [job EXCEPT ![t] = j]
  PROVE  /\ job'[t] = j
         /\ \A u \in Threads : u # t => job[u] = Routing!Idle /\ job'[u] = Routing!Idle
BY DEF RoutingInv, RequestJobs, RequestFits, Routing!OneAtATime

\* A turn goes on and nothing is said.
LEMMA SilentStage ==
  ASSUME RoutingInv, Routing!OneAtATime, RoutingSerial, NEW t \in Threads, t \in clients.threads,
         job[t].call # "none", NEW j, j.call # "none", job' = [job EXCEPT ![t] = j],
         j.call = "answer" => Asks(j.key, j.row, awaited'), UNCHANGED <<messages, clients>>
  PROVE  RoutingSerial'
<1>1. job'[t] = j /\ \A u \in Threads : u # t => job'[u] = Routing!Idle
  BY OtherTurnsIdle
<1>2. Routing!Idle.call = "none"
  BY DEF Routing!Idle
<1>3. ~Routing!AllIdle /\ ~Routing!AllIdle'
  BY <1>1, <1>2 DEF Routing!AllIdle, Routing!Idle
<1>4. Routing!AnsweredOnce'
  BY <1>3 DEF RoutingSerial, Routing!AnsweredOnce, Routing!OneAtATime
<1>5. UserSpoke'
  BY DEF RoutingSerial, UserSpoke
<1>6. \A u \in Threads : job'[u].call = "answer" => Asks(job'[u].key, job'[u].row, awaited')
  BY <1>1, <1>2
<1> QED
  BY <1>4, <1>5, <1>6 DEF RoutingSerial

\* A turn ends, and if nothing is said then because of a fault.
LEMMA SilentEnd ==
  ASSUME RoutingInv, Routing!OneAtATime, RoutingSerial, NEW t \in Threads, t \in clients.threads,
         Routing!Done(t), clients.faults \cap {"crash", "refusal"} # {},
         UNCHANGED <<messages, clients>>
  PROVE  RoutingSerial'
<1>1. \A u \in Threads : job'[u] = Routing!Idle
  BY OtherTurnsIdle DEF Routing!Done
<1>2. Routing!Idle.call = "none"
  BY DEF Routing!Idle
<1>3. Routing!AnsweredOnce'
  BY DEF RoutingSerial, Routing!AnsweredOnce, Routing!OneAtATime
<1> QED
  BY <1>1, <1>2, <1>3 DEF RoutingSerial

LEMMA SaySerial ==
  ASSUME RoutingInv, Routing!OneAtATime, RoutingSerial, NEW t \in Threads, Routing!Say(t)
  PROVE  RoutingSerial'
<1>1. PICK text \in clients.texts :
        /\ messages' = Append(messages, [role |-> "user", text |-> text])
        /\ \/ /\ Routing!Free(t, "say")
              /\ Routing!Take(t, IF clients.configured THEN "orchestrate" ELSE "route", Nil,
                              Routing!NewTurn(text, Nil))
           \/ /\ Routing!Free(t, "tool")
              /\ \E tool \in Routing!Tools : Routing!Take(t, "route", Nil, Routing!NewTurn(text, tool))
  BY DEF Routing!Say
<1>2. PICK own : own = [role |-> "user", text |-> text]
  OBVIOUS
<1>3. UNCHANGED <<awaited, clients>> /\ t \in clients.threads /\ job[t] = Routing!Idle
  BY <1>1 DEF Routing!Say, Routing!Free
<1>4. PICK j : job' = [job EXCEPT ![t] = j] /\ j.call \in {"orchestrate", "route"}
  <2>1. PICK c \in {"orchestrate", "route"} : \E r : Routing!Take(t, c, Nil, r)
    BY <1>1
  <2>2. PICK r : Routing!Take(t, c, Nil, r)
    BY <2>1
  <2> DEFINE next == [call |-> c, key |-> Nil, row |-> r]
  <2>3. job' = [job EXCEPT ![t] = next] /\ next.call = c
    BY <2>2 DEF Routing!Take
  <2> QED
    BY <2>3
<1>5. /\ job'[t] = j
      /\ \A u \in Threads : u # t => job[u] = Routing!Idle /\ job'[u] = Routing!Idle
  BY <1>3, <1>4, OtherTurnsIdle
<1>6. Routing!Idle.call = "none"
  BY DEF Routing!Idle
<1>7. Routing!AllIdle /\ ~Routing!AllIdle'
  BY <1>3, <1>4, <1>5, <1>6 DEF Routing!AllIdle
<1>8. /\ messages \in Seq(Said) /\ own \in [role : {"user"}, text : {text}]
      /\ messages' = Append(messages, own) /\ own.role = "user"
  BY <1>1, <1>2 DEF RoutingInv, Routing!TypeOK, Said
<1>9. /\ Len(messages') = Len(messages) + 1 /\ messages'[Len(messages')] = own
      /\ \A n \in 1..Len(messages) : messages'[n] = messages[n]
      /\ DOMAIN messages' = 1..Len(messages') /\ DOMAIN messages = 1..Len(messages)
      /\ Len(messages) \in Nat
  BY <1>8
<1>10. UserSpoke'
  BY <1>8, <1>9 DEF UserSpoke
<1>11. Routing!AnsweredOnce'
  <2>1. ASSUME NEW n \in DOMAIN messages', messages'[n].role = "assistant"
        PROVE  n > 1 /\ messages'[n - 1].role = "user"
    <3>1. n \in 1..Len(messages) /\ messages[n].role = "assistant"
      BY <1>8, <1>9, <2>1
    <3>2. n > 1 /\ messages[n - 1].role = "user"
      BY <1>9, <3>1 DEF RoutingSerial, Routing!AnsweredOnce
    <3> QED
      BY <1>9, <3>1, <3>2
  <2>2. ASSUME clients.faults \cap {"crash", "refusal"} = {},
               NEW n \in DOMAIN messages', messages'[n].role = "user", n # Len(messages')
        PROVE  messages'[n + 1].role = "assistant"
    <3>1. n \in 1..Len(messages) /\ messages[n].role = "user"
      BY <1>9, <2>2
    <3>2. n # Len(messages) /\ messages[n + 1].role = "assistant"
      BY <1>7, <1>9, <2>2, <3>1 DEF RoutingSerial, Routing!AnsweredOnce
    <3> QED
      BY <1>9, <3>1, <3>2
  <2> QED
    BY <1>3, <1>7, <2>1, <2>2 DEF Routing!AnsweredOnce, Routing!OneAtATime
<1> QED
  BY <1>4, <1>5, <1>6, <1>10, <1>11 DEF RoutingSerial

LEMMA AnswerTurnSerial ==
  ASSUME RoutingInv, Routing!OneAtATime, RoutingSerial, NEW t \in Threads, Routing!Answer(t)
  PROVE  RoutingSerial'
<1>1. PICK own : own = [role |-> "assistant", text |-> Nil]
  OBVIOUS
<1>2. /\ messages' = Append(messages, own) /\ own.role = "assistant" /\ Routing!Done(t)
      /\ UNCHANGED <<awaited, clients>> /\ job[t].call = "answer"
  BY <1>1 DEF Routing!Answer, Routing!At
<1>3. t \in clients.threads /\ UserSpoke
  BY <1>2 DEF RoutingInv, RequestJobs, RoutingSerial
<1>4. \A u \in Threads : job'[u] = Routing!Idle
  BY <1>2, <1>3, OtherTurnsIdle DEF Routing!Done
<1>5. Routing!Idle.call = "none"
  BY DEF Routing!Idle
<1>6. messages \in Seq(Said) /\ own \in Said
  BY <1>1 DEF RoutingInv, Routing!TypeOK, Said
<1>7. /\ Len(messages') = Len(messages) + 1 /\ messages'[Len(messages')] = own
      /\ \A n \in 1..Len(messages) : messages'[n] = messages[n]
      /\ DOMAIN messages' = 1..Len(messages') /\ DOMAIN messages = 1..Len(messages)
      /\ Len(messages) \in Nat
  BY <1>2, <1>6
<1>8. Len(messages) > 0 /\ messages[Len(messages)].role = "user"
  BY <1>3, <1>6 DEF UserSpoke
<1>9. Routing!AnsweredOnce'
  <2>1. ASSUME NEW n \in DOMAIN messages', messages'[n].role = "assistant"
        PROVE  n > 1 /\ messages'[n - 1].role = "user"
    <3>1. CASE n = Len(messages')
      BY <1>7, <1>8, <3>1
    <3>2. CASE n # Len(messages')
      <4>1. n \in 1..Len(messages) /\ messages[n].role = "assistant"
        BY <1>7, <2>1, <3>2
      <4>2. n > 1 /\ messages[n - 1].role = "user"
        BY <1>7, <4>1 DEF RoutingSerial, Routing!AnsweredOnce
      <4> QED
        BY <1>7, <4>1, <4>2
    <3> QED
      BY <3>1, <3>2
  <2>2. ASSUME clients.faults \cap {"crash", "refusal"} = {},
               NEW n \in DOMAIN messages', messages'[n].role = "user"
        PROVE  n # Len(messages') /\ messages'[n + 1].role = "assistant"
    <3>1. n \in 1..Len(messages) /\ messages[n].role = "user"
      BY <1>2, <1>7, <2>2
    <3>2. CASE n = Len(messages)
      BY <1>2, <1>7, <3>1, <3>2, Zenon
    <3>3. CASE n # Len(messages)
      <4>1. messages[n + 1].role = "assistant"
        BY <1>7, <2>2, <3>1, <3>3 DEF RoutingSerial, Routing!AnsweredOnce
      <4> QED
        BY <1>7, <3>1, <3>3, <4>1
    <3> QED
      BY <3>2, <3>3
  <2> QED
    BY <1>2, <2>1, <2>2 DEF Routing!AnsweredOnce, Routing!OneAtATime
<1> QED
  BY <1>4, <1>5, <1>9 DEF RoutingSerial

LEMMA RoutingSerialStep ==
  ASSUME Routing!RoutingConstants, RoutingInv, Routing!OneAtATime, RoutingSerial,
         [Routing!Next]_Routing!vars
  PROVE  RoutingSerial'
<1>1. CASE UNCHANGED Routing!vars
  BY <1>1 DEF Routing!vars, RoutingSerial, UserSpoke, Routing!AnsweredOnce, Routing!OneAtATime, Routing!AllIdle
<1>2. CASE Routing!Settle
  <2>1. UNCHANGED <<messages, job, clients>> /\ \A t \in Threads : job[t].call = "none"
    BY <1>2 DEF Routing!Settle, Routing!AllIdle, Routing!Idle
  <2> QED
    BY <2>1 DEF RoutingSerial, UserSpoke, Routing!AnsweredOnce, Routing!OneAtATime, Routing!AllIdle
<1>3. ASSUME NEW t \in Threads, Routing!Orchestrate(t) PROVE RoutingSerial'
  <2>1. UNCHANGED <<messages, clients>> /\ t \in clients.threads /\ job[t].call # "none"
    BY <1>3 DEF Routing!Orchestrate, Routing!At, RoutingInv, RequestJobs
  <2>2. PICK c \in {"orchestrate", "route", "agent"} : \E r : Routing!Take(t, c, Nil, r)
    BY <1>3 DEF Routing!Orchestrate, Routing!RetryCall
  <2>3. PICK r : Routing!Take(t, c, Nil, r)
    BY <2>2
  <2>4. PICK j : j = [call |-> c, key |-> Nil, row |-> r]
    OBVIOUS
  <2>5. job' = [job EXCEPT ![t] = j] /\ j.call = c
    BY <2>3, <2>4 DEF Routing!Take
  <2> QED
    BY <2>1, <2>5, SilentStage
<1>4. ASSUME NEW t \in Threads, Routing!Agent(t) PROVE RoutingSerial'
  <2>1. UNCHANGED <<messages, clients>> /\ t \in clients.threads /\ job[t].call # "none"
    BY <1>4 DEF Routing!Agent, Routing!At, RoutingInv, RequestJobs
  <2>2. \/ \E c \in {"agent", "route"} : \E r : Routing!Take(t, c, Nil, r)
        \/ \E r : Routing!Take(t, "answer", awaited', r)
    BY <1>4 DEF Routing!Agent, Routing!Failed, Routing!AgentAnswer, Routing!Answering
  <2>3. PICK c \in {"agent", "route", "answer"} :
          \E k, r : Routing!Take(t, c, k, r) /\ (c = "answer" => k = awaited')
    BY <2>2
  <2>4. PICK k, r : Routing!Take(t, c, k, r) /\ (c = "answer" => k = awaited')
    BY <2>3
  <2>5. PICK j : j = [call |-> c, key |-> k, row |-> r]
    OBVIOUS
  <2>6. /\ job' = [job EXCEPT ![t] = j] /\ j.call = c
        /\ j.call = "answer" => Asks(j.key, j.row, awaited')
    BY <2>4, <2>5 DEF Routing!Take, Asks
  <2> QED
    BY <2>1, <2>6, SilentStage
<1>5. ASSUME NEW t \in Threads, Routing!Route(t) PROVE RoutingSerial'
  <2>1. UNCHANGED <<messages, clients>> /\ t \in clients.threads /\ job[t].call = "route"
    BY <1>5 DEF Routing!Route, Routing!At, RoutingInv, RequestJobs
  <2>2. Routed(job[t].row)
    BY <2>1 DEF RoutingInv, RequestJobs, RequestFits
  <2>3. CASE Routing!Done(t) /\ Routing!Fault("refusal")
    <3>1. clients.faults \cap {"crash", "refusal"} # {}
      BY <2>3 DEF Routing!Fault
    <3> QED
      BY <2>1, <2>3, <3>1, SilentEnd
  <2>4. CASE Routing!Answering(t, Nil, job[t].row)
    <3>1. PICK j : j = [call |-> "answer", key |-> Nil, row |-> job[t].row]
      OBVIOUS
    <3>2. job' = [job EXCEPT ![t] = j] /\ j.call = "answer" /\ Asks(j.key, j.row, awaited')
      BY <2>2, <2>4, <3>1 DEF Routing!Answering, Routing!Take, Asks, Routed
    <3> QED
      BY <2>1, <3>2, SilentStage
  <2>5. ASSUME NEW r, Routing!Answering(t, awaited', r) PROVE RoutingSerial'
    <3>1. PICK k : k = awaited'
      OBVIOUS
    <3>2. PICK j : j = [call |-> "answer", key |-> k, row |-> r]
      OBVIOUS
    <3>3. job' = [job EXCEPT ![t] = j] /\ j.call = "answer" /\ Asks(j.key, j.row, awaited')
      BY <2>5, <3>1, <3>2 DEF Routing!Answering, Routing!Take, Asks
    <3> QED
      BY <2>1, <3>3, SilentStage
  <2> QED
    BY <1>5, <2>3, <2>4, <2>5 DEF Routing!Route
<1>6. ASSUME NEW t \in Threads, Routing!Crash(t) PROVE RoutingSerial'
  <2>1. /\ UNCHANGED <<messages, clients>> /\ t \in clients.threads /\ Routing!Done(t)
        /\ clients.faults \cap {"crash", "refusal"} # {}
    BY <1>6 DEF Routing!Crash, Routing!Fault, RoutingInv, RequestJobs, RequestFits
  <2> QED
    BY <2>1, SilentEnd
<1> QED
  BY <1>1, <1>2, <1>3, <1>4, <1>5, <1>6, SaySerial, AnswerTurnSerial DEF Routing!Next

\* Requests that are as described are as AssistantRouting promises.
LEMMA RoutingKept ==
  ASSUME Routing!RoutingConstants, RoutingInv, Routing!OneAtATime => RoutingSerial
  PROVE  /\ Routing!TypeOK /\ Routing!ModelCallsBounded /\ Routing!AskedIfStaged
         /\ Routing!NamedToolDecides /\ Routing!AnsweredOnce
<1>1. ASSUME NEW t \in Threads, job[t].call # "none"
      PROVE  job[t].row.calls <= 2 * (Retries + 1) + MaxRounds
  <2>1. PICK row : row = job[t].row
    OBVIOUS
  <2>2. row \in Requests(row.prompt) /\ RequestFits(job[t])
    BY <1>1, <2>1 DEF RoutingInv, RequestJobs, RequestFits
  <2>3. /\ row.calls \in Nat /\ row.attempt \in {1, 2} /\ row.tries \in Nat /\ row.rounds \in Nat
        /\ Retries \in Nat /\ MaxRounds \in Nat
    BY <2>2 DEF Requests, Routing!RoutingConstants
  <2>4. CASE Orchestrated(row)
    BY <2>1, <2>3, <2>4 DEF Orchestrated
  <2>5. CASE Agentic(row)
    BY <2>1, <2>3, <2>5 DEF Agentic
  <2> QED
    BY <1>1, <2>1, <2>2, <2>4, <2>5 DEF RequestFits, Routed, Answered, Bounded
<1>2. Routing!ModelCallsBounded
  BY <1>1 DEF Routing!ModelCallsBounded
<1>3. Routing!NamedToolDecides
  BY DEF Routing!NamedToolDecides, Routing!At, RoutingInv, RequestJobs, RequestFits, Answered
<1>4. Routing!AskedIfStaged
  BY DEF Routing!AskedIfStaged, Routing!At, RoutingSerial, Asks
<1>5. Routing!AnsweredOnce
  BY DEF Routing!AnsweredOnce, RoutingSerial
<1> QED
  BY <1>2, <1>3, <1>4, <1>5 DEF RoutingInv

-----------------------------------------------------------------------------
(* OAuthConnections: a user has one connection, a Jira account one, and    *)
(* tokens were issued, whatever races.                                     *)

OneEach ==
  /\ \A k, l \in OAuth!Live : connection[k].user = connection[l].user => k = l
  /\ OAuth!Jira => \A k, l \in OAuth!Live :
       /\ connection[k].account \in ProviderAccounts
       /\ connection[k].account = connection[l].account => k = l

ConnectionsInv ==
  /\ connection \in [Connections -> OAuth!Rows \cup {Nil, Deleted}]
  /\ state \in [Owners -> {"none", "issued"}]
  /\ code \in [Owners -> ProviderAccounts \cup {Nil}]
  /\ mapping \in [ProviderAccounts -> Owners \cup {Nil}]
  /\ issued \in OAuth!Tokens /\ accepted \subseteq 1..issued
  /\ OneEach
  /\ \A k \in OAuth!Live : connection[k].access <= issued /\ connection[k].refresh <= issued

\* What a call holds at its stages, when n tokens were issued.
CallFits(n, j) ==
  /\ j.call \in {"none", "exchange", "connect", "store", "mapping", "refresh", "refreshed", "rejected"}
  /\ j.call = "exchange" => j.key \in Owners
  /\ j.call = "connect" => j.key \in Owners /\ j.row \in [account : ProviderAccounts, token : 1..n]
  /\ j.call \in {"store", "mapping"} =>
       /\ j.key \in Connections
       /\ j.row \in [user : Owners, account : ProviderAccounts \cup {Nil}, token : 1..n]
       /\ OAuth!Jira => j.row.account \in ProviderAccounts
  /\ j.call = "mapping" => OAuth!Jira
  /\ j.call \in {"refresh", "refreshed", "rejected"} =>
       /\ j.key \in Connections /\ j.row \in OAuth!Rows
       /\ j.row.access <= n /\ j.row.refresh <= n
  /\ j = [call |-> j.call, key |-> j.key, row |-> j.row]

CallsInv ==
  /\ job = [t \in Threads |-> job[t]]
  /\ \A t \in Threads : CallFits(issued, job[t]) /\ (job[t].call # "none" => t \in clients.threads)

OAuthInv == ConnectionsInv /\ CallsInv

LEMMA OAuthNulls ==
  ASSUME OAuth!OAuthConstants
  PROVE  /\ Nil \notin OAuth!Rows /\ Deleted \notin OAuth!Rows /\ Nil # Deleted
         /\ Nil \notin ProviderAccounts /\ MaxToken \in Nat
BY DEF OAuth!OAuthConstants

LEMMA OAuthInit ==
  ASSUME OAuth!OAuthConstants, OAuth!Start, Begin PROVE OAuthInv
<1>1. OAuth!Live = {}
  BY OAuthNulls DEF OAuth!Live, OAuth!Start
<1>2. ConnectionsInv
  BY <1>1, OAuthNulls DEF ConnectionsInv, OneEach, OAuth!Start, OAuth!Tokens
<1>3. CallsInv
  BY DEF CallsInv, CallFits, Begin, Idle
<1> QED
  BY <1>2, <1>3 DEF OAuthInv

LEMMA CallTaken ==
  ASSUME OAuth!OAuthConstants, OAuthInv, NEW t \in Threads, NEW j, NEW n, n = issued', CallFits(n, j),
         j.call # "none" => t \in clients.threads, job' = [job EXCEPT ![t] = j],
         clients' = clients, issued' \in OAuth!Tokens, issued <= issued'
  PROVE  CallsInv'
<1>1. job'[t] = j /\ \A u \in Threads : u # t => job'[u] = job[u]
  BY DEF OAuthInv, CallsInv
<1>2. job' = [u \in Threads |-> job'[u]]
  BY DEF OAuthInv, CallsInv
<1>3. PICK m : m = issued
  OBVIOUS
<1>4. m \in Nat /\ n \in Nat /\ m <= n
  BY <1>3, OAuthNulls DEF OAuthInv, ConnectionsInv, OAuth!Tokens
<1>5. \A i : CallFits(m, i) => CallFits(n, i)
  <2> TAKE i
  <2> SUFFICES ASSUME CallFits(m, i) PROVE CallFits(n, i)
    OBVIOUS
  <2>1. 1..m \subseteq 1..n
    BY <1>4
  <2>2. i.row \in OAuth!Rows => i.row.access \in Int /\ i.row.refresh \in Int
    BY OAuthNulls DEF OAuth!Rows, OAuth!Tokens
  <2> QED
    BY <1>4, <2>1, <2>2 DEF CallFits
<1>6. ASSUME NEW u \in Threads
      PROVE  CallFits(issued, job[u])' /\ (job[u].call # "none" => u \in clients.threads)'
  <2>1. PICK i : i = job'[u]
    OBVIOUS
  <2>2. CallFits(n, i) /\ (i.call # "none" => u \in clients.threads)
    BY <1>1, <1>3, <1>5, <2>1 DEF OAuthInv, CallsInv
  <2>3. CallFits(n, i)'
    BY <2>2 DEF CallFits, OAuth!Jira
  <2> QED
    BY <2>1, <2>2, <2>3
<1> QED
  BY <1>2, <1>6 DEF CallsInv

LEMMA CallEnds ==
  ASSUME OAuth!OAuthConstants, OAuthInv, NEW t \in Threads, OAuth!Done(t),
         clients' = clients, issued' \in OAuth!Tokens, issued <= issued'
  PROVE  CallsInv'
<1>1. PICK n : n = issued'
  OBVIOUS
<1>2. CallFits(n, OAuth!Idle) /\ OAuth!Idle.call = "none"
  BY DEF CallFits, OAuth!Idle
<1> QED
  BY <1>1, <1>2, CallTaken DEF OAuth!Done

LEMMA CallsStay ==
  ASSUME OAuthInv, UNCHANGED <<job, clients, issued>> PROVE CallsInv'
BY DEF OAuthInv, CallsInv, CallFits, OAuth!Jira

\* A row is written.
LEMMA RowWritten ==
  ASSUME OAuth!OAuthConstants, ConnectionsInv, NEW k \in Connections, NEW r \in OAuth!Rows,
         connection' = [connection EXCEPT ![k] = r], r.access <= issued, r.refresh <= issued,
         \A l \in OAuth!Live : connection[l].user = r.user => l = k,
         OAuth!Jira => /\ r.account \in ProviderAccounts
                       /\ \A l \in OAuth!Live : connection[l].account = r.account => l = k,
         UNCHANGED <<state, code, mapping, issued, accepted, clients>>
  PROVE  ConnectionsInv' /\ connection'[k] = r /\ OAuth!Live' = OAuth!Live \cup {k}
<1>1. connection'[k] = r /\ \A l \in Connections : l # k => connection'[l] = connection[l]
  BY DEF ConnectionsInv
<1>2. connection' \in [Connections -> OAuth!Rows \cup {Nil, Deleted}]
  BY DEF ConnectionsInv
<1>3. OAuth!Live' = OAuth!Live \cup {k}
  BY <1>1 DEF OAuth!Live
<1>4. OAuth!Jira' <=> OAuth!Jira
  BY DEF OAuth!Jira
<1>5. OneEach'
  <2>1. ASSUME NEW l \in OAuth!Live', NEW m \in OAuth!Live', connection'[l].user = connection'[m].user
        PROVE  l = m
    BY <1>1, <1>3, <2>1 DEF ConnectionsInv, OneEach, OAuth!Live
  <2>2. ASSUME OAuth!Jira, NEW l \in OAuth!Live', NEW m \in OAuth!Live'
        PROVE  /\ connection'[l].account \in ProviderAccounts
               /\ connection'[l].account = connection'[m].account => l = m
    BY <1>1, <1>3, <2>2 DEF ConnectionsInv, OneEach, OAuth!Live
  <2> QED
    BY <1>4, <2>1, <2>2 DEF OneEach
<1>6. \A l \in OAuth!Live' : connection'[l].access <= issued' /\ connection'[l].refresh <= issued'
  BY <1>1, <1>3 DEF ConnectionsInv, OAuth!Live
<1> QED
  BY <1>1, <1>2, <1>3, <1>5, <1>6 DEF ConnectionsInv

LEMMA UnwrittenStays ==
  ASSUME ConnectionsInv, UNCHANGED <<connection, issued, clients>>,
         state' \in [Owners -> {"none", "issued"}], code' \in [Owners -> ProviderAccounts \cup {Nil}],
         mapping' \in [ProviderAccounts -> Owners \cup {Nil}], accepted' \subseteq 1..issued
  PROVE  ConnectionsInv'
BY DEF ConnectionsInv, OneEach, OAuth!Live, OAuth!Jira

LEMMA ConnectionsStay ==
  ASSUME ConnectionsInv, UNCHANGED <<connection, clients>>, issued' \in OAuth!Tokens,
         issued <= issued', OAuth!OAuthConstants,
         state' \in [Owners -> {"none", "issued"}], code' \in [Owners -> ProviderAccounts \cup {Nil}],
         mapping' \in [ProviderAccounts -> Owners \cup {Nil}], accepted' \subseteq 1..issued'
  PROVE  ConnectionsInv'
<1>1. OAuth!Live' = OAuth!Live /\ (OAuth!Jira' <=> OAuth!Jira)
  BY DEF OAuth!Live, OAuth!Jira
<1>2. \A k \in OAuth!Live : connection[k].access \in Nat /\ connection[k].refresh \in Nat
  BY OAuthNulls DEF OAuth!Live, OAuth!Rows, OAuth!Tokens
<1>3. issued \in Nat /\ issued' \in Nat
  BY OAuthNulls DEF ConnectionsInv, OAuth!Tokens
<1>4. \A k \in OAuth!Live : connection[k].access <= issued' /\ connection[k].refresh <= issued'
  BY <1>2, <1>3 DEF ConnectionsInv
<1> QED
  BY <1>1, <1>4 DEF ConnectionsInv, OneEach

\* What is in the tables of a live connection.
LEMMA LiveRow ==
  ASSUME OAuth!OAuthConstants, ConnectionsInv, NEW k \in OAuth!Live
  PROVE  /\ k \in Connections /\ connection[k] \in OAuth!Rows /\ issued \in Nat
         /\ connection[k].access \in Nat /\ connection[k].access <= issued
         /\ connection[k].refresh \in Nat /\ connection[k].refresh <= issued
         /\ \A l \in OAuth!Live : connection[l].user = connection[k].user => l = k
         /\ OAuth!Jira => /\ connection[k].account \in ProviderAccounts
                          /\ \A l \in OAuth!Live : connection[l].account = connection[k].account => l = k
BY OAuthNulls DEF ConnectionsInv, OneEach, OAuth!Live, OAuth!Rows, OAuth!Tokens

LEMMA TokensSaved ==
  ASSUME OAuth!OAuthConstants, ConnectionsInv, NEW k \in OAuth!Live,
         NEW a \in 0..issued, NEW r \in 0..issued, NEW e \in BOOLEAN,
         connection' = [connection EXCEPT ![k].access = a, ![k].refresh = r, ![k].expired = e],
         UNCHANGED <<state, code, mapping, issued, accepted, clients>>
  PROVE  /\ ConnectionsInv' /\ OAuth!Live' = OAuth!Live
         /\ connection'[k].refresh = r /\ connection'[k].user = connection[k].user
         /\ connection'[k].account = connection[k].account
<1>1. PICK old : old = connection[k]
  OBVIOUS
<1>2. PICK new : new = [old EXCEPT !.access = a, !.refresh = r, !.expired = e]
  OBVIOUS
<1>3. old \in OAuth!Rows /\ issued \in Nat /\ issued <= MaxToken /\ MaxToken \in Nat
  BY <1>1, LiveRow, OAuthNulls DEF ConnectionsInv, OAuth!Tokens
<1>4. /\ new \in OAuth!Rows /\ new.user = old.user /\ new.account = old.account
      /\ new.access = a /\ new.refresh = r
  <2>1. a \in OAuth!Tokens /\ r \in OAuth!Tokens
    BY <1>3 DEF OAuth!Tokens
  <2> QED
    BY <1>2, <1>3, <2>1 DEF OAuth!Rows
<1>5. connection' = [connection EXCEPT ![k] = new]
  BY <1>1, <1>2, LiveRow DEF ConnectionsInv
<1>6. ConnectionsInv' /\ connection'[k] = new /\ OAuth!Live' = OAuth!Live \cup {k}
  <2>1. new.access <= issued /\ new.refresh <= issued
    BY <1>4
  <2>2. \A l \in OAuth!Live : connection[l].user = new.user => l = k
    BY <1>1, <1>4, LiveRow
  <2>3. OAuth!Jira => /\ new.account \in ProviderAccounts
                      /\ \A l \in OAuth!Live : connection[l].account = new.account => l = k
    BY <1>1, <1>4, LiveRow
  <2>4. k \in Connections
    BY LiveRow
  <2> QED
    BY <1>4, <1>5, <2>1, <2>2, <2>3, <2>4, RowWritten
<1> QED
  BY <1>1, <1>4, <1>6

LEMMA ConnectingInv ==
  ASSUME OAuth!OAuthConstants, clients \in Clients, clients.area = "oauth", OAuthInv,
         NEW t \in Threads,
         \/ OAuth!Authorize(t) \/ OAuth!CallbackLoad(t) \/ OAuth!Exchange(t) \/ OAuth!SaveMapping(t)
         \/ OAuth!Map(t)
  PROVE  OAuthInv'
<1>0. clients.users \subseteq Owners /\ clients.accounts \subseteq ProviderAccounts
  BY DEF OAuth!OAuthConstants
<1>1. CASE OAuth!Authorize(t)
  <2>1. UNCHANGED <<connection, mapping, issued, accepted, job, clients>>
    BY <1>1 DEF OAuth!Authorize
  <2>2. state' \in [Owners -> {"none", "issued"}] /\ code' \in [Owners -> ProviderAccounts \cup {Nil}]
    BY <1>0, <1>1 DEF OAuth!Authorize, OAuthInv, ConnectionsInv
  <2> QED
    BY <2>1, <2>2, CallsStay, UnwrittenStays DEF OAuthInv, ConnectionsInv
<1>2. CASE OAuth!CallbackLoad(t)
  <2>1. UNCHANGED OAuth!data /\ UNCHANGED clients /\ t \in clients.threads
    BY <1>2 DEF OAuth!CallbackLoad, OAuth!Free
  <2>2. PICK u \in Owners : OAuth!Take(t, "exchange", u, Nil)
    BY <1>2 DEF OAuth!CallbackLoad
  <2>3. PICK n, j : n = issued' /\ j = [call |-> "exchange", key |-> u, row |-> Nil]
    OBVIOUS
  <2>4. CallFits(n, j) /\ job' = [job EXCEPT ![t] = j]
    BY <2>2, <2>3 DEF CallFits, OAuth!Take
  <2>5. issued' \in OAuth!Tokens /\ issued <= issued'
    BY <2>1, OAuthNulls DEF OAuth!data, OAuth!Tokens, OAuthInv, ConnectionsInv
  <2>6. CallsInv'
    BY <2>1, <2>3, <2>4, <2>5, CallTaken
  <2> QED
    BY <2>1, <2>6, UnwrittenStays DEF OAuthInv, ConnectionsInv, OAuth!data
<1>3. CASE OAuth!Exchange(t)
  <2>1. UNCHANGED <<connection, mapping, clients>> /\ t \in clients.threads /\ job[t].key \in Owners
    BY <1>3 DEF OAuth!Exchange, OAuth!At, OAuthInv, CallsInv, CallFits
  <2>2. state' \in [Owners -> {"none", "issued"}] /\ code' \in [Owners -> ProviderAccounts \cup {Nil}]
    BY <1>3, <2>1 DEF OAuth!Exchange, OAuthInv, ConnectionsInv
  <2>3. CASE /\ code[job[t].key] # Nil /\ OAuth!NewTokens /\ accepted' = accepted \cup {issued'}
            /\ OAuth!Take(t, "connect", job[t].key, [account |-> code[job[t].key], token |-> issued'])
    <3>1. PICK n, u, a : n = issued' /\ u = job[t].key /\ a = code[job[t].key]
      OBVIOUS
    <3>2. PICK j : j = [call |-> "connect", key |-> u, row |-> [account |-> a, token |-> n]]
      OBVIOUS
    <3>3. n = issued + 1 /\ issued \in Nat /\ n <= MaxToken /\ n \in Nat /\ MaxToken \in Nat
      BY <2>3, <3>1, OAuthNulls DEF OAuth!NewTokens, OAuthInv, ConnectionsInv, OAuth!Tokens
    <3>4. a \in ProviderAccounts /\ u \in Owners
      BY <2>1, <2>3, <3>1 DEF OAuthInv, ConnectionsInv
    <3>5. CallFits(n, j) /\ job' = [job EXCEPT ![t] = j]
      BY <2>3, <3>1, <3>2, <3>3, <3>4 DEF CallFits, OAuth!Take
    <3>6. issued' \in OAuth!Tokens /\ issued <= issued' /\ accepted' \subseteq 1..issued'
      <4>1. accepted \subseteq 1..issued /\ accepted' = accepted \cup {n} /\ issued' = n
        BY <2>3, <3>1 DEF OAuthInv, ConnectionsInv
      <4>2. accepted' \subseteq 1..n
        BY <3>3, <4>1
      <4> QED
        BY <3>3, <4>1, <4>2 DEF OAuth!Tokens
    <3>7. CallsInv'
      BY <2>1, <3>1, <3>5, <3>6, CallTaken
    <3> QED
      BY <2>1, <2>2, <3>6, <3>7, ConnectionsStay DEF OAuthInv, ConnectionsInv
  <2>5. CASE OAuth!NewTokens /\ accepted' = accepted \cup {issued'} /\ OAuth!Done(t)
    <3>1. issued' = issued + 1 /\ issued \in Nat /\ issued' <= MaxToken /\ MaxToken \in Nat
      BY <2>5, OAuthNulls DEF OAuth!NewTokens, OAuthInv, ConnectionsInv, OAuth!Tokens
    <3>2. issued' \in OAuth!Tokens /\ issued <= issued' /\ accepted \subseteq 1..issued
      BY <3>1 DEF OAuthInv, ConnectionsInv, OAuth!Tokens
    <3>3. accepted' \subseteq 1..issued'
      BY <2>5, <3>1, <3>2
    <3> QED
      BY <2>1, <2>2, <2>5, <3>2, <3>3, CallEnds, ConnectionsStay DEF OAuthInv, ConnectionsInv
  <2>4. CASE OAuth!Done(t) /\ UNCHANGED <<issued, accepted>>
    <3>1. issued' \in OAuth!Tokens /\ issued <= issued'
      BY <2>4, OAuthNulls DEF OAuth!Tokens, OAuthInv, ConnectionsInv
    <3> QED
      BY <2>1, <2>2, <2>4, <3>1, CallEnds, UnwrittenStays DEF OAuthInv, ConnectionsInv
  <2> QED
    BY <1>3, <2>3, <2>4, <2>5 DEF OAuth!Exchange
<1>4. CASE OAuth!SaveMapping(t)
  <2>1. UNCHANGED <<connection, state, code, issued, accepted, job, clients>>
    BY <1>4 DEF OAuth!SaveMapping
  <2>2. mapping' \in [ProviderAccounts -> Owners \cup {Nil}]
    BY <1>0, <1>4 DEF OAuth!SaveMapping, OAuthInv, ConnectionsInv
  <2> QED
    BY <2>1, <2>2, CallsStay, UnwrittenStays DEF OAuthInv, ConnectionsInv
<1>5. CASE OAuth!Map(t)
  <2>1. UNCHANGED <<connection, state, code, issued, accepted, clients>> /\ OAuth!Done(t)
    BY <1>5 DEF OAuth!Map
  <2>2. job[t].row.user \in Owners
    BY <1>5 DEF OAuth!Map, OAuth!At, OAuthInv, CallsInv, CallFits
  <2>3. mapping' \in [ProviderAccounts -> Owners \cup {Nil}]
    BY <1>5, <2>2 DEF OAuth!Map, OAuthInv, ConnectionsInv
  <2>4. issued' \in OAuth!Tokens /\ issued <= issued'
    BY <2>1, OAuthNulls DEF OAuth!Tokens, OAuthInv, ConnectionsInv
  <2> QED
    BY <2>1, <2>3, <2>4, CallEnds, UnwrittenStays DEF OAuthInv, ConnectionsInv
<1> QED
  BY <1>1, <1>2, <1>3, <1>4, <1>5

\* The row that a callback makes its user's.
Connecting(t, k, r) ==
  /\ connection' = [connection EXCEPT ![k] = r]
  /\ OAuth!Take(t, "store", k,
                [user |-> job[t].key, account |-> IF OAuth!Jira THEN job[t].row.account ELSE Nil,
                 token |-> job[t].row.token])
  /\ r.user = job[t].key /\ \A l \in OAuth!Live : connection[l].user = r.user => l = k
  /\ OAuth!Jira => /\ r.account = job[t].row.account
                   /\ \A l \in OAuth!Live : connection[l].account = r.account => l = k
  /\ \/ k \in OAuth!Live /\ r.access = connection[k].access /\ r.refresh = connection[k].refresh
     \/ connection[k] = Nil /\ r.access = 0 /\ r.refresh = 0

LEMMA ConnectShape ==
  ASSUME OAuth!OAuthConstants, OAuthInv, NEW t \in Threads, OAuth!Connect(t)
  PROVE  \/ OAuth!Done(t) /\ UNCHANGED connection
         \/ \E k \in Connections : \E r \in OAuth!Rows : Connecting(t, k, r)
<1>a. PICK uu, a, token : /\ uu = job[t].key /\ token = job[t].row.token
                         /\ a = IF OAuth!Jira THEN job[t].row.account ELSE Nil
  OBVIOUS
<1>1. /\ uu \in Owners /\ a \in ProviderAccounts \cup {Nil}
      /\ OAuth!Jira => a = job[t].row.account /\ a \in ProviderAccounts
  BY <1>a, Zenon DEF OAuth!Connect, OAuth!At, OAuthInv, CallsInv, CallFits
<1>b. PICK found : found = IF OAuth!Jira THEN {k \in OAuth!Live : connection[k].account = a} ELSE OAuth!Of(uu)
  OBVIOUS
<1> DEFINE Storing(k, r) ==
             IF OAuth!Unique(uu, k)
             THEN /\ connection' = [connection EXCEPT ![k] = r]
                  /\ OAuth!Take(t, "store", k, [user |-> uu, account |-> a, token |-> token])
             ELSE OAuth!Done(t) /\ UNCHANGED connection
<1>2. \/ \E k \in found : Storing(k, [connection[k] EXCEPT !.user = uu, !.expired = FALSE])
      \/ /\ found = {}
         /\ \E k \in Connections :
              /\ OAuth!Unused(k)
              /\ Storing(k, [user |-> uu, account |-> a, access |-> 0, refresh |-> 0, expired |-> FALSE])
  BY <1>a, <1>b, Zenon DEF OAuth!Connect
<1>3. ASSUME NEW k \in Connections, OAuth!Unique(uu, k)
      PROVE  \A l \in OAuth!Live : connection[l].user = uu => l = k
  BY <1>3 DEF OAuth!Unique, OAuth!Of
<1>4. ASSUME NEW k \in found, Storing(k, [connection[k] EXCEPT !.user = uu, !.expired = FALSE])
      PROVE  \/ OAuth!Done(t) /\ UNCHANGED connection
             \/ \E r \in OAuth!Rows : k \in Connections /\ Connecting(t, k, r)
  <2>1. PICK old, r : old = connection[k] /\ r = [old EXCEPT !.user = uu, !.expired = FALSE]
    BY Zenon
  <2>2. k \in OAuth!Live /\ (OAuth!Jira => connection[k].account = a)
    BY <1>b DEF OAuth!Of
  <2>3. k \in Connections /\ old \in OAuth!Rows
    BY <2>1, <2>2, LiveRow DEF OAuthInv
  <2>4. /\ r \in OAuth!Rows /\ r.user = uu /\ r.account = old.account
        /\ r.access = old.access /\ r.refresh = old.refresh
    BY <1>1, <2>1, <2>3 DEF OAuth!Rows
  <2>5. OAuth!Jira => r.account = a /\ \A l \in OAuth!Live : connection[l].account = r.account => l = k
    BY <2>1, <2>2, <2>4, LiveRow DEF OAuthInv
  <2>6. CASE OAuth!Unique(uu, k)
    <3>1. /\ connection' = [connection EXCEPT ![k] = r]
          /\ OAuth!Take(t, "store", k, [user |-> uu, account |-> a, token |-> token])
      BY <1>4, <2>1, <2>6
    <3>2. Connecting(t, k, r)
      BY <1>a, <1>1, <1>3, <2>1, <2>2, <2>3, <2>4, <2>5, <2>6, <3>1 DEF Connecting
    <3> QED
      BY <2>3, <2>4, <3>2
  <2> QED
    BY <1>4, <2>6
<1>5. ASSUME found = {}, NEW k \in Connections, OAuth!Unused(k),
             Storing(k, [user |-> uu, account |-> a, access |-> 0, refresh |-> 0, expired |-> FALSE])
      PROVE  \/ OAuth!Done(t) /\ UNCHANGED connection
             \/ \E r \in OAuth!Rows : Connecting(t, k, r)
  <2>1. PICK r : r = [user |-> uu, account |-> a, access |-> 0, refresh |-> 0, expired |-> FALSE]
    OBVIOUS
  <2>2. 0 \in OAuth!Tokens
    BY OAuthNulls DEF OAuth!Tokens
  <2>3. r \in OAuth!Rows /\ r.user = uu /\ r.account = a /\ r.access = 0 /\ r.refresh = 0
    BY <1>1, <2>1, <2>2 DEF OAuth!Rows
  <2>4. OAuth!Jira => \A l \in OAuth!Live : connection[l].account = a => l = k
    BY <1>b, <1>5
  <2>5. CASE OAuth!Unique(uu, k)
    <3>1. /\ connection' = [connection EXCEPT ![k] = r]
          /\ OAuth!Take(t, "store", k, [user |-> uu, account |-> a, token |-> token])
      BY <1>5, <2>1, <2>5
    <3>2. Connecting(t, k, r)
      BY <1>a, <1>1, <1>3, <1>5, <2>3, <2>4, <2>5, <3>1 DEF Connecting, OAuth!Unused
    <3> QED
      BY <2>3, <3>2
  <2> QED
    BY <1>5, <2>5
<1>6. ASSUME NEW k \in found PROVE k \in Connections
  BY <1>b DEF OAuth!Of, OAuth!Live
<1> HIDE DEF Storing
<1> QED
  BY <1>2, <1>4, <1>5, <1>6, Zenon

LEMMA ConnectInv ==
  ASSUME OAuth!OAuthConstants, OAuthInv, NEW t \in Threads, OAuth!Connect(t)
  PROVE  OAuthInv'
<1>1. UNCHANGED <<state, code, mapping, issued, accepted, clients>> /\ t \in clients.threads
  BY Zenon DEF OAuth!Connect, OAuth!At, OAuthInv, CallsInv
<1>2. issued' \in OAuth!Tokens /\ issued <= issued' /\ issued \in Nat
  BY <1>1, OAuthNulls DEF OAuth!Tokens, OAuthInv, ConnectionsInv
<1>3. CASE OAuth!Done(t) /\ UNCHANGED connection
  BY <1>1, <1>2, <1>3, CallEnds, UnwrittenStays DEF OAuthInv, ConnectionsInv
<1>4. ASSUME NEW k \in Connections, NEW r \in OAuth!Rows, Connecting(t, k, r) PROVE OAuthInv'
  <2>1. r.access <= issued /\ r.refresh <= issued
    BY <1>2, <1>4, LiveRow DEF Connecting, OAuthInv
  <2>2. job[t].key \in Owners /\ job[t].row \in [account : ProviderAccounts, token : 1..issued]
    BY Zenon DEF OAuth!Connect, OAuth!At, OAuthInv, CallsInv, CallFits
  <2>3. OAuth!Jira => r.account \in ProviderAccounts
    BY <1>4, <2>2 DEF Connecting
  <2>4. ConnectionsInv'
    BY <1>1, <1>4, <2>1, <2>3, RowWritten DEF Connecting, OAuthInv
  <2>5. PICK n, new : /\ n = issued'
                      /\ new = [user |-> job[t].key,
                                account |-> IF OAuth!Jira THEN job[t].row.account ELSE Nil,
                                token |-> job[t].row.token]
    OBVIOUS
  <2>6. /\ new \in [user : Owners, account : ProviderAccounts \cup {Nil}, token : 1..n]
        /\ OAuth!Jira => new.account \in ProviderAccounts
    BY <1>1, <2>2, <2>5
  <2>7. PICK j : j = [call |-> "store", key |-> k, row |-> new]
    OBVIOUS
  <2>8. CallFits(n, j) /\ job' = [job EXCEPT ![t] = j]
    BY <1>4, <2>5, <2>6, <2>7 DEF CallFits, Connecting, OAuth!Take
  <2>9. CallsInv'
    BY <1>1, <1>2, <2>5, <2>8, CallTaken
  <2> QED
    BY <2>4, <2>9 DEF OAuthInv
<1> QED
  BY <1>3, <1>4, ConnectShape

\* What Store leaves: the tokens are in the row, if there still is one.
LEMMA StoreShape ==
  ASSUME OAuth!OAuthConstants, OAuthInv, NEW t \in Threads, OAuth!Store(t)
  PROVE  /\ UNCHANGED <<state, code, mapping, issued, accepted, clients>>
         /\ ConnectionsInv' /\ OAuth!Live' = OAuth!Live /\ t \in clients.threads
         /\ \A k \in OAuth!Live : /\ connection'[k].user = connection[k].user
                                 /\ connection'[k].account = connection[k].account
                                 /\ connection'[k].refresh = IF k = job[t].key THEN job[t].row.token
                                                             ELSE connection[k].refresh
         /\ \A k \in Connections : k \notin OAuth!Live => connection'[k] = connection[k]
<1>a. PICK k, n : k = job[t].key /\ n = job[t].row.token
  OBVIOUS
<1>1. UNCHANGED <<state, code, mapping, issued, accepted, clients>> /\ t \in clients.threads
  BY DEF OAuth!Store, OAuth!At, OAuthInv, CallsInv
<1>2. k \in Connections /\ n \in 1..issued
  BY <1>a DEF OAuth!Store, OAuth!At, OAuthInv, CallsInv, CallFits
<1>3. CASE k \in OAuth!Live
  <2>1. connection' = [connection EXCEPT ![k].access = n, ![k].refresh = n]
    BY <1>a, <1>3 DEF OAuth!Store
  <2>2. PICK old, e : old = connection[k] /\ e = old.expired
    OBVIOUS
  <2>3. old \in OAuth!Rows /\ e \in BOOLEAN
    BY <1>3, <2>2, LiveRow DEF OAuthInv, OAuth!Rows
  <2>4. [old EXCEPT !.access = n, !.refresh = n] = [old EXCEPT !.access = n, !.refresh = n, !.expired = e]
    BY <2>2, <2>3 DEF OAuth!Rows
  <2>5. connection' = [connection EXCEPT ![k].access = n, ![k].refresh = n, ![k].expired = e]
    BY <2>1, <2>2, <2>4, <1>2 DEF OAuthInv, ConnectionsInv
  <2>6. n \in 0..issued
    BY <1>2
  <2>7. /\ ConnectionsInv' /\ OAuth!Live' = OAuth!Live
        /\ connection'[k].refresh = n /\ connection'[k].user = connection[k].user
        /\ connection'[k].account = connection[k].account
    BY <1>1, <1>3, <2>3, <2>5, <2>6, TokensSaved, Zenon DEF OAuthInv
  <2>8. \A l \in Connections : l # k => connection'[l] = connection[l]
    BY <2>1 DEF OAuthInv, ConnectionsInv
  <2> QED
    BY <1>a, <1>1, <1>3, <2>7, <2>8, LiveRow DEF OAuthInv
<1>4. CASE k \notin OAuth!Live
  <2>1. connection' = connection
    BY <1>a, <1>4 DEF OAuth!Store
  <2>2. OAuth!Live' = OAuth!Live
    BY <2>1 DEF OAuth!Live
  <2>3. ConnectionsInv'
    BY <1>1, <2>1, UnwrittenStays DEF OAuthInv, ConnectionsInv
  <2> QED
    BY <1>a, <1>1, <1>4, <2>1, <2>2, <2>3
<1> QED
  BY <1>3, <1>4

LEMMA StoredCall ==
  ASSUME OAuth!OAuthConstants, OAuthInv, NEW t \in Threads, OAuth!Store(t)
  PROVE  \/ OAuth!Done(t) /\ (job[t].key \notin OAuth!Live \/ ~OAuth!Jira)
         \/ OAuth!Jira /\ job[t].key \in OAuth!Live /\
            \E j : /\ job' = [job EXCEPT ![t] = j]
                  /\ j = [call |-> "mapping", key |-> job[t].key, row |-> job[t].row]
<1>1. CASE OAuth!Jira /\ job[t].key \in OAuth!Live
  <2>1. PICK old, j : old = job[t] /\ j = [old EXCEPT !.call = "mapping"]
    OBVIOUS
  <2>2. old = [call |-> old.call, key |-> old.key, row |-> old.row]
    BY <2>1 DEF OAuthInv, CallsInv, CallFits
  <2>3. j = [call |-> "mapping", key |-> old.key, row |-> old.row]
    <3>1. PICK c, k, r : c = old.call /\ k = old.key /\ r = old.row
      OBVIOUS
    <3>2. old = [call |-> c, key |-> k, row |-> r]
      BY <2>2, <3>1
    <3> QED
      BY <2>1, <3>1, <3>2
  <2>4. job' = [job EXCEPT ![t].call = "mapping"]
    BY <1>1 DEF OAuth!Store
  <2>5. job' = [job EXCEPT ![t] = j]
    BY <2>1, <2>4 DEF OAuthInv, CallsInv
  <2> QED
    BY <1>1, <2>1, <2>3, <2>5
<1>2. CASE ~(OAuth!Jira /\ job[t].key \in OAuth!Live)
  BY <1>2 DEF OAuth!Store
<1> QED
  BY <1>1, <1>2

LEMMA StoreInv ==
  ASSUME OAuth!OAuthConstants, OAuthInv, NEW t \in Threads, OAuth!Store(t)
  PROVE  OAuthInv'
<1>1. UNCHANGED <<issued, clients>> /\ t \in clients.threads /\ ConnectionsInv'
  BY StoreShape
<1>2. issued' \in OAuth!Tokens /\ issued <= issued'
  BY <1>1, OAuthNulls DEF OAuth!Tokens, OAuthInv, ConnectionsInv
<1>3. ASSUME NEW j, OAuth!Jira, job' = [job EXCEPT ![t] = j], job[t].key \in OAuth!Live,
             j = [call |-> "mapping", key |-> job[t].key, row |-> job[t].row]
      PROVE  OAuthInv'
  <2>1. PICK old, n : old = job[t] /\ n = issued'
    OBVIOUS
  <2>2. CallFits(n, old) /\ old.call = "store"
    BY <1>1, <2>1 DEF OAuth!Store, OAuth!At, OAuthInv, CallsInv
  <2>3. CallFits(n, j)
    BY <1>3, <2>1, <2>2 DEF CallFits
  <2> QED
    BY <1>1, <1>2, <1>3, <2>1, <2>3, CallTaken DEF OAuthInv
<1>4. CASE OAuth!Done(t)
  BY <1>1, <1>2, <1>4, CallEnds DEF OAuthInv
<1> QED
  BY <1>3, <1>4, StoredCall

\* What becomes of the rows that are live, and that tokens expire.
LEMMA TimeShape ==
  ASSUME OAuth!OAuthConstants, OAuthInv, OAuth!TimePasses
  PROVE  /\ UNCHANGED <<state, code, mapping, issued, accepted, job, clients>>
         /\ ConnectionsInv' /\ OAuth!Live' = OAuth!Live
         /\ \A k \in OAuth!Live : /\ connection'[k].user = connection[k].user
                                 /\ connection'[k].account = connection[k].account
                                 /\ connection'[k].refresh = connection[k].refresh
         /\ \A k \in Connections : k \notin OAuth!Live => connection'[k] = connection[k]
<1>1. PICK k \in OAuth!Live : connection' = [connection EXCEPT ![k].expired = TRUE]
  BY DEF OAuth!TimePasses
<1>2. PICK old, a, r : old = connection[k] /\ a = old.access /\ r = old.refresh
  OBVIOUS
<1>3. old \in OAuth!Rows /\ k \in Connections /\ a \in 0..issued /\ r \in 0..issued
  BY <1>2, LiveRow DEF OAuthInv
<1>4. [old EXCEPT !.expired = TRUE] = [old EXCEPT !.access = a, !.refresh = r, !.expired = TRUE]
  BY <1>2, <1>3 DEF OAuth!Rows
<1>5. connection' = [connection EXCEPT ![k].access = a, ![k].refresh = r, ![k].expired = TRUE]
  BY <1>1, <1>2, <1>3, <1>4 DEF OAuthInv, ConnectionsInv
<1>6. UNCHANGED <<state, code, mapping, issued, accepted, job, clients>>
  BY DEF OAuth!TimePasses
<1>7. /\ ConnectionsInv' /\ OAuth!Live' = OAuth!Live
      /\ connection'[k].refresh = r /\ connection'[k].user = connection[k].user
      /\ connection'[k].account = connection[k].account
  BY <1>3, <1>5, <1>6, TokensSaved, Zenon DEF OAuthInv
<1>8. \A l \in Connections : l # k => connection'[l] = connection[l]
  BY <1>1 DEF OAuthInv, ConnectionsInv
<1> QED
  BY <1>2, <1>6, <1>7, <1>8, LiveRow DEF OAuthInv

\* A disconnection leaves other rows as they are.
LEMMA DisconnectShape ==
  ASSUME OAuth!OAuthConstants, OAuthInv, NEW t \in Threads, OAuth!Disconnect(t)
  PROVE  /\ UNCHANGED <<state, code, mapping, issued, accepted, job, clients>>
         /\ ConnectionsInv' /\ OAuth!Live' \subseteq OAuth!Live
         /\ \A k \in OAuth!Live' : connection'[k] = connection[k]
         /\ \A k \in Connections : connection'[k] \in {connection[k], Deleted}
<1>1. PICK uu \in Owners :
        connection' = [k \in Connections |-> IF k \in OAuth!Of(uu) THEN Deleted ELSE connection[k]]
  BY DEF OAuth!Disconnect
<1>2. UNCHANGED <<state, code, mapping, issued, accepted, job, clients>>
  BY DEF OAuth!Disconnect
<1>3. OAuth!Live' \subseteq OAuth!Live /\ \A k \in OAuth!Live' : connection'[k] = connection[k]
  BY <1>1, OAuthNulls DEF OAuth!Live
<1>4. ConnectionsInv'
  <2>1. connection' \in [Connections -> OAuth!Rows \cup {Nil, Deleted}]
    BY <1>1 DEF OAuthInv, ConnectionsInv
  <2>2. OAuth!Jira' <=> OAuth!Jira
    BY <1>2 DEF OAuth!Jira
  <2>3. OneEach'
    BY <1>3, <2>2 DEF OAuthInv, ConnectionsInv, OneEach
  <2>4. \A k \in OAuth!Live' : connection'[k].access <= issued' /\ connection'[k].refresh <= issued'
    BY <1>2, <1>3 DEF OAuthInv, ConnectionsInv
  <2> QED
    BY <1>2, <2>1, <2>3, <2>4 DEF OAuthInv, ConnectionsInv
<1> QED
  BY <1>1, <1>2, <1>3, <1>4

LEMMA LoadInv ==
  ASSUME OAuth!OAuthConstants, OAuthInv, NEW t \in Threads, OAuth!Load(t)
  PROVE  OAuthInv'
<1>1. UNCHANGED OAuth!data /\ UNCHANGED clients /\ t \in clients.threads
  BY DEF OAuth!Load, OAuth!Free
<1>2. PICK k \in OAuth!Live : OAuth!Take(t, "refresh", k, connection[k])
  BY DEF OAuth!Load
<1>3. PICK n, r : n = issued' /\ r = connection[k]
  OBVIOUS
<1>4. PICK j : j = [call |-> "refresh", key |-> k, row |-> r]
  OBVIOUS
<1>5. k \in Connections /\ r \in OAuth!Rows /\ r.access <= n /\ r.refresh <= n
  BY <1>1, <1>3, LiveRow DEF OAuthInv, OAuth!data
<1>6. CallFits(n, j) /\ job' = [job EXCEPT ![t] = j]
  BY <1>2, <1>3, <1>4, <1>5 DEF CallFits, OAuth!Take
<1>7. issued' \in OAuth!Tokens /\ issued <= issued'
  BY <1>1, OAuthNulls, SMTT(30) DEF OAuth!data, OAuth!Tokens, OAuthInv, ConnectionsInv
<1> QED
  BY <1>1, <1>3, <1>6, <1>7, CallTaken, UnwrittenStays DEF OAuthInv, ConnectionsInv, OAuth!data

\* The answer to a refresh.
LEMMA RefreshShape ==
  ASSUME OAuth!OAuthConstants, OAuthInv, NEW t \in Threads, OAuth!Refresh(t)
  PROVE  \/ OAuth!Done(t) /\ clients.faults # {}
         \/ \E kind \in {"refreshed", "rejected"} : \E new \in 0..issued' : \E j :
              /\ job' = [job EXCEPT ![t] = j] /\ j.call = kind /\ j.key = job[t].key
              /\ j.row.access = new /\ j.row.refresh = new /\ CallFits(issued', j)
              /\ kind = "refreshed" => /\ job[t].row.refresh \in accepted /\ new = issued'
                                       /\ issued' = issued + 1
                                       /\ accepted' = (accepted \ {job[t].row.refresh}) \cup {new}
              /\ kind = "rejected" => /\ clients.faults # {} \/ job[t].row.refresh \notin accepted
                                      /\ UNCHANGED <<issued, accepted>>
<1>a. PICK old, i : old = job[t] /\ i = issued'
  OBVIOUS
<1>1. CallFits(issued, old) /\ old.call = "refresh" /\ issued \in Nat
  BY <1>a, OAuthNulls DEF OAuth!Refresh, OAuth!At, OAuthInv, CallsInv, ConnectionsInv, OAuth!Tokens
<1>2. old.row \in OAuth!Rows /\ old = [call |-> old.call, key |-> old.key, row |-> old.row]
      /\ old.key \in Connections
  BY <1>1 DEF CallFits
<1>3. ASSUME NEW kind \in {"refreshed", "rejected"}, NEW new \in 0..i, i \in OAuth!Tokens,
             job' = [job EXCEPT ![t].call = kind, ![t].row.access = new, ![t].row.refresh = new]
      PROVE  \E j : /\ job' = [job EXCEPT ![t] = j] /\ j.call = kind /\ j.key = old.key
                    /\ j.row.access = new /\ j.row.refresh = new /\ CallFits(i, j)
  <2>1. PICK row : row = [old.row EXCEPT !.access = new, !.refresh = new]
    OBVIOUS
  <2>2. PICK j : j = [call |-> kind, key |-> old.key, row |-> row]
    OBVIOUS
  <2>3. new \in OAuth!Tokens /\ new <= i
    BY <1>3, OAuthNulls DEF OAuth!Tokens
  <2>4. row \in OAuth!Rows /\ row.access = new /\ row.refresh = new
    BY <1>2, <2>1, <2>3 DEF OAuth!Rows
  <2>5. CallFits(i, j)
    BY <1>2, <2>2, <2>3, <2>4 DEF CallFits
  <2>6. j = [old EXCEPT !.call = kind, !.row = row]
    <3>1. PICK c, k, r : c = old.call /\ k = old.key /\ r = old.row
      OBVIOUS
    <3>2. old = [call |-> c, key |-> k, row |-> r]
      BY <1>2, <3>1
    <3>3. j = [call |-> kind, key |-> k, row |-> row]
      BY <2>2, <3>1
    <3>4. PICK mid : mid = [old EXCEPT !.call = kind]
      OBVIOUS
    <3>5. mid = [call |-> kind, key |-> k, row |-> r]
      BY <3>2, <3>4
    <3>6. j = [mid EXCEPT !.row = row]
      BY <3>3, <3>5
    <3> QED
      BY <3>4, <3>6
  <2>7. job' = [job EXCEPT ![t] = j]
    BY <1>a, <1>3, <2>1, <2>6, Zenon DEF OAuthInv, CallsInv
  <2> QED
    BY <2>2, <2>4, <2>5, <2>7
<1>4. CASE /\ old.row.refresh \in accepted /\ OAuth!NewTokens
          /\ accepted' = (accepted \ {old.row.refresh}) \cup {issued'}
          /\ job' = [job EXCEPT ![t].call = "refreshed", ![t].row.access = issued', ![t].row.refresh = issued']
  <2>1. i = issued + 1 /\ i \in OAuth!Tokens /\ i \in 0..i
    BY <1>a, <1>1, <1>4, OAuthNulls DEF OAuth!NewTokens, OAuth!Tokens
  <2>2. PICK j : /\ job' = [job EXCEPT ![t] = j] /\ j.call = "refreshed" /\ j.key = old.key
                 /\ j.row.access = i /\ j.row.refresh = i /\ CallFits(i, j)
    BY <1>a, <1>3, <1>4, <2>1, Zenon
  <2> QED
    BY <1>a, <1>4, <2>1, <2>2, Zenon
<1>5. CASE /\ old.row.refresh \notin accepted \/ OAuth!Fault("refused")
          /\ job' = [job EXCEPT ![t].call = "rejected", ![t].row.access = 0, ![t].row.refresh = 0]
          /\ UNCHANGED <<issued, accepted>>
  <2>1. i = issued /\ i \in OAuth!Tokens /\ 0 \in 0..i
    BY <1>a, <1>1, <1>5 DEF OAuthInv, ConnectionsInv
  <2>2. PICK j : /\ job' = [job EXCEPT ![t] = j] /\ j.call = "rejected" /\ j.key = old.key
                 /\ j.row.access = 0 /\ j.row.refresh = 0 /\ CallFits(i, j)
    BY <1>3, <1>5, <2>1, Zenon
  <2> QED
    BY <1>a, <1>5, <2>1, <2>2, ZenonT(30) DEF OAuth!Fault
<1> QED
  BY <1>a, <1>4, <1>5 DEF OAuth!Refresh, OAuth!Fault

LEMMA RefreshInv ==
  ASSUME OAuth!OAuthConstants, OAuthInv, NEW t \in Threads, OAuth!Refresh(t)
  PROVE  OAuthInv'
<1>1. UNCHANGED <<connection, state, code, mapping, clients>> /\ t \in clients.threads
  BY DEF OAuth!Refresh, OAuth!At, OAuthInv, CallsInv
<1>2. /\ issued' \in OAuth!Tokens /\ issued <= issued' /\ accepted' \subseteq 1..issued'
      /\ issued' \in Nat
  <2>1. issued \in Nat /\ issued \in OAuth!Tokens /\ accepted \subseteq 1..issued /\ MaxToken \in Nat
    BY OAuthNulls DEF OAuthInv, ConnectionsInv, OAuth!Tokens
  <2>2. CASE UNCHANGED <<issued, accepted>>
    BY <2>1, <2>2
  <2>3. CASE OAuth!NewTokens /\ accepted' = (accepted \ {job[t].row.refresh}) \cup {issued'}
    <3>1. PICK n : n = issued'
      OBVIOUS
    <3>2. n = issued + 1 /\ n <= MaxToken
      BY <2>1, <2>3, <3>1 DEF OAuth!NewTokens
    <3>3. accepted' \subseteq 1..n
      <4>1. n \in Int /\ 1 <= n /\ issued <= n
        BY <2>1, <3>2
      <4>2. n \in 1..n /\ 1..issued \subseteq 1..n
        BY <2>1, <4>1
      <4>3. accepted' \subseteq accepted \cup {n}
        BY <2>3, <3>1
      <4> QED
        BY <2>1, <4>2, <4>3
    <3> QED
      BY <2>1, <3>1, <3>2, <3>3 DEF OAuth!Tokens
  <2> QED
    BY <2>2, <2>3 DEF OAuth!Refresh
<1>3. ConnectionsInv'
  BY <1>1, <1>2, ConnectionsStay DEF OAuthInv, ConnectionsInv
<1>4. CASE OAuth!Done(t)
  BY <1>1, <1>2, <1>3, <1>4, CallEnds DEF OAuthInv
<1>5. ASSUME NEW j, job' = [job EXCEPT ![t] = j], CallFits(issued', j) PROVE OAuthInv'
  <2>1. PICK n : n = issued'
    OBVIOUS
  <2>2. CallsInv'
    BY <1>1, <1>2, <1>5, <2>1, CallTaken
  <2> QED
    BY <1>3, <2>2 DEF OAuthInv
<1> QED
  BY <1>4, <1>5, RefreshShape

\* What Keep leaves: the answer is in the row, if there still is one.
LEMMA KeepShape ==
  ASSUME OAuth!OAuthConstants, OAuthInv, NEW t \in Threads, OAuth!Keep(t)
  PROVE  /\ UNCHANGED <<state, code, mapping, issued, accepted, clients>> /\ OAuth!Done(t)
         /\ ConnectionsInv' /\ OAuth!Live' = OAuth!Live /\ t \in clients.threads
         /\ \A k \in OAuth!Live : /\ connection'[k].user = connection[k].user
                                 /\ connection'[k].account = connection[k].account
                                 /\ connection'[k].refresh = IF k = job[t].key THEN job[t].row.refresh
                                                             ELSE connection[k].refresh
         /\ \A k \in Connections : k \notin OAuth!Live => connection'[k] = connection[k]
<1>a. PICK k, a, r, e : /\ k = job[t].key /\ a = job[t].row.access /\ r = job[t].row.refresh
                       /\ e = (OAuth!At(t, "rejected") /\ k \in OAuth!Live /\ connection[k].expired)
  OBVIOUS
<1>1. UNCHANGED <<state, code, mapping, issued, accepted, clients>> /\ OAuth!Done(t)
      /\ t \in clients.threads
  BY DEF OAuth!Keep, OAuthInv, CallsInv
<1>2. k \in Connections /\ a \in 0..issued /\ r \in 0..issued
  <2>1. PICK j : j = job[t]
    OBVIOUS
  <2>2. CallFits(issued, j) /\ j.call \in {"refreshed", "rejected"} /\ issued \in Nat
    BY <2>1, OAuthNulls DEF OAuth!Keep, OAuthInv, CallsInv, ConnectionsInv, OAuth!Tokens
  <2>3. j.key \in Connections /\ j.row \in OAuth!Rows /\ j.row.access <= issued /\ j.row.refresh <= issued
    BY <2>2 DEF CallFits
  <2> QED
    BY <1>a, <2>1, <2>2, <2>3, OAuthNulls DEF OAuth!Rows, OAuth!Tokens
<1>3. CASE k \in OAuth!Live
  <2>1. connection' = [connection EXCEPT ![k].access = a, ![k].refresh = r, ![k].expired = e]
    BY <1>a, <1>3, SMTT(30) DEF OAuth!Keep, OAuth!SaveTokens
  <2>2. e \in BOOLEAN
    BY <1>a, <1>3, LiveRow DEF OAuthInv, OAuth!Rows
  <2>3. /\ ConnectionsInv' /\ OAuth!Live' = OAuth!Live
        /\ connection'[k].refresh = r /\ connection'[k].user = connection[k].user
        /\ connection'[k].account = connection[k].account
    BY <1>1, <1>2, <1>3, <2>1, <2>2, TokensSaved, Zenon DEF OAuthInv
  <2>4. \A l \in Connections : l # k => connection'[l] = connection[l]
    BY <2>1 DEF OAuthInv, ConnectionsInv
  <2> QED
    BY <1>a, <1>1, <1>3, <2>3, <2>4, LiveRow DEF OAuthInv
<1>4. CASE k \notin OAuth!Live
  <2>1. connection' = connection
    BY <1>a, <1>4 DEF OAuth!Keep, OAuth!SaveTokens
  <2>2. OAuth!Live' = OAuth!Live
    BY <2>1 DEF OAuth!Live
  <2>3. ConnectionsInv'
    BY <1>1, <2>1, UnwrittenStays DEF OAuthInv, ConnectionsInv
  <2> QED
    BY <1>a, <1>1, <1>4, <2>1, <2>2, <2>3
<1> QED
  BY <1>3, <1>4

LEMMA OAuthInvStep ==
  ASSUME OAuth!OAuthConstants, clients \in Clients, clients.area = "oauth", OAuthInv,
         [OAuth!Next]_OAuth!vars
  PROVE  OAuthInv'
<1>1. CASE UNCHANGED OAuth!vars
  BY <1>1, CallsStay, UnwrittenStays DEF OAuthInv, ConnectionsInv, OAuth!vars, OAuth!data
<1>2. CASE OAuth!Expire
  <2>1. UNCHANGED <<connection, code, mapping, issued, accepted, job, clients>>
    BY <1>2 DEF OAuth!Expire
  <2>2. state' \in [Owners -> {"none", "issued"}]
    BY <1>2 DEF OAuth!Expire, OAuthInv, ConnectionsInv
  <2> QED
    BY <2>1, <2>2, CallsStay, UnwrittenStays DEF OAuthInv, ConnectionsInv
<1>3. CASE OAuth!TimePasses
  BY <1>3, TimeShape, CallsStay DEF OAuthInv
<1>4. ASSUME NEW t \in Threads, OAuth!Keep(t) PROVE OAuthInv'
  <2>1. issued' \in OAuth!Tokens /\ issued <= issued'
    BY <1>4, KeepShape, OAuthNulls DEF OAuth!Tokens, OAuthInv, ConnectionsInv
  <2> QED
    BY <1>4, <2>1, KeepShape, CallEnds DEF OAuthInv
<1>5. ASSUME NEW t \in Threads, OAuth!Disconnect(t) PROVE OAuthInv'
  BY <1>5, DisconnectShape, CallsStay DEF OAuthInv
<1> QED
  BY <1>1, <1>2, <1>3, <1>4, <1>5, ConnectingInv, ConnectInv, StoreInv, LoadInv, RefreshInv DEF OAuth!Next

\* What was deleted is no row, and nothing but rows is written over.
LEMMA DeletedStays ==
  ASSUME OAuth!OAuthConstants, OAuthInv, [OAuth!Next]_OAuth!vars,
         NEW k \in Connections, connection[k] = Deleted
  PROVE  connection'[k] = Deleted
<1>1. k \notin OAuth!Live
  BY OAuthNulls DEF OAuth!Live
<1>2. CASE UNCHANGED connection
  BY <1>2
<1>3. ASSUME NEW t \in Threads, OAuth!Connect(t) PROVE connection'[k] = Deleted
  <2>1. ASSUME NEW l \in Connections, NEW r \in OAuth!Rows, Connecting(t, l, r)
        PROVE  connection'[k] = Deleted
    BY <1>1, <2>1, OAuthNulls DEF Connecting, OAuthInv, ConnectionsInv
  <2> QED
    BY <1>3, <2>1, ConnectShape
<1>4. CASE OAuth!TimePasses
  BY <1>1, <1>4, TimeShape
<1>5. ASSUME NEW t \in Threads, OAuth!Store(t) \/ OAuth!Keep(t) \/ OAuth!Disconnect(t)
      PROVE  connection'[k] = Deleted
  BY <1>1, <1>5, StoreShape, KeepShape, DisconnectShape
<1> QED
  BY <1>2, <1>3, <1>4, <1>5, Zenon
  DEF OAuth!Next, OAuth!vars, OAuth!data, OAuth!Expire, OAuth!Authorize, OAuth!CallbackLoad,
      OAuth!Exchange, OAuth!Map, OAuth!SaveMapping, OAuth!Load, OAuth!Refresh

(* One call at a time: the refresh token that is stored is accepted, or    *)
(* the call that is under way will store the one that is; it is one of no  *)
(* other connection, so that using it up costs no other.                   *)

Fresh(n) == n \in accepted /\ \A l \in OAuth!Live : connection[l].refresh # n

CallCurrent(j) ==
  /\ j.call \in {"connect", "store"} => Fresh(j.row.token)
  /\ j.call = "refresh" => j.key \in OAuth!Live /\ connection[j.key].refresh = j.row.refresh
  /\ j.call = "refreshed" => Fresh(j.row.refresh)
  /\ j.call # "rejected"

CurrentInv ==
  /\ \A k \in OAuth!Live :
       \/ connection[k].refresh \in accepted
       \/ \E t \in Threads : job[t].call \in {"store", "refreshed"} /\ job[t].key = k
  /\ \A k, l \in OAuth!Live :
       connection[k].refresh \in accepted /\ connection[l].refresh = connection[k].refresh => k = l
  /\ \A t \in Threads : CallCurrent(job[t])

LEMMA Alone ==
  ASSUME OAuthInv, OAuth!OneAtATime, NEW t \in Threads, t \in clients.threads
  PROVE  \A u \in Threads : u # t => job[u].call = "none"
BY DEF OAuth!OneAtATime, OAuthInv, CallsInv

LEMMA OthersStay ==
  ASSUME OAuthInv, NEW t \in Threads, NEW j, job' = [job EXCEPT ![t] = j]
  PROVE  job'[t] = j /\ \A u \in Threads : u # t => job'[u] = job[u]
BY DEF OAuthInv, CallsInv

\* What is left to show when thread t is the only one with a call.
LEMMA CurrentKept ==
  ASSUME NEW t \in Threads, \A u \in Threads : u # t => job'[u].call = "none",
         \A k \in OAuth!Live' : \/ connection'[k].refresh \in accepted'
                                \/ job'[t].call \in {"store", "refreshed"} /\ job'[t].key = k,
         \A k, l \in OAuth!Live' :
           connection'[k].refresh \in accepted' /\ connection'[l].refresh = connection'[k].refresh => k = l,
         NEW j, j = job'[t], CallCurrent(j)'
  PROVE  CurrentInv'
<1>1. ASSUME NEW u \in Threads PROVE CallCurrent(job[u])'
  <2>1. PICK i : i = job'[u]
    OBVIOUS
  <2>2. CallCurrent(i)'
    <3>1. CASE u = t
      BY <2>1, <3>1
    <3>2. CASE u # t
      BY <2>1, <3>2 DEF CallCurrent
    <3> QED
      BY <3>1, <3>2
  <2> QED
    BY <2>1, <2>2
<1> QED
  BY <1>1 DEF CurrentInv

LEMMA CurrentOne ==
  ASSUME CurrentInv, NEW t \in Threads, \A u \in Threads : u # t => job[u].call = "none"
  PROVE  /\ \A k \in OAuth!Live :
              \/ connection[k].refresh \in accepted
              \/ job[t].call \in {"store", "refreshed"} /\ job[t].key = k
         /\ CallCurrent(job[t])
BY DEF CurrentInv

LEMMA CurrentStays ==
  ASSUME CurrentInv, UNCHANGED <<accepted, job>>, OAuth!Live' \subseteq OAuth!Live,
         \A k \in OAuth!Live' : connection'[k].refresh = connection[k].refresh,
         OAuth!Live' = OAuth!Live \/ \A t \in Threads : job[t].call # "refresh"
  PROVE  CurrentInv'
<1>1. ASSUME NEW t \in Threads PROVE CallCurrent(job[t])'
  <2>1. PICK j : j = job[t]
    OBVIOUS
  <2>2. CallCurrent(j) /\ (OAuth!Live' = OAuth!Live \/ j.call # "refresh")
    BY <2>1 DEF CurrentInv
  <2>3. CallCurrent(j)'
    BY <2>2 DEF CallCurrent, Fresh
  <2> QED
    BY <2>1, <2>3
<1> QED
  BY <1>1 DEF CurrentInv

\* A call that stores nothing.
LEMMA CurrentQuiet ==
  ASSUME OAuthInv, CurrentInv, NEW t \in Threads, \A u \in Threads : u # t => job[u].call = "none",
         UNCHANGED <<connection, accepted>>, job[t].call \notin {"store", "refreshed"},
         NEW j, job' = [job EXCEPT ![t] = j], CallCurrent(j)
  PROVE  CurrentInv'
<1>1. OAuth!Live' = OAuth!Live
  BY DEF OAuth!Live
<1>2. CallCurrent(j)'
  BY <1>1 DEF CallCurrent, Fresh
<1>3. j = job'[t] /\ \A u \in Threads : u # t => job'[u].call = "none"
  BY OthersStay, ZenonT(30)
<1>4. \A k \in OAuth!Live : connection[k].refresh \in accepted
  BY CurrentOne
<1>5. \A k, l \in OAuth!Live :
        connection[k].refresh \in accepted /\ connection[l].refresh = connection[k].refresh => k = l
  BY DEF CurrentInv
<1> QED
  BY <1>1, <1>2, <1>3, <1>4, <1>5, CurrentKept

\* A call stores the tokens it has.
LEMMA CurrentStored ==
  ASSUME CurrentInv, NEW t \in Threads, \A u \in Threads : u # t => job[u].call = "none",
         NEW n, Fresh(n), UNCHANGED accepted, OAuth!Live' = OAuth!Live,
         \A k \in OAuth!Live : connection'[k].refresh = IF k = job[t].key THEN n ELSE connection[k].refresh,
         NEW j, job' = [job EXCEPT ![t] = j], j.call \in {"none", "mapping"}, OAuthInv
  PROVE  CurrentInv'
<1>1. j = job'[t] /\ \A u \in Threads : u # t => job'[u].call = "none"
  BY OthersStay
<1>2. CallCurrent(j)'
  BY DEF CallCurrent
<1>3. \A k \in OAuth!Live : connection'[k].refresh \in accepted
  BY CurrentOne DEF Fresh
<1>4. ASSUME NEW k \in OAuth!Live, NEW l \in OAuth!Live,
             connection'[k].refresh \in accepted, connection'[l].refresh = connection'[k].refresh
      PROVE  k = l
  BY <1>4 DEF Fresh, CurrentInv
<1> QED
  BY <1>1, <1>2, <1>3, <1>4, CurrentKept

LEMMA CurrentConnect ==
  ASSUME OAuth!OAuthConstants, OAuthInv, CurrentInv, NEW t \in Threads, OAuth!Connect(t),
         \A u \in Threads : u # t => job[u].call = "none"
  PROVE  CurrentInv'
<1>1. UNCHANGED accepted /\ job[t].call = "connect"
  BY Zenon DEF OAuth!Connect, OAuth!At
<1>2. CASE OAuth!Done(t) /\ UNCHANGED connection
  <2>1. CallCurrent(OAuth!Idle)
    BY DEF CallCurrent, OAuth!Idle
  <2> QED
    BY <1>1, <1>2, <2>1, CurrentQuiet DEF OAuth!Done
<1>3. ASSUME NEW k \in Connections, NEW r \in OAuth!Rows, Connecting(t, k, r) PROVE CurrentInv'
  <2>1. PICK n : n = job[t].row.token
    OBVIOUS
  <2>2. /\ Fresh(n) /\ \A l \in OAuth!Live : connection[l].refresh \in accepted
    BY <1>1, <2>1, CurrentOne DEF CallCurrent
  <2>3. connection'[k] = r /\ \A l \in Connections : l # k => connection'[l] = connection[l]
    BY <1>3 DEF Connecting, OAuthInv, ConnectionsInv
  <2>4. OAuth!Live' = OAuth!Live \cup {k}
    BY <2>3 DEF OAuth!Live
  <2>5. 0 \notin accepted
    BY DEF OAuthInv, ConnectionsInv
  <2>6. \A l \in OAuth!Live' : \/ l \in OAuth!Live /\ connection'[l].refresh = connection[l].refresh
                               \/ l = k /\ connection'[l].refresh = 0
    BY <1>3, <2>3, <2>4 DEF Connecting, OAuth!Live
  <2>a. PICK new : new = [user |-> job[t].key, token |-> job[t].row.token,
                          account |-> IF OAuth!Jira THEN job[t].row.account ELSE Nil]
    OBVIOUS
  <2>b. PICK i : i = [call |-> "store", key |-> k, row |-> new]
    OBVIOUS
  <2>7. /\ i = [call |-> "store", key |-> k, row |-> new] /\ new.token = n
        /\ job' = [job EXCEPT ![t] = i]
    BY <1>3, <2>1, <2>a, <2>b DEF Connecting, OAuth!Take
  <2>8. i = job'[t] /\ \A u \in Threads : u # t => job'[u].call = "none"
    BY <2>7, OthersStay, Zenon
  <2>9. Fresh(n)'
    BY <1>1, <2>2, <2>5, <2>6 DEF Fresh
  <2>10. CallCurrent(i)'
    BY <2>7, <2>9 DEF CallCurrent
  <2>11. \A l \in OAuth!Live' : \/ connection'[l].refresh \in accepted'
                                \/ job'[t].call \in {"store", "refreshed"} /\ job'[t].key = l
    BY <1>1, <2>2, <2>6, <2>7, <2>8
  <2>12. ASSUME NEW l \in OAuth!Live', NEW m \in OAuth!Live',
                connection'[l].refresh \in accepted', connection'[m].refresh = connection'[l].refresh
         PROVE  l = m
    BY <1>1, <2>5, <2>6, <2>12 DEF CurrentInv
  <2> QED
    BY <2>8, <2>10, <2>11, <2>12, CurrentKept
<1> QED
  BY <1>2, <1>3, ConnectShape

LEMMA CurrentExchange ==
  ASSUME OAuth!OAuthConstants, OAuthInv, CurrentInv, NEW t \in Threads, OAuth!Exchange(t),
         clients.faults = {}, \A u \in Threads : u # t => job[u].call = "none"
  PROVE  CurrentInv'
<1>1. UNCHANGED connection /\ job[t].call = "exchange"
  BY DEF OAuth!Exchange, OAuth!At
<1>2. CASE OAuth!Done(t) /\ UNCHANGED accepted
  <2>1. CallCurrent(OAuth!Idle)
    BY DEF CallCurrent, OAuth!Idle
  <2> QED
    BY <1>1, <1>2, <2>1, CurrentQuiet DEF OAuth!Done
<1>3. CASE /\ OAuth!NewTokens /\ accepted' = accepted \cup {issued'}
          /\ \E row : OAuth!Take(t, "connect", job[t].key, row) /\ row.token = issued'
  <2>1. PICK n : n = issued'
    OBVIOUS
  <2>2. PICK i, row : /\ i = [call |-> "connect", key |-> job[t].key, row |-> row] /\ row.token = n
                      /\ job' = [job EXCEPT ![t] = i]
    BY <1>3, <2>1 DEF OAuth!Take
  <2>3. i = job'[t] /\ \A u \in Threads : u # t => job'[u].call = "none"
    BY <2>2, OthersStay, Zenon
  <2>4. issued \in Nat /\ n = issued + 1
    BY <1>3, <2>1, OAuthNulls DEF OAuth!NewTokens, OAuthInv, ConnectionsInv, OAuth!Tokens
  <2>5. OAuth!Live' = OAuth!Live
    BY <1>1 DEF OAuth!Live
  <2>6. \A l \in OAuth!Live : connection[l].refresh \in accepted /\ connection[l].refresh # n
    BY <1>1, <2>4, CurrentOne, LiveRow DEF OAuthInv
  <2>7. Fresh(n)'
    BY <1>1, <1>3, <2>1, <2>5, <2>6 DEF Fresh
  <2>8. CallCurrent(i)'
    BY <2>2, <2>7 DEF CallCurrent
  <2>9. \A l \in OAuth!Live' : connection'[l].refresh \in accepted'
    BY <1>1, <1>3, <2>5, <2>6
  <2>10. ASSUME NEW l \in OAuth!Live, NEW m \in OAuth!Live, connection[l].refresh = connection[m].refresh
         PROVE  l = m
    BY <2>6, <2>10 DEF CurrentInv
  <2> QED
    BY <1>1, <2>3, <2>5, <2>8, <2>9, <2>10, CurrentKept
<1>4. ~OAuth!Fault("refused") /\ ~OAuth!Fault("no_connection")
  BY DEF OAuth!Fault
<1> QED
  BY <1>2, <1>3, <1>4 DEF OAuth!Exchange

LEMMA CurrentRefresh ==
  ASSUME OAuth!OAuthConstants, OAuthInv, CurrentInv, NEW t \in Threads, OAuth!Refresh(t),
         clients.faults = {}, \A u \in Threads : u # t => job[u].call = "none"
  PROVE  CurrentInv'
<1>1. UNCHANGED connection /\ job[t].call = "refresh"
  BY DEF OAuth!Refresh, OAuth!At
<1>2. PICK k, n : k = job[t].key /\ n = job[t].row.refresh
  OBVIOUS
<1>3. /\ k \in OAuth!Live /\ connection[k].refresh = n
      /\ \A l \in OAuth!Live : connection[l].refresh \in accepted
  BY <1>1, <1>2, CurrentOne DEF CallCurrent
<1>4. PICK new, i : /\ job' = [job EXCEPT ![t] = i] /\ i.call = "refreshed" /\ i.key = k
                    /\ i.row.refresh = new /\ new = issued' /\ issued' = issued + 1
                    /\ accepted' = (accepted \ {n}) \cup {new}
  BY <1>2, <1>3, RefreshShape
<1>5. i = job'[t] /\ \A u \in Threads : u # t => job'[u].call = "none"
  BY <1>4, OthersStay
<1>6. OAuth!Live' = OAuth!Live
  BY <1>1 DEF OAuth!Live
<1>7. \A l \in OAuth!Live : connection[l].refresh # new
  BY <1>4, LiveRow DEF OAuthInv
<1>8. Fresh(new)'
  BY <1>1, <1>4, <1>6, <1>7 DEF Fresh
<1>9. CallCurrent(i)'
  BY <1>4, <1>8 DEF CallCurrent
<1>10. ASSUME NEW l \in OAuth!Live, NEW m \in OAuth!Live, connection[l].refresh = connection[m].refresh
       PROVE  l = m
  BY <1>3, <1>10 DEF CurrentInv
<1>11. \A l \in OAuth!Live : l # k => connection[l].refresh \in accepted'
  BY <1>3, <1>4, <1>10
<1> QED
  BY <1>1, <1>4, <1>5, <1>6, <1>9, <1>10, <1>11, CurrentKept

LEMMA CurrentStep ==
  ASSUME OAuth!OAuthConstants, OAuthInv, CurrentInv, OAuth!OneAtATime, clients.faults = {},
         [OAuth!Next]_OAuth!vars
  PROVE  CurrentInv'
<1>1. ASSUME NEW t \in Threads, t \in clients.threads
      PROVE  \A u \in Threads : u # t => job[u].call = "none"
  BY <1>1, Alone
<1>2. \A t \in Threads : job[t].call # "none" => t \in clients.threads
  BY DEF OAuthInv, CallsInv
<1>3. CASE UNCHANGED <<connection, accepted, job>>
  <2>1. OAuth!Live' = OAuth!Live
    BY <1>3 DEF OAuth!Live
  <2> QED
    BY <1>3, <2>1, CurrentStays
<1>4. CASE OAuth!TimePasses
  BY <1>4, TimeShape, CurrentStays
<1>5. ASSUME NEW t \in Threads, OAuth!Disconnect(t) PROVE CurrentInv'
  <2>1. t \in clients.threads /\ job[t].call = "none"
    BY <1>5 DEF OAuth!Disconnect, OAuth!Free, OAuth!Idle
  <2>2. \A u \in Threads : job[u].call # "refresh"
    BY <1>1, <2>1
  <2> QED
    BY <1>5, <2>2, DisconnectShape, CurrentStays
<1>6. ASSUME NEW t \in Threads, OAuth!CallbackLoad(t) PROVE CurrentInv'
  <2>1. /\ t \in clients.threads /\ job[t].call = "none" /\ UNCHANGED <<connection, accepted>>
    BY <1>6 DEF OAuth!CallbackLoad, OAuth!Free, OAuth!Idle, OAuth!data
  <2>a. PICK u \in Owners : OAuth!Take(t, "exchange", u, Nil)
    BY <1>6 DEF OAuth!CallbackLoad
  <2>b. PICK j : j = [call |-> "exchange", key |-> u, row |-> Nil]
    OBVIOUS
  <2>2. job' = [job EXCEPT ![t] = j] /\ j.call = "exchange"
    BY <2>a, <2>b DEF OAuth!Take
  <2>3. CallCurrent(j)
    BY <2>2 DEF CallCurrent
  <2> QED
    BY <1>1, <2>1, <2>2, <2>3, CurrentQuiet
<1>7. ASSUME NEW t \in Threads, OAuth!Map(t) PROVE CurrentInv'
  <2>1. job[t].call = "mapping" /\ UNCHANGED <<connection, accepted>> /\ OAuth!Done(t)
    BY <1>7 DEF OAuth!Map, OAuth!At
  <2>2. CallCurrent(OAuth!Idle)
    BY DEF CallCurrent, OAuth!Idle
  <2> QED
    BY <1>1, <1>2, <2>1, <2>2, CurrentQuiet DEF OAuth!Done
<1>8. ASSUME NEW t \in Threads, OAuth!Load(t) PROVE CurrentInv'
  <2>1. /\ t \in clients.threads /\ job[t].call = "none" /\ UNCHANGED <<connection, accepted>>
    BY <1>8 DEF OAuth!Load, OAuth!Free, OAuth!Idle, OAuth!data
  <2>2. PICK k \in OAuth!Live : OAuth!Take(t, "refresh", k, connection[k])
    BY <1>8 DEF OAuth!Load
  <2>3. PICK j : j = [call |-> "refresh", key |-> k, row |-> connection[k]]
    OBVIOUS
  <2>4. CallCurrent(j) /\ job' = [job EXCEPT ![t] = j]
    BY <2>2, <2>3 DEF CallCurrent, OAuth!Take
  <2> QED
    BY <1>1, <2>1, <2>4, CurrentQuiet
<1>9. ASSUME NEW t \in Threads, OAuth!Keep(t) PROVE CurrentInv'
  <2>1. \A u \in Threads : u # t => job[u].call = "none"
    BY <1>1, <1>9, KeepShape
  <2>2. Fresh(job[t].row.refresh)
    BY <1>9, <2>1, CurrentOne DEF OAuth!Keep, CallCurrent
  <2>3. job' = [job EXCEPT ![t] = OAuth!Idle] /\ OAuth!Idle.call = "none"
    BY <1>9, KeepShape DEF OAuth!Done, OAuth!Idle
  <2>4. PICK n : n = job[t].row.refresh
    OBVIOUS
  <2>5. UNCHANGED accepted /\ OAuth!Live' = OAuth!Live /\
        \A k \in OAuth!Live :
          connection'[k].refresh = IF k = job[t].key THEN n ELSE connection[k].refresh
    BY <1>9, <2>4, KeepShape
  <2> QED
    BY <2>1, <2>2, <2>3, <2>4, <2>5, CurrentStored
<1>10. ASSUME NEW t \in Threads, OAuth!Store(t) PROVE CurrentInv'
  <2>1. \A u \in Threads : u # t => job[u].call = "none"
    BY <1>1, <1>10, StoreShape
  <2>2. Fresh(job[t].row.token)
    BY <1>10, <2>1, CurrentOne DEF OAuth!Store, OAuth!At, CallCurrent
  <2>3. PICK j : job' = [job EXCEPT ![t] = j] /\ j.call \in {"none", "mapping"}
    <3>1. CASE OAuth!Done(t)
      <4>1. job' = [job EXCEPT ![t] = OAuth!Idle] /\ OAuth!Idle.call = "none"
        BY <3>1 DEF OAuth!Done, OAuth!Idle
      <4> QED
        BY <4>1
    <3>2. ASSUME NEW j, job' = [job EXCEPT ![t] = j],
                 j = [call |-> "mapping", key |-> job[t].key, row |-> job[t].row]
          PROVE  \E i : job' = [job EXCEPT ![t] = i] /\ i.call \in {"none", "mapping"}
      <4>1. j.call = "mapping"
        BY <3>2
      <4> QED
        BY <3>2, <4>1
    <3> QED
      BY <1>10, <3>1, <3>2, StoredCall
  <2>4. PICK n : n = job[t].row.token
    OBVIOUS
  <2>5. UNCHANGED accepted /\ OAuth!Live' = OAuth!Live /\
        \A k \in OAuth!Live :
          connection'[k].refresh = IF k = job[t].key THEN n ELSE connection[k].refresh
    BY <1>10, <2>4, StoreShape
  <2> QED
    BY <2>1, <2>2, <2>3, <2>4, <2>5, CurrentStored
<1>11. ASSUME NEW t \in Threads, OAuth!Connect(t) \/ OAuth!Exchange(t) \/ OAuth!Refresh(t)
       PROVE  CurrentInv'
  <2>1. t \in clients.threads
    BY <1>2, <1>11, Zenon DEF OAuth!Connect, OAuth!Exchange, OAuth!Refresh, OAuth!At
  <2> QED
    BY <1>1, <1>11, <2>1, CurrentConnect, CurrentExchange, CurrentRefresh
<1> QED
  BY <1>3, <1>4, <1>5, <1>6, <1>7, <1>8, <1>9, <1>10, <1>11
  DEF OAuth!Next, OAuth!vars, OAuth!data, OAuth!Expire, OAuth!Authorize, OAuth!SaveMapping

(* One call at a time, of Jira: the mapping of a connected account is its  *)
(* user's, or the call that is under way will make it so.                  *)

Agreed(k) == mapping[connection[k].account] = connection[k].user

CallMaps(j) ==
  j.call \in {"store", "mapping"} =>
    j.key \in OAuth!Live /\ j.row.user = connection[j.key].user /\ j.row.account = connection[j.key].account

MappingInv ==
  /\ \A k \in OAuth!Live :
       Agreed(k) \/ \E t \in Threads : job[t].call \in {"store", "mapping"} /\ job[t].key = k
  /\ \A t \in Threads : CallMaps(job[t])

LEMMA MappingKept ==
  ASSUME NEW t \in Threads, \A u \in Threads : u # t => job'[u].call = "none",
         NEW j, j = job'[t], CallMaps(j)',
         \A k \in OAuth!Live' : Agreed(k)' \/ (j.call \in {"store", "mapping"} /\ j.key = k)
  PROVE  MappingInv'
<1>1. ASSUME NEW u \in Threads PROVE CallMaps(job[u])'
  <2>1. PICK i : i = job'[u]
    OBVIOUS
  <2>2. CallMaps(i)'
    <3>1. CASE u = t
      BY <2>1, <3>1
    <3>2. CASE u # t
      BY <2>1, <3>2 DEF CallMaps
    <3> QED
      BY <3>1, <3>2
  <2> QED
    BY <2>1, <2>2
<1> QED
  BY <1>1 DEF MappingInv

LEMMA MappingOne ==
  ASSUME MappingInv, NEW t \in Threads, \A u \in Threads : u # t => job[u].call = "none"
  PROVE  /\ \A k \in OAuth!Live : Agreed(k) \/ (job[t].call \in {"store", "mapping"} /\ job[t].key = k)
         /\ CallMaps(job[t])
BY DEF MappingInv

LEMMA MappingStays ==
  ASSUME MappingInv, UNCHANGED <<mapping, job>>, OAuth!Live' = OAuth!Live,
         \A k \in OAuth!Live : /\ connection'[k].user = connection[k].user
                                /\ connection'[k].account = connection[k].account
  PROVE  MappingInv'
<1>1. ASSUME NEW t \in Threads PROVE CallMaps(job[t])'
  <2>1. PICK j : j = job[t]
    OBVIOUS
  <2>2. CallMaps(j)
    BY <2>1 DEF MappingInv
  <2>3. CallMaps(j)'
    BY <2>2 DEF CallMaps
  <2> QED
    BY <2>1, <2>3
<1> QED
  BY <1>1 DEF MappingInv, Agreed

\* A call that changes neither users nor accounts nor what they are mapped to.
LEMMA MappingQuiet ==
  ASSUME OAuthInv, MappingInv, NEW t \in Threads, \A u \in Threads : u # t => job[u].call = "none",
         UNCHANGED mapping, OAuth!Live' \subseteq OAuth!Live,
         \A k \in OAuth!Live' : /\ connection'[k].user = connection[k].user
                                 /\ connection'[k].account = connection[k].account,
         job[t].call \notin {"store", "mapping"},
         NEW j, job' = [job EXCEPT ![t] = j], j.call \notin {"store", "mapping"}
  PROVE  MappingInv'
<1>1. j = job'[t] /\ \A u \in Threads : u # t => job'[u].call = "none"
  BY OthersStay
<1>2. CallMaps(j)'
  BY DEF CallMaps
<1>3. \A k \in OAuth!Live' : Agreed(k)'
  BY MappingOne DEF Agreed
<1> QED
  BY <1>1, <1>2, <1>3, MappingKept

LEMMA MappingConnect ==
  ASSUME OAuthInv, MappingInv, OAuth!Jira, NEW t \in Threads, OAuth!Connect(t), OAuth!OAuthConstants,
         \A u \in Threads : u # t => job[u].call = "none"
  PROVE  MappingInv'
<1>1. UNCHANGED mapping /\ job[t].call = "connect"
  BY Zenon DEF OAuth!Connect, OAuth!At
<1>2. CASE OAuth!Done(t) /\ UNCHANGED connection
  <2>1. OAuth!Live' = OAuth!Live /\ OAuth!Idle.call = "none"
    BY <1>2 DEF OAuth!Live, OAuth!Idle
  <2> QED
    BY <1>1, <1>2, <2>1, MappingQuiet DEF OAuth!Done
<1>3. ASSUME NEW k \in Connections, NEW r \in OAuth!Rows, Connecting(t, k, r) PROVE MappingInv'
  <2>1. connection'[k] = r /\ \A l \in Connections : l # k => connection'[l] = connection[l]
    BY <1>3 DEF Connecting, OAuthInv, ConnectionsInv
  <2>2. OAuth!Live' = OAuth!Live \cup {k}
    BY <2>1 DEF OAuth!Live
  <2>a. PICK new : new = [user |-> job[t].key, account |-> job[t].row.account,
                          token |-> job[t].row.token]
    OBVIOUS
  <2>b. PICK i : i = [call |-> "store", key |-> k, row |-> new]
    OBVIOUS
  <2>3. /\ i = [call |-> "store", key |-> k, row |-> new]
        /\ new = [user |-> job[t].key, account |-> job[t].row.account, token |-> job[t].row.token]
        /\ job' = [job EXCEPT ![t] = i]
    BY <1>3, <2>a, <2>b DEF Connecting, OAuth!Take
  <2>c. job' = [job EXCEPT ![t] = i]
    BY <2>3
  <2>4. i = job'[t] /\ \A u \in Threads : u # t => job'[u].call = "none"
    BY <2>c, OthersStay, ZenonT(30)
  <2>5. new.user = r.user /\ new.account = r.account
    BY <1>3, <2>3 DEF Connecting
  <2>6. CallMaps(i)'
    BY <2>1, <2>2, <2>3, <2>5 DEF CallMaps
  <2>7. \A l \in OAuth!Live : Agreed(l)
    BY <1>1, MappingOne
  <2>8. \A l \in OAuth!Live' : Agreed(l)' \/ (i.call \in {"store", "mapping"} /\ i.key = l)
    BY <1>1, <2>1, <2>2, <2>3, <2>7 DEF Agreed, OAuth!Live
  <2> QED
    BY <2>4, <2>6, <2>8, MappingKept
<1> QED
  BY <1>2, <1>3, ConnectShape

LEMMA MappingStore ==
  ASSUME OAuthInv, MappingInv, OAuth!Jira, NEW t \in Threads, OAuth!Store(t), OAuth!OAuthConstants,
         \A u \in Threads : u # t => job[u].call = "none"
  PROVE  MappingInv'
<1>1. /\ UNCHANGED mapping /\ OAuth!Live' = OAuth!Live
      /\ \A k \in OAuth!Live : /\ connection'[k].user = connection[k].user
                              /\ connection'[k].account = connection[k].account
  BY StoreShape
<1>2. PICK old : old = job[t]
  OBVIOUS
<1>3. /\ CallMaps(old) /\ old.call = "store" /\ old.key \in OAuth!Live
      /\ \A k \in OAuth!Live : Agreed(k) \/ old.key = k
  BY <1>2, MappingOne DEF OAuth!Store, OAuth!At, CallMaps
<1>4. PICK j : job' = [job EXCEPT ![t] = j] /\ j = [call |-> "mapping", key |-> old.key, row |-> old.row]
  BY <1>2, <1>3, StoredCall
<1>5. j = job'[t] /\ \A u \in Threads : u # t => job'[u].call = "none"
  <2>1. job' = [job EXCEPT ![t] = j]
    BY <1>4
  <2> QED
    BY <2>1, OthersStay, ZenonT(30)
<1>6. CallMaps(j)'
  BY <1>1, <1>3, <1>4 DEF CallMaps
<1>7. \A k \in OAuth!Live' : Agreed(k)' \/ (j.call \in {"store", "mapping"} /\ j.key = k)
  BY <1>1, <1>3, <1>4 DEF Agreed
<1> QED
  BY <1>5, <1>6, <1>7, MappingKept

LEMMA MappingMap ==
  ASSUME OAuthInv, MappingInv, OAuth!Jira, NEW t \in Threads, OAuth!Map(t), OAuth!OAuthConstants,
         \A u \in Threads : u # t => job[u].call = "none"
  PROVE  MappingInv'
<1>1. UNCHANGED connection /\ OAuth!Live' = OAuth!Live
  BY DEF OAuth!Map, OAuth!Live
<1>2. PICK k, a, owner : k = job[t].key /\ a = job[t].row.account /\ owner = job[t].row.user
  OBVIOUS
<1>3. /\ k \in OAuth!Live /\ owner = connection[k].user /\ a = connection[k].account
      /\ \A l \in OAuth!Live : Agreed(l) \/ l = k
  BY <1>2, MappingOne DEF OAuth!Map, OAuth!At, CallMaps
<1>4. a \in ProviderAccounts /\ \A l \in OAuth!Live : connection[l].account = a => l = k
  BY <1>3, LiveRow DEF OAuthInv
<1>5. mapping'[a] = owner /\ \A b \in ProviderAccounts : b # a => mapping'[b] = mapping[b]
  BY <1>2, <1>4 DEF OAuth!Map, OAuthInv, ConnectionsInv
<1>6. \A l \in OAuth!Live : connection[l].account \in ProviderAccounts
  BY LiveRow DEF OAuthInv
<1>7. \A l \in OAuth!Live' : Agreed(l)'
  BY <1>1, <1>3, <1>4, <1>5, <1>6 DEF Agreed
<1>8. job' = [job EXCEPT ![t] = OAuth!Idle] /\ OAuth!Idle.call = "none"
  BY DEF OAuth!Map, OAuth!Done, OAuth!Idle
<1>9. OAuth!Idle = job'[t] /\ \A u \in Threads : u # t => job'[u].call = "none"
  BY <1>8, OthersStay, ZenonT(30)
<1>10. CallMaps(OAuth!Idle)'
  BY <1>8 DEF CallMaps, OAuth!Idle
<1> QED
  BY <1>7, <1>9, <1>10, MappingKept

LEMMA MappingStep ==
  ASSUME OAuth!OAuthConstants, OAuthInv, MappingInv, OAuth!OneAtATime, OAuth!Jira,
         "map" \notin clients.calls, [OAuth!Next]_OAuth!vars
  PROVE  MappingInv'
<1>1. ASSUME NEW t \in Threads, t \in clients.threads
      PROVE  \A u \in Threads : u # t => job[u].call = "none"
  BY <1>1, Alone
<1>2. \A t \in Threads : job[t].call # "none" => t \in clients.threads
  BY DEF OAuthInv, CallsInv
<1>3. CASE UNCHANGED <<connection, mapping, job>>
  <2>1. OAuth!Live' = OAuth!Live
    BY <1>3 DEF OAuth!Live
  <2> QED
    BY <1>3, <2>1, MappingStays
<1>4. CASE OAuth!TimePasses
  BY <1>4, TimeShape, MappingStays
<1>5. ASSUME NEW t \in Threads, OAuth!Disconnect(t) PROVE MappingInv'
  <2>1. t \in clients.threads /\ job[t] = OAuth!Idle /\ OAuth!Idle.call = "none"
    BY <1>5 DEF OAuth!Disconnect, OAuth!Free, OAuth!Idle
  <2>2. job' = [job EXCEPT ![t] = OAuth!Idle]
    BY <1>5, <2>1, DisconnectShape DEF OAuthInv, CallsInv
  <2> QED
    BY <1>1, <1>5, <2>1, <2>2, DisconnectShape, MappingQuiet
<1>6. ASSUME NEW t \in Threads, t \in clients.threads, UNCHANGED <<connection, mapping>>,
             job[t].call \notin {"store", "mapping"},
             NEW j, job' = [job EXCEPT ![t] = j], j.call \notin {"store", "mapping"}
      PROVE  MappingInv'
  <2>1. OAuth!Live' = OAuth!Live
    BY <1>6 DEF OAuth!Live
  <2> QED
    BY <1>1, <1>6, <2>1, MappingQuiet
<1>7. ASSUME NEW t \in Threads, OAuth!CallbackLoad(t) \/ OAuth!Load(t) PROVE MappingInv'
  <2>1. t \in clients.threads /\ job[t].call = "none" /\ UNCHANGED <<connection, mapping>>
    BY <1>7 DEF OAuth!CallbackLoad, OAuth!Load, OAuth!Free, OAuth!Idle, OAuth!data
  <2>2. PICK c \in {"exchange", "refresh"}, k \in Owners \cup Connections, row \in OAuth!Rows \cup {Nil} :
          OAuth!Take(t, c, k, row)
    BY <1>7 DEF OAuth!CallbackLoad, OAuth!Load, OAuth!Live
  <2>3. PICK j : j = [call |-> c, key |-> k, row |-> row]
    OBVIOUS
  <2>4. job' = [job EXCEPT ![t] = j] /\ j.call \notin {"store", "mapping"}
    BY <2>2, <2>3 DEF OAuth!Take
  <2> QED
    BY <1>6, <2>1, <2>4
<1>8. ASSUME NEW t \in Threads, OAuth!Exchange(t) PROVE MappingInv'
  <2>1. job[t].call = "exchange" /\ t \in clients.threads /\ UNCHANGED <<connection, mapping>>
    BY <1>2, <1>8 DEF OAuth!Exchange, OAuth!At
  <2>2. CASE OAuth!Done(t)
    <3>1. job' = [job EXCEPT ![t] = OAuth!Idle] /\ OAuth!Idle.call = "none"
      BY <2>2 DEF OAuth!Done, OAuth!Idle
    <3> QED
      BY <1>6, <2>1, <3>1
  <2>3. CASE OAuth!Take(t, "connect", job[t].key, [account |-> code[job[t].key], token |-> issued'])
    <3>1. PICK row : row = [account |-> code[job[t].key], token |-> issued']
      OBVIOUS
    <3>2. PICK j : j = [call |-> "connect", key |-> job[t].key, row |-> row]
      OBVIOUS
    <3>3. job' = [job EXCEPT ![t] = j] /\ j.call = "connect"
      BY <2>3, <3>1, <3>2 DEF OAuth!Take
    <3> QED
      BY <1>6, <2>1, <3>3
  <2> QED
    BY <1>8, <2>2, <2>3 DEF OAuth!Exchange
<1>9. ASSUME NEW t \in Threads, OAuth!Refresh(t) PROVE MappingInv'
  <2>1. job[t].call = "refresh" /\ t \in clients.threads /\ UNCHANGED <<connection, mapping>>
    BY <1>2, <1>9 DEF OAuth!Refresh, OAuth!At
  <2>2. CASE OAuth!Done(t)
    <3>1. job' = [job EXCEPT ![t] = OAuth!Idle] /\ OAuth!Idle.call = "none"
      BY <2>2 DEF OAuth!Done, OAuth!Idle
    <3> QED
      BY <1>6, <2>1, <3>1
  <2>3. ASSUME NEW j, job' = [job EXCEPT ![t] = j], j.call \in {"refreshed", "rejected"}
        PROVE  MappingInv'
    BY <1>6, <2>1, <2>3
  <2> QED
    BY <1>9, <2>2, <2>3, RefreshShape
<1>10. ASSUME NEW t \in Threads, OAuth!Keep(t) PROVE MappingInv'
  <2>1. job' = [job EXCEPT ![t] = OAuth!Idle] /\ OAuth!Idle.call = "none"
    BY <1>10, KeepShape DEF OAuth!Done, OAuth!Idle
  <2>2. job[t].call \notin {"store", "mapping"} /\ t \in clients.threads
    BY <1>2, <1>10 DEF OAuth!Keep
  <2> QED
    BY <1>1, <1>10, <2>1, <2>2, KeepShape, MappingQuiet
<1>11. ASSUME NEW t \in Threads, OAuth!Connect(t) \/ OAuth!Store(t) \/ OAuth!Map(t)
       PROVE  MappingInv'
  <2>1. t \in clients.threads
    BY <1>2, <1>11, Zenon DEF OAuth!Connect, OAuth!Store, OAuth!Map, OAuth!At
  <2> QED
    BY <1>1, <1>11, <2>1, MappingConnect, MappingStore, MappingMap
<1>12. ASSUME NEW t \in Threads PROVE ~OAuth!SaveMapping(t)
  BY DEF OAuth!SaveMapping, OAuth!Free
<1> QED
  BY <1>3, <1>4, <1>5, <1>7, <1>8, <1>9, <1>10, <1>11, <1>12
  DEF OAuth!Next, OAuth!vars, OAuth!data, OAuth!Expire, OAuth!Authorize

Connected ==
  /\ OAuthInv
  /\ OAuth!OneAtATime /\ clients.faults = {} => CurrentInv
  /\ OAuth!OneAtATime /\ OAuth!Jira /\ "map" \notin clients.calls => MappingInv

LEMMA ConnectedInit ==
  ASSUME OAuth!OAuthConstants, OAuth!Start, Begin PROVE Connected
<1>1. OAuth!Live = {}
  BY OAuthNulls DEF OAuth!Live, OAuth!Start
<1>2. \A t \in Threads : job[t].call = "none"
  BY DEF Begin, Idle
<1>3. CurrentInv
  BY <1>1, <1>2 DEF CurrentInv, CallCurrent
<1>4. MappingInv
  BY <1>1, <1>2 DEF MappingInv, CallMaps
<1> QED
  BY <1>3, <1>4, OAuthInit DEF Connected

LEMMA ConnectedStep ==
  ASSUME OAuth!OAuthConstants, Connected, clients \in Clients, clients.area = "oauth",
         [OAuth!Next]_OAuth!vars, UNCHANGED clients
  PROVE  Connected'
<1>1. OAuthInv'
  BY OAuthInvStep DEF Connected
<1>2. OAuth!OneAtATime /\ clients.faults = {} => CurrentInv'
  BY CurrentStep DEF Connected
<1>3. OAuth!OneAtATime /\ OAuth!Jira /\ "map" \notin clients.calls => MappingInv'
  BY MappingStep DEF Connected
<1>4. (OAuth!OneAtATime' <=> OAuth!OneAtATime) /\ (OAuth!Jira' <=> OAuth!Jira)
  BY DEF OAuth!OneAtATime, OAuth!Jira
<1> QED
  BY <1>1, <1>2, <1>3, <1>4 DEF Connected

LEMMA ConnectionsKept ==
  ASSUME OAuth!OAuthConstants, Connected
  PROVE  OAuth!TypeOK /\ OAuth!RefreshTokenIsCurrent /\ OAuth!MappingFollowsConnection
<1>1. ASSUME NEW u \in Owners PROVE OAuth!Cardinality(OAuth!Of(u)) <= 1
  <2>1. CASE OAuth!Of(u) = {}
    BY <2>1, SameCounting, FS_EmptySet
  <2>2. CASE OAuth!Of(u) # {}
    <3>1. PICK k : k \in OAuth!Of(u)
      BY <2>2
    <3>2. OAuth!Of(u) = {k}
      BY <3>1 DEF OAuth!Of, Connected, OAuthInv, ConnectionsInv, OneEach
    <3> QED
      BY <3>2, SameCounting, FS_Singleton
  <2> QED
    BY <2>1, <2>2
<1>2. OAuth!TypeOK
  BY <1>1 DEF OAuth!TypeOK, Connected, OAuthInv, ConnectionsInv
<1>3. OAuth!AllIdle => \A t \in Threads : job[t].call = "none"
  BY DEF OAuth!AllIdle, OAuth!Idle
<1>4. OAuth!RefreshTokenIsCurrent
  BY <1>3 DEF OAuth!RefreshTokenIsCurrent, Connected, CurrentInv
<1>5. OAuth!MappingFollowsConnection
  BY <1>3 DEF OAuth!MappingFollowsConnection, Connected, MappingInv, Agreed
<1> QED
  BY <1>2, <1>4, <1>5

-----------------------------------------------------------------------------
(* DocumentFiles.  A row that is gone does not come back, and an upload    *)
(* that is yet to insert its row is the only one that knows the key.       *)

PaperJobFits(j) ==
  /\ j.call \in {"none", "insert", "unlink", "delete", "bulk", "archive", "unarchive", "visibility",
                 "bulk_archive"}
  /\ j = [call |-> j.call, key |-> j.key, row |-> j.row]
  /\ j.call = "none" => j = Files!Idle
  /\ j.call \in {"insert", "unlink", "delete", "archive", "unarchive", "visibility"} => j.key \in DocumentKeys
  /\ j.call = "insert" => j.row \in FileKeys
  /\ j.call \in {"unlink", "delete"} => j.row \in Files!Rows /\ document[j.key] # Nil
  /\ j.call = "bulk" =>
       /\ j.row = [left |-> j.row.left, copy |-> j.row.copy]
       /\ j.key \subseteq DocumentKeys /\ j.row.left \subseteq j.key
       /\ \A d \in j.key : j.row.copy[d] \in Files!Rows /\ document[d] # Nil

PaperTypes ==
  /\ Files!TypeOK /\ job = [t \in Threads |-> job[t]]
  /\ \A t \in Threads : PaperJobFits(job[t]) /\ (job[t].call # "none" => t \in clients.threads)

InsertsApart ==
  \A t \in Threads : job[t].call = "insert" =>
    /\ document[job[t].key] = Nil
    /\ \A u \in Threads : u # t /\ job[u].call = "insert" => job[u].key # job[t].key

\* What may happen to a row.
RowStays(d) == document'[d] = document[d]
RowInserted(d, t) ==
  /\ Files!At(t, "insert") /\ job[t].key = d /\ job'[t] = Files!Idle
  /\ document'[d] \in Files!Rows /\ document'[d].file_key = job[t].row
RowEdited(d) ==
  /\ d \in Files!Live /\ document'[d] \in Files!Rows /\ document'[d].file_key = document[d].file_key
  /\ \/ document'[d].archived \/ ~document[d].archived
     \/ \E t \in Threads : Files!At(t, "unarchive") /\ job[t].key = d
RowDeleted(d, t) ==
  /\ document[d] # Nil /\ document'[d] = Deleted /\ job'[t] = Files!Idle
  /\ \/ Files!At(t, "delete") /\ job[t].key = d
     \/ Files!At(t, "bulk") /\ d \in job[t].key

LEMMA PaperNulls ==
  ASSUME Files!DocumentConstants
  PROVE  /\ Nil \notin Files!Rows /\ Deleted \notin Files!Rows /\ Nil # Deleted
         /\ Nil \notin DocumentKeys /\ Deleted \notin DocumentKeys
BY DEF Files!DocumentConstants

LEMMA RowEdits ==
  ASSUME NEW row \in Files!Rows, NEW b \in BOOLEAN, NEW s \in {"roles", "only_me"}
  PROVE  /\ [row EXCEPT !.archived = b] \in Files!Rows
         /\ [row EXCEPT !.archived = b].file_key = row.file_key
         /\ [row EXCEPT !.archived = b].archived = b
         /\ [row EXCEPT !.visibility_scope = s] \in Files!Rows
         /\ [row EXCEPT !.visibility_scope = s].file_key = row.file_key
         /\ [row EXCEPT !.visibility_scope = s].archived = row.archived
BY DEF Files!Rows

LEMMA RowStep ==
  ASSUME Files!DocumentConstants, PaperTypes, Files!Next
  PROVE  /\ document' = [d \in DocumentKeys |-> document'[d]]
         /\ \A d \in DocumentKeys :
              \/ RowStays(d) \/ RowEdited(d)
              \/ \E t \in Threads : RowInserted(d, t) \/ RowDeleted(d, t)
<1> DEFINE Shape == /\ document' = [d \in DocumentKeys |-> document'[d]]
                    /\ \A d \in DocumentKeys :
                         \/ RowStays(d) \/ RowEdited(d)
                         \/ \E t \in Threads : RowInserted(d, t) \/ RowDeleted(d, t)
<1>1. document = [d \in DocumentKeys |-> document[d]] /\ job = [t \in Threads |-> job[t]]
  BY DEF PaperTypes, Files!TypeOK
<1>2. UNCHANGED document => Shape
  BY <1>1 DEF RowStays
<1>3. ASSUME NEW d \in DocumentKeys, NEW row, document' = [document EXCEPT ![d] = row],
             RowEdited(d) \/ \E t \in Threads : RowInserted(d, t) \/ RowDeleted(d, t)
      PROVE  Shape
  <2>1. document' = [i \in DocumentKeys |-> document'[i]]
    BY <1>1, <1>3
  <2>2. \A i \in DocumentKeys : i = d \/ RowStays(i)
    BY <1>1, <1>3 DEF RowStays
  <2> QED
    BY <1>3, <2>1, <2>2
<1>4. ASSUME NEW t \in Threads, Files!Done(t) PROVE job'[t] = Files!Idle
  BY <1>1, <1>4 DEF Files!Done
<1>5. ASSUME NEW d \in Files!Live, NEW row \in Files!Rows, Files!Save(d, row),
             row.file_key = document[d].file_key,
             row.archived \/ ~document[d].archived
             \/ \E t \in Threads : Files!At(t, "unarchive") /\ job[t].key = d
      PROVE  Shape
  <2>1. d \in DocumentKeys /\ document' = [document EXCEPT ![d] = row]
    BY <1>5 DEF Files!Save, Files!Live
  <2>2. document'[d] = row
    BY <1>1, <2>1
  <2>3. RowEdited(d)
    BY <1>5, <2>2 DEF RowEdited
  <2> QED
    BY <1>3, <2>1, <2>3
<1>6. ASSUME NEW t \in Threads, Files!Insert(t) PROVE Shape
  <2>1. PICK s \in {"roles", "only_me"} :
          document' = [document EXCEPT ![job[t].key] =
                         [file_key |-> job[t].row, archived |-> FALSE, visibility_scope |-> s]]
    BY <1>6 DEF Files!Insert
  <2>2. PICK row : row = [file_key |-> job[t].row, archived |-> FALSE, visibility_scope |-> s]
    OBVIOUS
  <2>3. /\ job[t].key \in DocumentKeys /\ job[t].row \in FileKeys /\ job'[t] = Files!Idle
        /\ Files!At(t, "insert")
    BY <1>4, <1>6 DEF Files!Insert, Files!At, PaperTypes, PaperJobFits
  <2>4. row \in Files!Rows /\ row.file_key = job[t].row
    BY <2>2, <2>3 DEF Files!Rows
  <2>5. PICK d : d = job[t].key
    OBVIOUS
  <2>6. d \in DocumentKeys /\ document' = [document EXCEPT ![d] = row] /\ document'[d] = row
    BY <1>1, <2>1, <2>2, <2>3, <2>5
  <2>7. RowInserted(d, t)
    BY <2>3, <2>4, <2>5, <2>6 DEF RowInserted
  <2> QED
    BY <1>3, <2>6, <2>7
<1>7. ASSUME NEW t \in Threads, Files!DeleteRow(t) PROVE Shape
  <2>1. PICK d : d = job[t].key
    OBVIOUS
  <2>2. /\ d \in DocumentKeys /\ document' = [document EXCEPT ![d] = Deleted] /\ job'[t] = Files!Idle
        /\ Files!At(t, "delete") /\ document[d] # Nil
    BY <1>4, <1>7, <2>1 DEF Files!DeleteRow, Files!At, PaperTypes, PaperJobFits
  <2>3. document'[d] = Deleted
    BY <1>1, <2>2
  <2>4. RowDeleted(d, t)
    BY <2>1, <2>2, <2>3 DEF RowDeleted
  <2> QED
    BY <1>3, <2>2, <2>4
<1>8. ASSUME NEW t \in Threads, Files!BulkDeleteRows(t) PROVE Shape
  <2>1. PICK D : D = job[t].key
    OBVIOUS
  <2>2. /\ document' = [d \in DocumentKeys |-> IF d \in D THEN Deleted ELSE document[d]]
        /\ job'[t] = Files!Idle /\ Files!At(t, "bulk") /\ \A d \in D : document[d] # Nil
    BY <1>4, <1>8, <2>1 DEF Files!BulkDeleteRows, Files!At, PaperTypes, PaperJobFits
  <2>3. ASSUME NEW d \in DocumentKeys PROVE RowStays(d) \/ RowDeleted(d, t)
    BY <2>1, <2>2 DEF RowStays, RowDeleted
  <2> QED
    BY <2>2, <2>3
<1>9. ASSUME NEW t \in Threads, Files!BulkArchive(t) PROVE Shape
  <2>1. CASE job[t].row \subseteq Files!Live
    <3>1. PICK D : D = job[t].row
      OBVIOUS
    <3>2. /\ D \subseteq Files!Live
          /\ document' = [d \in DocumentKeys |->
               IF d \in D THEN [document[d] EXCEPT !.archived = TRUE] ELSE document[d]]
      BY <1>9, <2>1, <3>1 DEF Files!BulkArchive
    <3>3. ASSUME NEW d \in DocumentKeys PROVE RowStays(d) \/ RowEdited(d)
      <4>1. CASE d \in D
        <5>1. document[d] \in Files!Rows /\ d \in Files!Live
          BY <3>2, <4>1 DEF Files!Live
        <5>2. document'[d] = [document[d] EXCEPT !.archived = TRUE]
          BY <3>2, <4>1
        <5>3. PICK row : row = [document[d] EXCEPT !.archived = TRUE]
          OBVIOUS
        <5>4. row \in Files!Rows /\ row.file_key = document[d].file_key /\ row.archived = TRUE
          BY <5>1, <5>3, RowEdits
        <5> QED
          BY <5>1, <5>2, <5>3, <5>4 DEF RowEdited
      <4>2. CASE d \notin D
        BY <3>2, <4>2 DEF RowStays
      <4> QED
        BY <4>1, <4>2
    <3> QED
      BY <3>2, <3>3
  <2>2. CASE ~(job[t].row \subseteq Files!Live)
    BY <1>2, <1>9, <2>2 DEF Files!BulkArchive
  <2> QED
    BY <2>1, <2>2
<1>10. ASSUME NEW t \in Threads, Files!SaveArchived(t) \/ Files!SaveVisibility(t) PROVE Shape
  <2>1. PICK d : d = job[t].key
    OBVIOUS
  <2>2. CASE d \notin Files!Live
    BY <1>2, <1>10, <2>1, <2>2 DEF Files!SaveArchived, Files!SaveVisibility, Files!Save
  <2>3. CASE d \in Files!Live /\ Files!SaveArchived(t)
    <3>1. PICK row, b :
            row = [document[d] EXCEPT !.archived = b] /\ b = Files!At(t, "archive") /\ b \in BOOLEAN
      BY DEF Files!At
    <3>2. Files!Save(d, row) /\ (Files!At(t, "archive") \/ Files!At(t, "unarchive"))
      BY <2>1, <2>3, <3>1 DEF Files!SaveArchived, Files!At
    <3>3. document[d] \in Files!Rows
      BY <2>3 DEF Files!Live
    <3>4. row \in Files!Rows /\ row.file_key = document[d].file_key /\ row.archived = b
      BY <3>1, <3>3, RowEdits, ZenonT(30)
    <3> QED
      BY <1>5, <2>1, <2>3, <3>1, <3>2, <3>4
  <2>4. CASE d \in Files!Live /\ Files!SaveVisibility(t)
    <3>1. PICK s \in {"roles", "only_me"} : Files!Save(d, [document[d] EXCEPT !.visibility_scope = s])
      BY <2>1, <2>4 DEF Files!SaveVisibility
    <3>2. PICK row : row = [document[d] EXCEPT !.visibility_scope = s]
      OBVIOUS
    <3>3. document[d] \in Files!Rows
      BY <2>4 DEF Files!Live
    <3>4. /\ row \in Files!Rows /\ row.file_key = document[d].file_key
          /\ row.archived = document[d].archived
      BY <3>2, <3>3, RowEdits, Zenon
    <3>5. document[d].archived \in BOOLEAN
      BY <3>3 DEF Files!Rows
    <3> QED
      BY <1>5, <2>4, <3>1, <3>2, <3>4, <3>5
  <2> QED
    BY <1>10, <2>2, <2>3, <2>4
<1> QED
  BY <1>2, <1>6, <1>7, <1>8, <1>9, <1>10 DEF Files!Next, Files!SaveFile, Files!Load, Files!DeleteFile,
     Files!LoadBulk, Files!BulkDeleteFile, Files!BulkRollBack, Files!LoadChange,
     Files!LoadBulkArchive, Files!Crash

\* Rows that there were are not forgotten.
LEMMA RowsKnown ==
  ASSUME Files!DocumentConstants, PaperTypes, Files!Next
  PROVE  /\ document' \in [DocumentKeys -> Files!Rows \cup {Nil, Deleted}]
         /\ \A d \in DocumentKeys : document[d] # Nil => document'[d] # Nil
<1>1. ASSUME NEW d \in DocumentKeys
      PROVE  document'[d] \in Files!Rows \cup {Nil, Deleted} /\ (document[d] # Nil => document'[d] # Nil)
  <2>1. document[d] \in Files!Rows \cup {Nil, Deleted}
    BY DEF PaperTypes, Files!TypeOK
  <2> QED
    BY <2>1, RowStep, PaperNulls DEF RowStays, RowEdited, RowInserted, RowDeleted
<1> QED
  BY <1>1, RowStep

\* What every action is, of the jobs.
LEMMA PaperJob ==
  ASSUME Files!DocumentConstants, PaperTypes, clients \in Clients, clients.area = "files", Files!Next
  PROVE  \E t \in Threads : \E j : job' = [job EXCEPT ![t] = j] /\ PaperJobFits(j) /\ t \in clients.threads
<1> DEFINE JobOf(t) == \E j : job' = [job EXCEPT ![t] = j] /\ PaperJobFits(j) /\ t \in clients.threads
<1>1. ASSUME NEW t \in Threads, job[t].call # "none" PROVE t \in clients.threads
  BY <1>1 DEF PaperTypes
<1>2. ASSUME NEW t \in Threads, t \in clients.threads, Files!Done(t) PROVE JobOf(t)
  <2>1. PICK j : j = Files!Idle
    OBVIOUS
  <2>2. job' = [job EXCEPT ![t] = j] /\ j.call = "none"
    BY <1>2, <2>1 DEF Files!Done, Files!Idle
  <2> QED
    BY <1>2, <2>1, <2>2 DEF PaperJobFits, Files!Idle
<1>3. ASSUME NEW t \in Threads, t \in clients.threads, NEW c, NEW k, NEW row, Files!Take(t, c, k, row),
             PaperJobFits([call |-> c, key |-> k, row |-> row])
      PROVE  JobOf(t)
  BY <1>3 DEF Files!Take
<1>4. \A d \in Files!Live : d \in DocumentKeys /\ document[d] \in Files!Rows /\ document[d] # Nil
  BY PaperNulls DEF Files!Live
<1>5. ASSUME NEW t \in Threads, Files!SaveFile(t) PROVE JobOf(t)
  <2>1. PICK d, k : d \in DocumentKeys /\ k \in FileKeys /\ Files!Take(t, "insert", d, k) /\ t \in clients.threads
    BY <1>5 DEF Files!SaveFile, Files!DocumentConstants, Files!Available, Files!Free
  <2>2. PaperJobFits([call |-> "insert", key |-> d, row |-> k])
    BY <2>1 DEF PaperJobFits
  <2> QED
    BY <1>3, <2>1, <2>2
<1>6. ASSUME NEW t \in Threads, Files!Load(t) PROVE JobOf(t)
  <2>1. PICK d \in Files!Live : Files!Take(t, "unlink", d, document[d]) /\ t \in clients.threads
    BY <1>6 DEF Files!Load, Files!Free
  <2>2. PaperJobFits([call |-> "unlink", key |-> d, row |-> document[d]])
    BY <1>4, <2>1 DEF PaperJobFits
  <2> QED
    BY <1>3, <2>1, <2>2
<1>7. ASSUME NEW t \in Threads, Files!DeleteFile(t) PROVE JobOf(t)
  <2>1. Files!Take(t, "delete", job[t].key, job[t].row) /\ job[t].call = "unlink"
    BY <1>7 DEF Files!DeleteFile, Files!At
  <2>2. PaperJobFits([call |-> "delete", key |-> job[t].key, row |-> job[t].row])
    BY <2>1 DEF PaperTypes, PaperJobFits
  <2> QED
    BY <1>1, <1>3, <2>1, <2>2
<1>8. ASSUME NEW t \in Threads, Files!LoadBulk(t) PROVE JobOf(t)
  <2>1. PICK D \in SUBSET Files!Live :
          Files!Take(t, "bulk", D, [left |-> D, copy |-> [d \in D |-> document[d]]]) /\ t \in clients.threads
    BY <1>8 DEF Files!LoadBulk, Files!Free
  <2>2. PICK row : row = [left |-> D, copy |-> [d \in D |-> document[d]]]
    OBVIOUS
  <2>3. PICK j : j = [call |-> "bulk", key |-> D, row |-> row]
    OBVIOUS
  <2>4. PaperJobFits(j)
    BY <1>4, <2>1, <2>2, <2>3 DEF PaperJobFits
  <2> QED
    BY <1>3, <2>1, <2>2, <2>3, <2>4
<1>9. ASSUME NEW t \in Threads, Files!BulkDeleteFile(t) PROVE JobOf(t)
  <2>1. PICK d : d \in job[t].row.left /\ job' = [job EXCEPT ![t].row.left = @ \ {d}]
    BY <1>9 DEF Files!BulkDeleteFile
  <2>2. PICK j0, j : j0 = job[t] /\ j = [job[t] EXCEPT !.row.left = @ \ {d}]
    OBVIOUS
  <2>3. job' = [job EXCEPT ![t] = j]
    BY <2>1, <2>2
  <2>4. j0.call = "bulk" /\ PaperJobFits(j0)
    BY <1>9, <2>2 DEF Files!BulkDeleteFile, Files!At, PaperTypes
  <2>5. PaperJobFits(j)
    <3>1. PICK row : row = [left |-> j0.row.left \ {d}, copy |-> j0.row.copy]
      OBVIOUS
    <3>2. /\ j0 = [call |-> "bulk", key |-> j0.key, row |-> j0.row]
          /\ j0.row = [left |-> j0.row.left, copy |-> j0.row.copy]
      BY <2>4 DEF PaperJobFits
    <3>3. j = [j0 EXCEPT !.row.left = j0.row.left \ {d}]
      BY <2>2
    <3>4. j = [j0 EXCEPT !.row = [j0.row EXCEPT !.left = j0.row.left \ {d}]]
      BY <3>3
    <3>5. row = [j0.row EXCEPT !.left = j0.row.left \ {d}]
      BY <3>1, <3>2
    <3>6. j = [j0 EXCEPT !.row = row]
      BY <3>4, <3>5
    <3>7. j = [call |-> "bulk", key |-> j0.key, row |-> row]
      BY <3>2, <3>6
    <3> QED
      BY <2>4, <3>1, <3>7 DEF PaperJobFits
  <2> QED
    BY <1>1, <2>2, <2>3, <2>4, <2>5
<1>10. ASSUME NEW t \in Threads, Files!LoadChange(t) PROVE JobOf(t)
  <2>1. PICK c, d : /\ c \in {"archive", "unarchive", "visibility"} /\ d \in Files!Live
                   /\ Files!Take(t, c, d, document[d]) /\ t \in clients.threads
    BY <1>10 DEF Files!LoadChange, Files!Free
  <2>2. PaperJobFits([call |-> c, key |-> d, row |-> document[d]])
    BY <1>4, <2>1 DEF PaperJobFits
  <2> QED
    BY <1>3, <2>1, <2>2
<1>11. ASSUME NEW t \in Threads, Files!LoadBulkArchive(t) PROVE JobOf(t)
  <2>1. PICK D, S : Files!Take(t, "bulk_archive", D, S) /\ t \in clients.threads
    BY <1>11 DEF Files!LoadBulkArchive, Files!Free
  <2>2. PaperJobFits([call |-> "bulk_archive", key |-> D, row |-> S])
    BY DEF PaperJobFits
  <2> QED
    BY <1>3, <2>1, <2>2
<1>12. ASSUME NEW t \in Threads,
              \/ Files!Insert(t) \/ Files!DeleteRow(t) \/ Files!BulkDeleteRows(t) \/ Files!BulkRollBack(t)
              \/ Files!SaveArchived(t) \/ Files!SaveVisibility(t) \/ Files!BulkArchive(t) \/ Files!Crash(t)
       PROVE  JobOf(t)
  <2>1. Files!Done(t) /\ job[t].call # "none"
    BY <1>12 DEF Files!Insert, Files!DeleteRow, Files!BulkDeleteRows, Files!BulkRollBack,
       Files!SaveArchived, Files!SaveVisibility, Files!BulkArchive, Files!Crash, Files!At, PaperTypes,
       PaperJobFits
  <2> QED
    BY <1>1, <1>2, <2>1
<1> QED
  BY <1>5, <1>6, <1>7, <1>8, <1>9, <1>10, <1>11, <1>12 DEF Files!Next

LEMMA PaperTypesStep ==
  ASSUME Files!DocumentConstants, PaperTypes, clients \in Clients, clients.area = "files", Files!Next,
         UNCHANGED clients
  PROVE  PaperTypes'
<1>1. Files!TypeOK'
  <2>1. stored' \in [FileKeys -> DocumentKeys \cup {Nil}]
    <3>1. UNCHANGED stored \/ \E k, v : v \in DocumentKeys \cup {Nil} /\ stored' = [stored EXCEPT ![k] = v]
      BY DEF Files!Next, Files!SaveFile, Files!Load, Files!DeleteFile, Files!Insert, Files!DeleteRow,
         Files!LoadBulk, Files!BulkDeleteFile, Files!BulkDeleteRows, Files!BulkRollBack, Files!LoadChange,
         Files!SaveArchived, Files!SaveVisibility, Files!LoadBulkArchive, Files!BulkArchive, Files!Crash,
         Files!Removed, Files!DocumentConstants
    <3> QED
      BY <3>1, SMTT(30) DEF PaperTypes, Files!TypeOK
  <2> QED
    BY <2>1, RowsKnown DEF Files!TypeOK
<1>2. \A j : PaperJobFits(j) => PaperJobFits(j)'
  <2> SUFFICES ASSUME NEW j, PaperJobFits(j) PROVE PaperJobFits(j)'
    OBVIOUS
  <2>1. \A d \in DocumentKeys : document[d] # Nil => document'[d] # Nil
    BY RowsKnown
  <2> QED
    BY <2>1 DEF PaperJobFits
<1>3. PICK t, j : t \in Threads /\ job' = [job EXCEPT ![t] = j] /\ PaperJobFits(j) /\ t \in clients.threads
  BY PaperJob
<1>4. ASSUME NEW u \in Threads PROVE PaperJobFits(job[u])' /\ (job'[u].call # "none" => u \in clients'.threads)
  <2>1. PICK i : i = job'[u]
    OBVIOUS
  <2>2. i = IF u = t THEN j ELSE job[u]
    BY <1>3, <2>1 DEF PaperTypes
  <2>3. PaperJobFits(i) /\ (i.call # "none" => u \in clients.threads)
    BY <1>3, <2>2 DEF PaperTypes
  <2> QED
    BY <1>2, <2>1, <2>3
<1>5. job' = [u \in Threads |-> job'[u]]
  BY <1>3 DEF PaperTypes
<1> QED
  BY <1>1, <1>4, <1>5 DEF PaperTypes

LEMMA InsertsApartStep ==
  ASSUME Files!DocumentConstants, PaperTypes, clients \in Clients, clients.area = "files", Files!Next,
         InsertsApart
  PROVE  InsertsApart'
<1>1. \E t \in Threads : \E j :
        /\ job' = [job EXCEPT ![t] = j]
        /\ j.call = "insert" =>
             /\ UNCHANGED document /\ document[j.key] = Nil
             /\ \A u \in Threads : job[u].key # j.key
  <2>1. ASSUME NEW t \in Threads, Files!SaveFile(t)
        PROVE  \E j : /\ job' = [job EXCEPT ![t] = j]
                      /\ UNCHANGED document /\ document[j.key] = Nil
                      /\ \A u \in Threads : job[u].key # j.key
    <3>1. PICK d, k : Files!Unused(d) /\ Files!Take(t, "insert", d, k)
      BY <2>1 DEF Files!SaveFile
    <3>2. PICK j : j = [call |-> "insert", key |-> d, row |-> k]
      OBVIOUS
    <3>3. job' = [job EXCEPT ![t] = j] /\ j.key = d
      BY <3>1, <3>2 DEF Files!Take
    <3> QED
      BY <2>1, <3>1, <3>3 DEF Files!SaveFile, Files!Unused
  <2>2. ASSUME NEW t \in Threads, NEW c, c # "insert", NEW k, NEW row, Files!Take(t, c, k, row)
        PROVE  \E j : job' = [job EXCEPT ![t] = j] /\ j.call # "insert"
    <3>1. PICK j : j = [call |-> c, key |-> k, row |-> row]
      OBVIOUS
    <3>2. job' = [job EXCEPT ![t] = j] /\ j.call # "insert"
      BY <2>2, <3>1 DEF Files!Take
    <3> QED
      BY <3>2
  <2>3. ASSUME NEW t \in Threads, Files!Done(t)
        PROVE  \E j : job' = [job EXCEPT ![t] = j] /\ j.call # "insert"
    <3>1. PICK j : j = Files!Idle
      OBVIOUS
    <3>2. job' = [job EXCEPT ![t] = j] /\ j.call # "insert"
      BY <2>3, <3>1 DEF Files!Done, Files!Idle
    <3> QED
      BY <3>2
  <2>4. ASSUME NEW t \in Threads, Files!BulkDeleteFile(t)
        PROVE  \E j : job' = [job EXCEPT ![t] = j] /\ j.call # "insert"
    <3>1. PICK d : job' = [job EXCEPT ![t].row.left = @ \ {d}]
      BY <2>4 DEF Files!BulkDeleteFile
    <3>2. PICK j : j = [job[t] EXCEPT !.row.left = @ \ {d}]
      OBVIOUS
    <3>3. job' = [job EXCEPT ![t] = j] /\ j.call = job[t].call
      BY <3>1, <3>2
    <3> QED
      BY <2>4, <3>3 DEF Files!BulkDeleteFile, Files!At
  <2>5. ASSUME NEW t \in Threads,
               \/ Files!Load(t) \/ Files!DeleteFile(t) \/ Files!LoadBulk(t)
               \/ Files!LoadChange(t) \/ Files!LoadBulkArchive(t)
        PROVE  \E j : job' = [job EXCEPT ![t] = j] /\ j.call # "insert"
    <3>1. \E c, k, row : c # "insert" /\ Files!Take(t, c, k, row)
      BY <2>5 DEF Files!Load, Files!DeleteFile, Files!LoadBulk, Files!LoadChange, Files!LoadBulkArchive
    <3> QED
      BY <2>2, <3>1
  <2>6. ASSUME NEW t \in Threads,
               \/ Files!Insert(t) \/ Files!DeleteRow(t) \/ Files!BulkDeleteRows(t) \/ Files!BulkRollBack(t)
               \/ Files!SaveArchived(t) \/ Files!SaveVisibility(t) \/ Files!BulkArchive(t) \/ Files!Crash(t)
        PROVE  \E j : job' = [job EXCEPT ![t] = j] /\ j.call # "insert"
    BY <2>3, <2>6 DEF Files!Insert, Files!DeleteRow, Files!BulkDeleteRows, Files!BulkRollBack,
       Files!SaveArchived, Files!SaveVisibility, Files!BulkArchive, Files!Crash
  <2> QED
    BY <2>1, <2>4, <2>5, <2>6 DEF Files!Next
<1>2. PICK t, j :
        /\ t \in Threads /\ job' = [job EXCEPT ![t] = j]
        /\ j.call = "insert" =>
             /\ UNCHANGED document /\ document[j.key] = Nil
             /\ \A u \in Threads : job[u].key # j.key
  BY <1>1, Zenon
<1>3. \A u \in Threads : job'[u] = IF u = t THEN j ELSE job[u]
  BY <1>2 DEF PaperTypes
<1>4. ASSUME NEW u \in Threads, u # t, job[u].call = "insert" PROVE document'[job[u].key] = Nil
  <2>1. PICK d : d = job[u].key
    OBVIOUS
  <2>2. d \in DocumentKeys /\ document[d] = Nil /\ d \notin Files!Live
    BY <1>4, <2>1, PaperNulls DEF PaperTypes, PaperJobFits, InsertsApart, Files!Live
  <2>3. \A v \in Threads : ~RowInserted(d, v)
    <3>1. \A v \in Threads : v # u /\ job[v].call = "insert" => job[v].key # d
      BY <1>4, <2>1 DEF InsertsApart
    <3>2. job'[u].call = "insert"
      BY <1>3, <1>4
    <3>3. job'[u] # Files!Idle
      BY <3>2 DEF Files!Idle
    <3> QED
      BY <3>1, <3>3 DEF RowInserted, Files!At
  <2>4. document'[d] = Nil
    BY <2>2, <2>3, RowStep DEF RowStays, RowEdited, RowDeleted
  <2> QED
    BY <2>1, <2>4
<1>5. ASSUME NEW u \in Threads, (job[u].call = "insert")'
      PROVE  (/\ document[job[u].key] = Nil
              /\ \A v \in Threads : v # u /\ job[v].call = "insert" => job[v].key # job[u].key)'
  <2>1. CASE u = t
    BY <1>2, <1>3, <1>5, <2>1
  <2>2. CASE u # t
    <3>1. job'[u] = job[u] /\ job[u].call = "insert"
      BY <1>3, <1>5, <2>2
    <3>2. document'[job'[u].key] = Nil
      BY <1>4, <2>2, <3>1
    <3>3. \A v \in Threads : v # u /\ job'[v].call = "insert" => job'[v].key # job'[u].key
      BY <1>2, <1>3, <2>2, <3>1 DEF InsertsApart
    <3> QED
      BY <3>2, <3>3
  <2> QED
    BY <2>1, <2>2
<1> QED
  BY <1>5 DEF InsertsApart

-----------------------------------------------------------------------------
(* Rows and files.  One call at a time, in a storage that neither fails    *)
(* nor overwrites: what is not where it should be is what the call under   *)
(* way has stored, or removed, before it writes the row.                   *)

Quiet == Files!OneAtATime /\ clients.faults = {} /\ ~clients.overwrite

Removing(j, d) ==
  \/ j.call = "delete" /\ d = j.key
  \/ j.call = "bulk" /\ d \in j.key \ j.row.left

FileOfRow(k) == stored[k] \in Files!Live /\ document[stored[k]].file_key = k
RowOfFile(d) == stored[document[d].file_key] = d

\* What the copies of a call tell.
PaperJobFollows(j) ==
  /\ j.call = "insert" => stored[j.row] = j.key
  /\ j.call = "unlink" => j.key \in Files!Live /\ j.row = document[j.key]
  /\ j.call = "delete" => \A k \in FileKeys : stored[k] # j.key
  /\ j.call = "bulk" =>
       /\ \A d \in j.key : d \in Files!Live /\ j.row.copy[d] = document[d]
       /\ \A d \in j.key \ j.row.left : \A k \in FileKeys : stored[k] # d

FollowInv ==
  /\ \A k \in FileKeys : stored[k] # Nil =>
       FileOfRow(k) \/ \E t \in Threads : job[t].call = "insert" /\ job[t].key = stored[k] /\ job[t].row = k
  /\ \A d \in Files!Live : RowOfFile(d) \/ \E t \in Threads : Removing(job[t], d)
  /\ \A t \in Threads : PaperJobFollows(job[t])

\* The same, of the one call under way.
FollowsOf(j) ==
  /\ \A k \in FileKeys : stored[k] # Nil =>
       FileOfRow(k) \/ (j.call = "insert" /\ j.key = stored[k] /\ j.row = k)
  /\ \A d \in Files!Live : RowOfFile(d) \/ Removing(j, d)
  /\ PaperJobFollows(j)

LEMMA PaperAlone ==
  ASSUME PaperTypes, Files!OneAtATime, NEW t \in Threads, t \in clients.threads
  PROVE  \A u \in Threads : u # t => job[u].call = "none"
BY DEF PaperTypes, Files!OneAtATime

LEMMA FollowsAlone ==
  ASSUME NEW t \in Threads, \A u \in Threads : u # t => job[u].call = "none"
  PROVE  FollowInv <=> FollowsOf(job[t])
<1>1. \A u \in Threads : u # t => PaperJobFollows(job[u]) /\ \A d : ~Removing(job[u], d)
  BY DEF Removing, PaperJobFollows
<1>2. \A k : (\E u \in Threads : job[u].call = "insert" /\ job[u].key = stored[k] /\ job[u].row = k)
             => job[t].call = "insert" /\ job[t].key = stored[k] /\ job[t].row = k
  OBVIOUS
<1>3. FollowInv => FollowsOf(job[t])
  BY <1>1, <1>2 DEF FollowInv, FollowsOf
<1>4. FollowsOf(job[t]) => FollowInv
  BY <1>1 DEF FollowInv, FollowsOf
<1> QED
  BY <1>3, <1>4

LEMMA FollowStep ==
  ASSUME Files!DocumentConstants, PaperTypes, InsertsApart, clients \in Clients, clients.area = "files",
         Files!Next, Quiet, FollowInv
  PROVE  FollowInv'
<1>1. \E t \in Threads :
        /\ t \in clients.threads
        /\ \/ Files!SaveFile(t) \/ Files!Insert(t) \/ Files!Load(t) \/ Files!DeleteFile(t)
           \/ Files!DeleteRow(t) \/ Files!LoadBulk(t) \/ Files!BulkDeleteFile(t)
           \/ Files!BulkDeleteRows(t) \/ Files!LoadChange(t) \/ Files!SaveArchived(t)
           \/ Files!SaveVisibility(t) \/ Files!LoadBulkArchive(t) \/ Files!BulkArchive(t)
  <2>1. \A t \in Threads : ~Files!BulkRollBack(t) /\ ~Files!Crash(t)
    BY DEF Quiet, Files!BulkRollBack, Files!Crash, Files!Fault
  <2>2. ASSUME NEW t \in Threads,
               \/ Files!SaveFile(t) \/ Files!Load(t) \/ Files!LoadBulk(t) \/ Files!LoadChange(t)
               \/ Files!LoadBulkArchive(t)
        PROVE  t \in clients.threads
    BY <2>2 DEF Files!SaveFile, Files!Load, Files!LoadBulk, Files!LoadChange, Files!LoadBulkArchive,
       Files!Free
  <2>3. ASSUME NEW t \in Threads,
               \/ Files!Insert(t) \/ Files!DeleteFile(t) \/ Files!DeleteRow(t) \/ Files!BulkDeleteFile(t)
               \/ Files!BulkDeleteRows(t) \/ Files!SaveArchived(t) \/ Files!SaveVisibility(t)
               \/ Files!BulkArchive(t)
        PROVE  t \in clients.threads
    BY <2>3 DEF Files!Insert, Files!DeleteFile, Files!DeleteRow, Files!BulkDeleteFile,
       Files!BulkDeleteRows, Files!SaveArchived, Files!SaveVisibility, Files!BulkArchive, Files!At,
       PaperTypes
  <2> QED
    BY <2>1, <2>2, <2>3 DEF Files!Next
<1>2. PICK t \in Threads :
        /\ t \in clients.threads
        /\ \/ Files!SaveFile(t) \/ Files!Insert(t) \/ Files!Load(t) \/ Files!DeleteFile(t)
           \/ Files!DeleteRow(t) \/ Files!LoadBulk(t) \/ Files!BulkDeleteFile(t)
           \/ Files!BulkDeleteRows(t) \/ Files!LoadChange(t) \/ Files!SaveArchived(t)
           \/ Files!SaveVisibility(t) \/ Files!LoadBulkArchive(t) \/ Files!BulkArchive(t)
  BY <1>1
<1>3. \A u \in Threads : u # t => job[u].call = "none"
  BY <1>2, PaperAlone DEF Quiet
<1>4. PICK old : old = job[t]
  OBVIOUS
<1>5. FollowsOf(old) /\ PaperJobFits(old)
  BY <1>3, <1>4, FollowsAlone DEF PaperTypes
<1>6. ASSUME NEW j, job' = [job EXCEPT ![t] = j], FollowsOf(j)' PROVE FollowInv'
  <2>1. \A u \in Threads : job'[u] = IF u = t THEN j ELSE job[u]
    BY <1>6 DEF PaperTypes
  <2>2. job'[t] = j /\ \A u \in Threads : u # t => job'[u].call = "none"
    BY <1>3, <2>1
  <2>3. \A k \in FileKeys : stored'[k] # Nil =>
          FileOfRow(k)' \/ \E u \in Threads : job'[u].call = "insert" /\ job'[u].key = stored'[k] /\ job'[u].row = k
    BY <1>6, <2>2 DEF FollowsOf
  <2>4. \A d \in Files!Live' : RowOfFile(d)' \/ \E u \in Threads : Removing(job'[u], d)
    BY <1>6, <2>2 DEF FollowsOf
  <2>5. ASSUME NEW u \in Threads PROVE PaperJobFollows(job[u])'
    <3>1. CASE u = t
      BY <1>6, <2>2, <3>1 DEF FollowsOf
    <3>2. CASE u # t
      BY <2>2, <3>2 DEF PaperJobFollows
    <3> QED
      BY <3>1, <3>2
  <2> QED
    BY <2>3, <2>4, <2>5 DEF FollowInv, Removing
<1>7. ASSUME NEW c, NEW k, NEW row, Files!Take(t, c, k, row)
      PROVE  job' = [job EXCEPT ![t] = [call |-> c, key |-> k, row |-> row]]
  BY <1>7 DEF Files!Take
<1>8. /\ document \in [DocumentKeys -> Files!Rows \cup {Nil, Deleted}]
      /\ stored \in [FileKeys -> DocumentKeys \cup {Nil}]
      /\ \A d \in Files!Live : /\ d \in DocumentKeys /\ document[d] \in Files!Rows
                              /\ document[d].file_key \in FileKeys
  BY DEF PaperTypes, Files!TypeOK, Files!Live, Files!Rows
<1>9. ASSUME old.call \notin {"insert", "delete", "bulk"},
             UNCHANGED stored, Files!Live' = Files!Live,
             \A d \in Files!Live : document'[d].file_key = document[d].file_key,
             NEW j, job' = [job EXCEPT ![t] = j], j.call \notin {"insert", "delete"},
             PaperJobFollows(j)'
      PROVE  FollowInv'
  <2>1. ASSUME NEW k \in FileKeys, stored'[k] # Nil PROVE FileOfRow(k)'
    BY <1>5, <1>9, <2>1 DEF FollowsOf, FileOfRow
  <2>2. ASSUME NEW d \in Files!Live' PROVE RowOfFile(d)'
    BY <1>5, <1>9, <2>2 DEF FollowsOf, RowOfFile, Removing
  <2>3. FollowsOf(j)'
    BY <1>9, <2>1, <2>2 DEF FollowsOf, FileOfRow, RowOfFile, Removing
  <2> QED
    BY <1>6, <1>9, <2>3
<1>10. CASE Files!SaveFile(t)
  <2>1. PICK d, k : /\ d \in DocumentKeys /\ k \in FileKeys /\ stored[k] = Nil /\ Files!Unused(d)
                   /\ stored' = [stored EXCEPT ![k] = d] /\ Files!Take(t, "insert", d, k)
    BY <1>8, <1>10 DEF Files!SaveFile, Files!Available, Quiet, Files!DocumentConstants
  <2>2. PICK j : j = [call |-> "insert", key |-> d, row |-> k]
    OBVIOUS
  <2>3. old.call = "none" /\ UNCHANGED document /\ job' = [job EXCEPT ![t] = j]
    <3>1. old.call = "none" /\ UNCHANGED document
      BY <1>4, <1>10 DEF Files!SaveFile, Files!Free, Files!Idle
    <3> QED
      BY <1>7, <2>1, <2>2, <3>1
  <2>4. ASSUME NEW i \in FileKeys, stored'[i] # Nil, i # k PROVE FileOfRow(i)'
    BY <1>5, <1>8, <2>1, <2>3, <2>4 DEF FollowsOf, FileOfRow, Files!Live
  <2>5. stored'[k] = d
    BY <1>8, <2>1
  <2>6. ASSUME NEW i \in Files!Live' PROVE RowOfFile(i)'
    <3>1. i \in Files!Live /\ RowOfFile(i)
      BY <1>5, <2>3, <2>6 DEF FollowsOf, Files!Live, Removing
    <3>2. document[i].file_key # k
      BY <1>8, <2>1, <3>1 DEF RowOfFile, Files!DocumentConstants
    <3> QED
      BY <1>8, <2>1, <2>3, <3>1, <3>2 DEF RowOfFile
  <2>7. FollowsOf(j)'
    BY <2>2, <2>4, <2>5, <2>6 DEF FollowsOf, PaperJobFollows, FileOfRow, RowOfFile, Removing
  <2> QED
    BY <1>6, <2>3, <2>7
<1>11. CASE Files!Insert(t)
  <2>1. PICK d, k : d = old.key /\ k = old.row
    OBVIOUS
  <2>2. /\ old.call = "insert" /\ d \in DocumentKeys /\ k \in FileKeys /\ document[d] = Nil
        /\ stored[k] = d /\ UNCHANGED stored
    BY <1>4, <1>5, <1>11, <2>1 DEF Files!Insert, Files!At, PaperJobFits, InsertsApart, FollowsOf,
       PaperJobFollows
  <2>3. PICK row : document' = [document EXCEPT ![d] = row] /\ row \in Files!Rows /\ row.file_key = k
    <3>1. PICK s \in {"roles", "only_me"} :
            document' = [document EXCEPT ![d] = [file_key |-> k, archived |-> FALSE, visibility_scope |-> s]]
      BY <1>4, <1>11, <2>1 DEF Files!Insert
    <3>2. PICK row : row = [file_key |-> k, archived |-> FALSE, visibility_scope |-> s]
      OBVIOUS
    <3>3. row \in Files!Rows /\ row.file_key = k
      BY <2>2, <3>2 DEF Files!Rows
    <3> QED
      BY <3>1, <3>2, <3>3
  <2>4. d \notin Files!Live
    BY <2>2, PaperNulls DEF Files!Live
  <2>5. \A i \in DocumentKeys : document'[i] = IF i = d THEN row ELSE document[i]
    BY <1>8, <2>3
  <2>6. Files!Live' = Files!Live \cup {d}
    BY <2>2, <2>3, <2>5 DEF Files!Live
  <2>7. ASSUME NEW i \in FileKeys, stored'[i] # Nil PROVE FileOfRow(i)'
    <3>1. FileOfRow(i) \/ i = k
      BY <1>5, <2>1, <2>2, <2>7 DEF FollowsOf
    <3> QED
      BY <1>8, <2>2, <2>3, <2>4, <2>5, <2>6, <3>1 DEF FileOfRow
  <2>8. ASSUME NEW i \in Files!Live' PROVE RowOfFile(i)'
    BY <1>5, <1>8, <2>2, <2>3, <2>4, <2>5, <2>6, <2>8 DEF FollowsOf, RowOfFile, Removing
  <2>9. PICK j : j = Files!Idle
    OBVIOUS
  <2>10. job' = [job EXCEPT ![t] = j] /\ j.call = "none"
    BY <1>11, <2>9 DEF Files!Insert, Files!Done, Files!Idle
  <2>11. FollowsOf(j)'
    BY <2>7, <2>8, <2>10 DEF FollowsOf, PaperJobFollows, FileOfRow, RowOfFile, Removing
  <2> QED
    BY <1>6, <2>10, <2>11
<1>12. CASE Files!Load(t) \/ Files!LoadBulk(t) \/ Files!LoadChange(t) \/ Files!LoadBulkArchive(t)
  <2>1. old.call = "none" /\ UNCHANGED <<document, stored>>
    BY <1>4, <1>12 DEF Files!Load, Files!LoadBulk, Files!LoadChange, Files!LoadBulkArchive, Files!Free,
       Files!Idle
  <2>2. Files!Live' = Files!Live
    BY <2>1 DEF Files!Live
  <2>3. ASSUME NEW c, NEW k, NEW row, Files!Take(t, c, k, row), c \notin {"insert", "delete"},
               \A j : j = [call |-> c, key |-> k, row |-> row] => PaperJobFollows(j)'
        PROVE  FollowInv'
    <3>1. PICK j : j = [call |-> c, key |-> k, row |-> row]
      OBVIOUS
    <3>2. job' = [job EXCEPT ![t] = j] /\ j.call \notin {"insert", "delete"} /\ PaperJobFollows(j)'
      BY <1>7, <2>3, <3>1
    <3> QED
      BY <1>9, <2>1, <2>2, <3>2
  <2>4. CASE Files!Load(t)
    <3>1. PICK d \in Files!Live : Files!Take(t, "unlink", d, document[d])
      BY <2>4 DEF Files!Load
    <3>2. ASSUME NEW j, j = [call |-> "unlink", key |-> d, row |-> document[d]] PROVE PaperJobFollows(j)'
      BY <2>1, <2>2, <3>2 DEF PaperJobFollows
    <3> QED
      BY <2>3, <3>1, <3>2
  <2>5. CASE Files!LoadBulk(t)
    <3>1. PICK D \in SUBSET Files!Live :
            Files!Take(t, "bulk", D, [left |-> D, copy |-> [d \in D |-> document[d]]])
      BY <2>5 DEF Files!LoadBulk
    <3>2. PICK row : row = [left |-> D, copy |-> [d \in D |-> document[d]]]
      OBVIOUS
    <3>3. ASSUME NEW j, j = [call |-> "bulk", key |-> D, row |-> row] PROVE PaperJobFollows(j)'
      BY <2>1, <2>2, <3>1, <3>2, <3>3 DEF PaperJobFollows
    <3> QED
      BY <2>3, <3>1, <3>2, <3>3
  <2>6. CASE Files!LoadChange(t) \/ Files!LoadBulkArchive(t)
    <3>0. \E c, k, row : /\ c \in {"archive", "unarchive", "visibility", "bulk_archive"}
                         /\ Files!Take(t, c, k, row)
      <4>1. CASE Files!LoadChange(t)
        BY <4>1 DEF Files!LoadChange
      <4>2. CASE Files!LoadBulkArchive(t)
        BY <4>2 DEF Files!LoadBulkArchive
      <4> QED
        BY <2>6, <4>1, <4>2
    <3>1. PICK c, k, row : /\ c \in {"archive", "unarchive", "visibility", "bulk_archive"}
                          /\ Files!Take(t, c, k, row)
      BY <3>0
    <3>2. ASSUME NEW j, j = [call |-> c, key |-> k, row |-> row] PROVE PaperJobFollows(j)'
      BY <3>1, <3>2 DEF PaperJobFollows
    <3> QED
      BY <2>3, <3>1, <3>2
  <2> QED
    BY <1>12, <2>4, <2>5, <2>6
<1>13. CASE Files!DeleteFile(t)
  <2>1. PICK d, row, k : d = old.key /\ row = old.row /\ k = row.file_key
    OBVIOUS
  <2>2. old.call = "unlink" /\ d \in Files!Live /\ row = document[d] /\ UNCHANGED document
    BY <1>4, <1>5, <1>13, <2>1 DEF Files!DeleteFile, Files!At, FollowsOf, PaperJobFollows
  <2>3. stored' = [stored EXCEPT ![k] = Nil]
    BY <1>4, <1>13, <2>1 DEF Files!DeleteFile, Files!Removed, Files!Fault, Quiet
  <2>4. stored[k] = d /\ k \in FileKeys /\ document[d].file_key = k
    BY <1>5, <1>8, <2>1, <2>2 DEF FollowsOf, RowOfFile, Removing
  <2>5. \A i \in FileKeys : stored'[i] = IF i = k THEN Nil ELSE stored[i]
    BY <1>8, <2>3
  <2>6. ASSUME NEW i \in FileKeys, stored'[i] # Nil
        PROVE  FileOfRow(i) /\ i # k /\ stored'[i] = stored[i] /\ stored[i] # d
    BY <1>5, <2>2, <2>4, <2>5, <2>6 DEF FollowsOf, FileOfRow
  <2>7. Files!Live' = Files!Live
    BY <2>2 DEF Files!Live
  <2>8. ASSUME NEW i \in Files!Live', i # d PROVE RowOfFile(i)'
    <3>1. RowOfFile(i)
      BY <1>5, <2>2, <2>7, <2>8 DEF FollowsOf, Removing
    <3> QED
      BY <1>8, <2>2, <2>4, <2>5, <2>7, <2>8, <3>1 DEF RowOfFile
  <2>9. PICK j : j = [call |-> "delete", key |-> d, row |-> row]
    OBVIOUS
  <2>10. job' = [job EXCEPT ![t] = j]
    BY <1>4, <1>13, <2>1, <2>9 DEF Files!DeleteFile, Files!Take
  <2>11. \A i \in FileKeys : stored'[i] # d
    BY <1>8, <2>2, <2>6, PaperNulls
  <2>12. \A i \in FileKeys : stored'[i] # Nil => FileOfRow(i)'
    BY <2>2, <2>6, <2>7 DEF FileOfRow
  <2>13. FollowsOf(j)'
    BY <2>8, <2>9, <2>11, <2>12 DEF FollowsOf, PaperJobFollows, Removing, FileOfRow, RowOfFile
  <2> QED
    BY <1>6, <2>10, <2>13
<1>14. CASE Files!BulkDeleteFile(t)
  <2>1. PICK d : /\ d \in old.row.left /\ Files!Removed(old.row.copy[d].file_key)
                /\ job' = [job EXCEPT ![t].row.left = @ \ {d}] /\ old.call = "bulk"
    BY <1>4, <1>14 DEF Files!BulkDeleteFile, Files!At
  <2>2. PICK K, L, C, k : K = old.key /\ L = old.row.left /\ C = old.row.copy /\ k = C[d].file_key
    OBVIOUS
  <2>3. /\ d \in K /\ L \subseteq K /\ d \in Files!Live /\ C[d] = document[d] /\ UNCHANGED document
        /\ old = [call |-> "bulk", key |-> K, row |-> old.row]
        /\ old.row = [left |-> L, copy |-> C]
    BY <1>5, <1>14, <2>1, <2>2 DEF Files!BulkDeleteFile, PaperJobFits, FollowsOf, PaperJobFollows
  <2>4. stored' = [stored EXCEPT ![k] = Nil]
    BY <2>1, <2>2 DEF Files!Removed, Files!Fault, Quiet
  <2>5. stored[k] = d /\ k \in FileKeys /\ document[d].file_key = k
    BY <1>5, <1>8, <2>1, <2>2, <2>3 DEF FollowsOf, RowOfFile, Removing
  <2>6. \A i \in FileKeys : stored'[i] = IF i = k THEN Nil ELSE stored[i]
    BY <1>8, <2>4
  <2>7. ASSUME NEW i \in FileKeys, stored'[i] # Nil
        PROVE  FileOfRow(i) /\ i # k /\ stored'[i] = stored[i] /\ stored[i] # d
    BY <1>5, <2>1, <2>5, <2>6, <2>7 DEF FollowsOf, FileOfRow
  <2>8. Files!Live' = Files!Live
    BY <2>3 DEF Files!Live
  <2>9. PICK row, j : row = [left |-> L \ {d}, copy |-> C] /\ j = [call |-> "bulk", key |-> K, row |-> row]
    OBVIOUS
  <2>10. job' = [job EXCEPT ![t] = j]
    <3>1. row = [old.row EXCEPT !.left = L \ {d}]
      BY <2>3, <2>9
    <3>2. j = [old EXCEPT !.row = row]
      BY <2>3, <2>9
    <3>3. job' = [job EXCEPT ![t] = [old EXCEPT !.row.left = L \ {d}]]
      BY <1>4, <2>1, <2>2
    <3>4. [old EXCEPT !.row.left = L \ {d}] = [old EXCEPT !.row = [old.row EXCEPT !.left = L \ {d}]]
      OBVIOUS
    <3> QED
      BY <3>1, <3>2, <3>3, <3>4
  <2>11. ASSUME NEW i \in Files!Live', i # d PROVE RowOfFile(i)' \/ i \in K \ L
    <3>1. RowOfFile(i) \/ i \in K \ L
      BY <1>5, <2>1, <2>2, <2>8, <2>11 DEF FollowsOf, Removing
    <3> QED
      BY <1>8, <2>3, <2>5, <2>6, <2>8, <2>11, <3>1 DEF RowOfFile
  <2>12. \A i \in FileKeys : stored'[i] # d
    BY <1>8, <2>3, <2>7, PaperNulls
  <2>13. \A i \in FileKeys : stored'[i] # Nil => FileOfRow(i)'
    BY <2>3, <2>7, <2>8 DEF FileOfRow
  <2>14. \A i \in K \ (L \ {d}) : \A m \in FileKeys : stored'[m] # i
    <3>1. \A i \in K \ L : i \in Files!Live /\ \A m \in FileKeys : stored[m] # i
      BY <1>5, <2>1, <2>2 DEF FollowsOf, PaperJobFollows
    <3> QED
      BY <1>8, <2>6, <2>12, <3>1, PaperNulls
  <2>15. \A i \in K : i \in Files!Live' /\ C[i] = document'[i]
    BY <1>5, <2>1, <2>2, <2>3, <2>8 DEF FollowsOf, PaperJobFollows
  <2>16. PaperJobFollows(j)'
    BY <2>9, <2>14, <2>15 DEF PaperJobFollows
  <2>17. FollowsOf(j)'
    BY <2>3, <2>9, <2>11, <2>13, <2>16 DEF FollowsOf, Removing, FileOfRow, RowOfFile
  <2> QED
    BY <1>6, <2>10, <2>17
<1>15. CASE Files!DeleteRow(t) \/ Files!BulkDeleteRows(t)
  <2>1. PICK D : D = {d \in DocumentKeys : Removing(old, d)}
    OBVIOUS
  <2>2. /\ UNCHANGED stored /\ Files!Done(t) /\ old.call \in {"delete", "bulk"}
        /\ \A d \in DocumentKeys : document'[d] = IF d \in D THEN Deleted ELSE document[d]
    <3>1. CASE Files!DeleteRow(t)
      <4>1. old.call = "delete" /\ document' = [document EXCEPT ![old.key] = Deleted]
        BY <1>4, <3>1 DEF Files!DeleteRow, Files!At
      <4>2. \A d \in DocumentKeys : d \in D <=> d = old.key
        BY <2>1, <4>1 DEF Removing
      <4>3. \A d \in DocumentKeys : document'[d] = IF d = old.key THEN Deleted ELSE document[d]
        BY <1>8, <4>1
      <4> QED
        BY <3>1, <4>1, <4>2, <4>3 DEF Files!DeleteRow
    <3>2. CASE Files!BulkDeleteRows(t)
      <4>1. /\ old.call = "bulk" /\ old.row.left = {}
            /\ document' = [d \in DocumentKeys |-> IF d \in old.key THEN Deleted ELSE document[d]]
        BY <1>4, <3>2 DEF Files!BulkDeleteRows, Files!At
      <4>2. \A d \in DocumentKeys : d \in D <=> d \in old.key
        BY <2>1, <4>1 DEF Removing
      <4> QED
        BY <3>2, <4>1, <4>2 DEF Files!BulkDeleteRows
    <3> QED
      BY <1>15, <3>1, <3>2
  <2>3. Files!Live' = Files!Live \ D
    BY <2>2, PaperNulls DEF Files!Live
  <2>4. \A d \in D : \A k \in FileKeys : stored[k] # d
    BY <1>5, <2>1, <2>2 DEF FollowsOf, PaperJobFollows, Removing
  <2>5. ASSUME NEW k \in FileKeys, stored'[k] # Nil PROVE FileOfRow(k)'
    <3>1. FileOfRow(k)
      BY <1>5, <2>2, <2>5 DEF FollowsOf
    <3> QED
      BY <1>8, <2>2, <2>3, <2>4, <3>1 DEF FileOfRow
  <2>6. ASSUME NEW d \in Files!Live' PROVE RowOfFile(d)'
    <3>1. d \in Files!Live /\ d \in DocumentKeys /\ ~Removing(old, d)
      BY <1>8, <2>1, <2>3, <2>6
    <3> QED
      BY <1>5, <2>1, <2>2, <3>1 DEF FollowsOf, RowOfFile
  <2>7. PICK j : j = Files!Idle
    OBVIOUS
  <2>8. job' = [job EXCEPT ![t] = j] /\ j.call = "none"
    BY <2>2, <2>7 DEF Files!Done, Files!Idle
  <2>9. FollowsOf(j)'
    BY <2>5, <2>6, <2>8 DEF FollowsOf, PaperJobFollows, FileOfRow, RowOfFile, Removing
  <2> QED
    BY <1>6, <2>8, <2>9
<1>16. CASE Files!SaveArchived(t) \/ Files!SaveVisibility(t) \/ Files!BulkArchive(t)
  <2>1. /\ old.call \in {"archive", "unarchive", "visibility", "bulk_archive"}
        /\ UNCHANGED stored /\ Files!Done(t)
    BY <1>4, <1>16 DEF Files!SaveArchived, Files!SaveVisibility, Files!BulkArchive, Files!At
  <2>2. \A d \in DocumentKeys : RowStays(d) \/ RowEdited(d)
    BY <1>3, <1>4, <2>1, RowStep DEF RowInserted, RowDeleted, Files!At
  <2>3. Files!Live' = Files!Live
    BY <2>2 DEF Files!Live, RowStays, RowEdited
  <2>4. \A d \in Files!Live : document'[d].file_key = document[d].file_key
    BY <1>8, <2>2 DEF RowStays, RowEdited
  <2>5. PICK j : j = Files!Idle
    OBVIOUS
  <2>6. job' = [job EXCEPT ![t] = j] /\ j.call = "none"
    BY <2>1, <2>5 DEF Files!Done, Files!Idle
  <2>7. PaperJobFollows(j)'
    BY <2>6 DEF PaperJobFollows
  <2> QED
    BY <1>9, <2>1, <2>3, <2>4, <2>6, <2>7
<1> QED
  BY <1>2, <1>10, <1>11, <1>12, <1>13, <1>14, <1>15, <1>16

PaperInv == PaperTypes /\ InsertsApart /\ (Quiet => FollowInv)

LEMMA PaperInit ==
  ASSUME Files!DocumentConstants, Files!Start, Begin
  PROVE  PaperInv
<1>1. /\ document = [d \in DocumentKeys |-> Nil] /\ stored = [k \in FileKeys |-> Nil]
      /\ job = [t \in Threads |-> Files!Idle]
  BY DEF Files!Start, Begin, Idle, Files!Idle
<1>2. \A t \in Threads : job[t] = Files!Idle /\ job[t].call = "none"
  BY <1>1 DEF Files!Idle
<1>3. Files!Live = {}
  BY <1>1, PaperNulls DEF Files!Live
<1>4. PaperTypes
  <2>1. Files!TypeOK
    BY <1>1 DEF Files!TypeOK
  <2>2. \A t \in Threads : PaperJobFits(job[t])
    BY <1>2 DEF PaperJobFits, Files!Idle
  <2> QED
    BY <1>1, <1>2, <2>1, <2>2 DEF PaperTypes
<1>5. FollowInv
  BY <1>1, <1>2, <1>3 DEF FollowInv, PaperJobFollows
<1> QED
  BY <1>2, <1>4, <1>5 DEF PaperInv, InsertsApart

LEMMA PaperInvStep ==
  ASSUME Files!DocumentConstants, PaperInv, clients \in Clients, clients.area = "files",
         [Files!Next]_Files!vars, UNCHANGED clients
  PROVE  PaperInv'
<1>1. Quiet' <=> Quiet
  BY DEF Quiet, Files!OneAtATime
<1>2. CASE Files!Next
  BY <1>1, <1>2, PaperTypesStep, InsertsApartStep, FollowStep DEF PaperInv
<1>3. CASE UNCHANGED Files!vars
  <2>1. UNCHANGED <<document, stored, job>>
    BY <1>3 DEF Files!vars
  <2>2. PaperTypes'
    BY <2>1 DEF PaperInv, PaperTypes, Files!TypeOK, PaperJobFits
  <2>3. InsertsApart'
    BY <2>1 DEF PaperInv, InsertsApart
  <2>4. Quiet => FollowInv'
    BY <2>1 DEF PaperInv, FollowInv, PaperJobFollows, FileOfRow, RowOfFile, Removing, Files!Live
  <2> QED
    BY <1>1, <2>2, <2>3, <2>4 DEF PaperInv
<1> QED
  BY <1>2, <1>3

LEMMA PaperKept ==
  ASSUME Files!DocumentConstants, PaperInv
  PROVE  Files!TypeOK /\ Files!FilesFollowRows
<1>1. ASSUME Quiet, Files!AllIdle
      PROVE  /\ \A d \in Files!Live : stored[document[d].file_key] = d
             /\ \A k \in FileKeys : stored[k] # Nil => stored[k] \in Files!Live
  <2>1. \A t \in Threads : job[t].call = "none"
    BY <1>1 DEF Files!AllIdle, Files!Idle
  <2> QED
    BY <1>1, <2>1 DEF PaperInv, FollowInv, Removing, FileOfRow, RowOfFile
<1> QED
  BY <1>1 DEF Files!FilesFollowRows, Quiet, PaperInv, PaperTypes

BulkIsWhole ==
  \A t \in Threads :
    Files!At(t, "bulk") /\ job'[t] = Files!Idle
    => document' = document \/ \A d \in job[t].key : document'[d] = Deleted

LEMMA BulkIsWholeStep ==
  ASSUME Files!DocumentConstants, PaperInv, clients \in Clients, clients.area = "files",
         [Files!Next]_Files!vars
  PROVE  BulkIsWhole
<1> SUFFICES ASSUME NEW t \in Threads, Files!At(t, "bulk"), job'[t] = Files!Idle, document' # document
             PROVE  \A d \in job[t].key : document'[d] = Deleted
  BY DEF BulkIsWhole
<1>1. PICK D : D = job[t].key
  OBVIOUS
<1>2. job'[t] # job[t] /\ D \subseteq DocumentKeys
  <2>1. job[t].call = "bulk" /\ job'[t].call = "none" /\ PaperJobFits(job[t])
    BY DEF Files!At, Files!Idle, PaperInv, PaperTypes
  <2>2. D \subseteq DocumentKeys
    BY <1>1, <2>1 DEF PaperJobFits
  <2> QED
    BY <2>1, <2>2
<1>3. ASSUME NEW u \in Threads, Files!Done(u) PROVE u = t
  BY <1>2, <1>3 DEF Files!Done, PaperInv, PaperTypes
<1>4. PICK u \in Threads :
        \/ Files!Insert(u) \/ Files!DeleteRow(u) \/ Files!BulkDeleteRows(u) \/ Files!SaveArchived(u)
        \/ Files!SaveVisibility(u) \/ Files!BulkArchive(u)
  BY DEF Files!Next, Files!vars, Files!SaveFile, Files!Load, Files!DeleteFile, Files!LoadBulk,
     Files!BulkDeleteFile, Files!BulkRollBack, Files!LoadChange, Files!LoadBulkArchive, Files!Crash
<1>5. u = t
  BY <1>3, <1>4 DEF Files!Insert, Files!DeleteRow, Files!BulkDeleteRows, Files!SaveArchived,
     Files!SaveVisibility, Files!BulkArchive
<1>6. Files!BulkDeleteRows(t)
  BY <1>4, <1>5 DEF Files!Insert, Files!DeleteRow, Files!SaveArchived, Files!SaveVisibility,
     Files!BulkArchive, Files!At
<1> QED
  BY <1>1, <1>2, <1>6 DEF Files!BulkDeleteRows

ArchiveHolds ==
  \A d \in Files!Live :
    document[d].archived /\ document'[d] \in Files!Rows /\ ~document'[d].archived
    => \E t \in Threads : Files!At(t, "unarchive") /\ job[t].key = d

LEMMA ArchiveHoldsStep ==
  ASSUME Files!DocumentConstants, PaperInv, clients \in Clients, clients.area = "files",
         [Files!Next]_Files!vars
  PROVE  ArchiveHolds
<1> SUFFICES ASSUME NEW d \in Files!Live, document[d].archived, document'[d] \in Files!Rows,
                    ~document'[d].archived
             PROVE  \E t \in Threads : Files!At(t, "unarchive") /\ job[t].key = d
  BY DEF ArchiveHolds
<1>1. d \in DocumentKeys /\ document[d] # Nil /\ document'[d] # Deleted /\ document'[d] # document[d]
  BY PaperNulls DEF Files!Live
<1>2. Files!Next
  BY <1>1 DEF Files!vars
<1>3. \A t \in Threads : ~RowInserted(d, t) /\ ~RowDeleted(d, t)
  BY <1>1 DEF RowInserted, RowDeleted, Files!At, PaperInv, InsertsApart
<1>4. RowEdited(d)
  BY <1>1, <1>2, <1>3, RowStep DEF RowStays, PaperInv
<1> QED
  BY <1>4 DEF RowEdited

LEMMA ArchiveElsewhere ==
  ASSUME UNCHANGED document
  PROVE  BulkIsWhole /\ ArchiveHolds
BY DEF BulkIsWhole, ArchiveHolds

-----------------------------------------------------------------------------
(* DocumentTemplates.  What a call holds between its statements is a row   *)
(* and a list of fields; the proofs follow both.                           *)

Questions == [key : FieldKeys, is_required : BOOLEAN]
Lists == Seq(Questions)

WriteJobFits(j) ==
  /\ j.call \in {"none", "fields", "save", "drop", "assistant", "clone", "prefetch"}
  /\ j = [call |-> j.call, key |-> j.key, row |-> j.row]
  /\ j.call = "none" => j = Writing!Idle
  /\ j.call # "none" => j.key \in TemplateKeys
  /\ j.call \in {"fields", "drop"} => j.row \in Lists
  /\ j.call \in {"save", "assistant"} =>
       j.row.row \in Writing!Rows /\ (j.row.fields # Nil => j.row.fields \in Lists)
  /\ j.call = "clone" => j.row \in TemplateKeys
  /\ j.call = "prefetch" => j.row.content \subseteq FieldKeys /\ j.row.filled \subseteq j.row.given

WriteTables ==
  /\ template \in [TemplateKeys -> Writing!Rows \cup {Nil}]
  /\ field \in [TemplateKeys -> [FieldKeys -> Writing!Requirements]]
  /\ generated \subseteq FieldKeys

WriteTypes ==
  /\ WriteTables
  /\ job = [t \in Threads |-> job[t]]
  /\ \A t \in Threads : WriteJobFits(job[t]) /\ (job[t].call # "none" => t \in clients.threads)

LEMMA WriteNulls ==
  ASSUME Writing!TemplateConstants
  PROVE  Nil \notin Writing!Rows /\ IsFiniteSet(FieldKeys)
<1>1. Writing!IsFiniteSet(FieldKeys) <=> IsFiniteSet(FieldKeys)
  BY DEF Writing!IsFiniteSet, IsFiniteSet
<1> QED
  BY <1>1 DEF Writing!TemplateConstants

LEMMA PapersFit ==
  ASSUME Writing!TemplateConstants, clients \in Clients, clients.area = "templates",
         NEW p \in clients.papers
  PROVE  p.content \subseteq FieldKeys /\ p.fields # Nil /\ p.fields \in Lists
BY DEF Writing!TemplateConstants, Lists, Questions

LEMMA LiveRows ==
  ASSUME WriteTables, NEW i \in TemplateKeys, Writing!Live(i)
  PROVE  template[i] \in Writing!Rows /\ template[i] # Nil /\ template[i].is_active
BY DEF WriteTables, Writing!Live

LEMMA NewRows ==
  ASSUME Writing!TemplateConstants, clients \in Clients, clients.area = "templates",
         NEW n \in TemplateNames, NEW p \in clients.papers, NEW v \in Writing!Visibilities,
         NEW u \in clients.users
  PROVE  /\ Writing!NewRow(n, p, v, u) \in Writing!Rows
         /\ Writing!NewRow(n, p, v, u).name = n /\ Writing!NewRow(n, p, v, u).content = p.content
BY PapersFit DEF Writing!NewRow, Writing!Rows, Writing!TemplateConstants

LEMMA ChangedRows ==
  ASSUME Writing!TemplateConstants, clients \in Clients, clients.area = "templates",
         NEW row \in Writing!Rows,
         NEW n \in TemplateNames \cup {Nil}, NEW p \in clients.papers, NEW v \in Writing!Visibilities
  PROVE  /\ Writing!Changed(row, n, p, v) \in Writing!Rows
         /\ Writing!Changed(row, n, p, v).name = IF n = Nil THEN row.name ELSE n
         /\ Writing!Changed(row, n, p, v).content = p.content
         /\ Writing!Changed(row, n, p, v).is_active = row.is_active
BY PapersFit DEF Writing!Changed, Writing!Rows

LEMMA WrittenFits ==
  ASSUME NEW fields \in Lists
  PROVE  Writing!Written(fields) \in [FieldKeys -> Writing!Requirements]
BY DEF Writing!Written, Writing!Asked, Writing!Requirements

\* A set in some order, without repetition.
LEMMA OrderedOnce ==
  ASSUME NEW S \in SUBSET FieldKeys, IsFiniteSet(FieldKeys),
         NEW s \in [1..Cardinality(S) -> S], Writing!Range(s) = S
  PROVE  /\ Cardinality(S) \in Nat /\ s \in Seq(S)
         /\ \A i, j \in 1..Cardinality(S) : i # j => s[i] # s[j]
<1>1. IsFiniteSet(S)
  BY FS_Subset
<1>2. Cardinality(S) \in Nat
  BY <1>1, FS_CardinalityType
<1>3. IsFiniteSet(1..Cardinality(S)) /\ Cardinality(1..Cardinality(S)) = Cardinality(S)
  BY <1>2, FS_Interval
<1>4. s \in Surjection(1..Cardinality(S), S)
  BY DEF Surjection, Writing!Range
<1>5. s \in Injection(1..Cardinality(S), S)
  BY <1>3, <1>4, FS_SurjSameCardinalityImpliesInj
<1> QED
  BY <1>2, <1>5 DEF Injection, IsInjective

\* The questions a clone asks: those of its source.
CloneAsks(fields, source) ==
  /\ fields \in Lists
  /\ \A n \in DOMAIN fields :
       /\ source[fields[n].key] # "none"
       /\ fields[n].is_required <=> source[fields[n].key] = "required"
  /\ \A k \in FieldKeys : source[k] # "none" => \E n \in DOMAIN fields : fields[n].key = k
  /\ ~Writing!Clashing(fields)

LEMMA ClonedFields ==
  ASSUME Writing!TemplateConstants, NEW source \in [FieldKeys -> Writing!Requirements],
         NEW S, S = {k \in FieldKeys : source[k] # "none"},
         NEW s \in {f \in [1..Cardinality(S) -> S] : Writing!Range(f) = S}
  PROVE  CloneAsks([n \in DOMAIN s |-> [key |-> s[n], is_required |-> source[s[n]] = "required"]], source)
<1>0. S \in SUBSET FieldKeys /\ s \in [1..Cardinality(S) -> S] /\ Writing!Range(s) = S
  OBVIOUS
<1>1. /\ Cardinality(S) \in Nat /\ s \in [1..Cardinality(S) -> S]
      /\ \A i, j \in 1..Cardinality(S) : i # j => s[i] # s[j]
  BY <1>0, OrderedOnce, WriteNulls
<1>2. PICK N : N = Cardinality(S)
  OBVIOUS
<1>3. N \in Nat /\ s \in [1..N -> S] /\ \A i, j \in 1..N : i # j => s[i] # s[j]
  BY <1>1, <1>2
<1>4. PICK fields : fields = [n \in 1..N |-> [key |-> s[n], is_required |-> source[s[n]] = "required"]]
  OBVIOUS
<1>5. ASSUME NEW n \in 1..N
      PROVE  /\ fields[n] \in Questions /\ fields[n].key = s[n]
             /\ fields[n].is_required <=> source[s[n]] = "required"
  <2>1. PICK b \in BOOLEAN : b <=> source[s[n]] = "required"
    OBVIOUS
  <2>2. b = (source[s[n]] = "required")
    BY <2>1
  <2>3. fields[n] = [key |-> s[n], is_required |-> source[s[n]] = "required"]
    BY <1>4
  <2>4. fields[n] = [key |-> s[n], is_required |-> b]
    BY <2>2, <2>3, Zenon
  <2>5. s[n] \in FieldKeys
    BY <1>3
  <2> QED
    BY <2>1, <2>4, <2>5 DEF Questions
<1>6. \A n \in 1..N : fields[n] \in Questions
  BY <1>5
<1>7. fields \in [1..N -> Questions]
  BY <1>4, <1>6
<1>8. fields \in Lists /\ DOMAIN fields = 1..N
  BY <1>3, <1>7 DEF Lists
<1>9. ASSUME NEW n \in DOMAIN fields
      PROVE  /\ fields[n].key = s[n] /\ source[fields[n].key] # "none"
             /\ fields[n].is_required <=> source[fields[n].key] = "required"
  <2>1. n \in 1..N /\ s[n] \in S
    BY <1>3, <1>8
  <2> QED
    BY <1>5, <2>1
<1>10. \A k \in FieldKeys : source[k] # "none" => \E n \in DOMAIN fields : fields[n].key = k
  <2> SUFFICES ASSUME NEW k \in S PROVE \E n \in 1..N : fields[n].key = k
    BY <1>8
  <2>1. PICK n \in 1..N : s[n] = k
    BY <1>3 DEF Writing!Range
  <2> QED
    BY <1>5, <2>1
<1>11. ~Writing!Clashing(fields)
  BY <1>3, <1>8, <1>9 DEF Writing!Clashing
<1>12. fields = [n \in DOMAIN s |-> [key |-> s[n], is_required |-> source[s[n]] = "required"]]
  BY <1>3, <1>4
<1> QED
  BY <1>8, <1>9, <1>10, <1>11, <1>12, Zenon DEF CloneAsks

LEMMA WriteCardinality ==
  ASSUME NEW S
  PROVE  Writing!Cardinality(S) = Cardinality(S)
BY DEF Writing!Cardinality, Cardinality

LEMMA CloneTakes ==
  ASSUME Writing!TemplateConstants, WriteTypes, NEW t \in Threads, Writing!CloneFields(t)
  PROVE  \E fields : /\ Writing!Take(t, "fields", job[t].key, fields)
                     /\ CloneAsks(fields, field[job[t].row])
<1>1. PICK source, S : source = field[job[t].row] /\ S = {k \in FieldKeys : source[k] # "none"}
  OBVIOUS
<1>2. job[t].call = "clone" /\ WriteJobFits(job[t])
  BY DEF Writing!CloneFields, Writing!At, WriteTypes
<1>3. source \in [FieldKeys -> Writing!Requirements]
  BY <1>1, <1>2, SMTT(30) DEF WriteTypes, WriteTables, WriteJobFits
<1>4. PICK s \in {f \in [1..Cardinality(S) -> S] : Writing!Range(f) = S} :
        Writing!Take(t, "fields", job[t].key,
                     [n \in DOMAIN s |-> [key |-> s[n], is_required |-> source[s[n]] = "required"]])
  BY <1>1, WriteCardinality, Zenon DEF Writing!CloneFields
<1>5. CloneAsks([n \in DOMAIN s |-> [key |-> s[n], is_required |-> source[s[n]] = "required"]], source)
  BY <1>1, <1>3, <1>4, ClonedFields, Zenon
<1> QED
  BY <1>1, <1>4, <1>5, Zenon

\* What every action is, of the rows and of the thread's job.
WriteMove(t, j) ==
  /\ t \in clients.threads /\ job' = [job EXCEPT ![t] = j] /\ WriteJobFits(j)
  /\ template' \in [TemplateKeys -> Writing!Rows \cup {Nil}]
  /\ field' \in [TemplateKeys -> [FieldKeys -> Writing!Requirements]]
  /\ generated' \subseteq FieldKeys

LEMMA WriteMoves ==
  ASSUME Writing!TemplateConstants, clients \in Clients, clients.area = "templates",
         WriteTypes, Writing!Next
  PROVE  \E t \in Threads : \E j : WriteMove(t, j)
<1>1. /\ template \in [TemplateKeys -> Writing!Rows \cup {Nil}]
      /\ field \in [TemplateKeys -> [FieldKeys -> Writing!Requirements]] /\ generated \subseteq FieldKeys
      /\ job = [t \in Threads |-> job[t]]
      /\ \A t \in Threads : WriteJobFits(job[t]) /\ (job[t].call # "none" => t \in clients.threads)
  BY DEF WriteTypes, WriteTables
<1>2. UNCHANGED template => template' \in [TemplateKeys -> Writing!Rows \cup {Nil}]
  BY <1>1
<1>3. UNCHANGED field => field' \in [TemplateKeys -> [FieldKeys -> Writing!Requirements]]
  BY <1>1
<1>4. UNCHANGED generated => generated' \subseteq FieldKeys
  BY <1>1
<1>5. ASSUME NEW i \in TemplateKeys, NEW row \in Writing!Rows, template' = [template EXCEPT ![i] = row]
      PROVE  template' \in [TemplateKeys -> Writing!Rows \cup {Nil}]
  BY <1>1, <1>5
<1>6. ASSUME NEW i \in TemplateKeys, NEW g \in [FieldKeys -> Writing!Requirements],
             field' = [field EXCEPT ![i] = g]
      PROVE  field' \in [TemplateKeys -> [FieldKeys -> Writing!Requirements]]
  BY <1>1, <1>6
<1>7. ASSUME NEW t \in Threads, Writing!Done(t)
      PROVE  \E j : j = Writing!Idle /\ job' = [job EXCEPT ![t] = j] /\ WriteJobFits(j)
  <2>1. PICK j : j = Writing!Idle
    OBVIOUS
  <2>2. WriteJobFits(j)
    BY <2>1 DEF WriteJobFits, Writing!Idle
  <2> QED
    BY <1>7, <2>1, <2>2 DEF Writing!Done
<1>8. ASSUME NEW t \in Threads, UNCHANGED job
      PROVE  \E j : j = job[t] /\ job' = [job EXCEPT ![t] = j] /\ WriteJobFits(j)
  <2>1. PICK j : j = job[t]
    OBVIOUS
  <2>2. job' = [job EXCEPT ![t] = j]
    BY <1>1, <1>8, <2>1
  <2> QED
    BY <1>1, <2>1, <2>2
<1>9. ASSUME NEW t \in Threads, NEW c, NEW i, NEW row, Writing!Take(t, c, i, row)
      PROVE  \E j : j = [call |-> c, key |-> i, row |-> row] /\ job' = [job EXCEPT ![t] = j]
  BY <1>9 DEF Writing!Take
<1>10. ASSUME NEW t \in Threads, NEW c, Writing!Free(t, c)
       PROVE  job[t].call = "none" /\ t \in clients.threads
  BY <1>10 DEF Writing!Free, Writing!Idle
<1>11. ASSUME NEW i \in TemplateKeys, NEW fields \in Lists,
              NEW j, j = [call |-> "fields", key |-> i, row |-> fields] \/ j = [call |-> "drop", key |-> i, row |-> fields]
       PROVE  WriteJobFits(j)
  BY <1>11 DEF WriteJobFits
<1>12. ASSUME NEW t \in Threads, Writing!Create(t) PROVE \E j : WriteMove(t, j)
  <2>1. PICK i \in TemplateKeys, n \in TemplateNames, p \in clients.papers, v \in Writing!Visibilities,
             u \in clients.users :
          /\ template' = [template EXCEPT ![i] = Writing!NewRow(n, p, v, u)]
          /\ Writing!Take(t, "fields", i, p.fields)
    BY <1>12 DEF Writing!Create
  <2>2. template' \in [TemplateKeys -> Writing!Rows \cup {Nil}]
    BY <1>5, <2>1, NewRows
  <2>3. PICK j : j = [call |-> "fields", key |-> i, row |-> p.fields] /\ job' = [job EXCEPT ![t] = j]
    BY <1>9, <2>1
  <2>4. WriteJobFits(j)
    BY <1>11, <2>1, <2>3, PapersFit
  <2> QED
    BY <1>3, <1>4, <1>10, <1>12, <2>2, <2>3, <2>4 DEF Writing!Create, WriteMove
<1>13. ASSUME NEW t \in Threads, Writing!AssistantCreate(t) PROVE \E j : WriteMove(t, j)
  <2>1. PICK i \in TemplateKeys, n \in TemplateNames, p \in clients.papers, v \in Writing!Visibilities,
             u \in clients.users :
          /\ template[i] = Nil /\ ~Writing!Taken(n, i) /\ ~Writing!Clashing(p.fields)
          /\ template' = [template EXCEPT ![i] = Writing!NewRow(n, p, v, u)]
          /\ field' = [field EXCEPT ![i] = Writing!Written(p.fields)]
    BY <1>13, Zenon DEF Writing!AssistantCreate
  <2>2. template' \in [TemplateKeys -> Writing!Rows \cup {Nil}]
    BY <1>5, <2>1, NewRows
  <2>3. field' \in [TemplateKeys -> [FieldKeys -> Writing!Requirements]]
    BY <1>6, <2>1, PapersFit, WrittenFits
  <2> QED
    BY <1>4, <1>8, <1>10, <1>13, <2>2, <2>3 DEF Writing!AssistantCreate, WriteMove
<1>14. ASSUME NEW t \in Threads, NEW c, Writing!Load(t, c), t \in clients.threads,
              UNCHANGED <<template, field, generated>>
       PROVE  \E j : WriteMove(t, j)
  <2>1. PICK i \in TemplateKeys, n \in TemplateNames \cup {Nil}, p \in clients.papers,
             v \in Writing!Visibilities :
          /\ Writing!Live(i)
          /\ \E fields \in {p.fields, Nil} :
               Writing!Take(t, "save", i,
                            [row |-> Writing!Changed(template[i], n, p, v), fields |-> fields])
    BY <1>14 DEF Writing!Load
  <2>0. PICK fields \in {p.fields, Nil} :
          Writing!Take(t, "save", i,
                       [row |-> Writing!Changed(template[i], n, p, v), fields |-> fields])
    BY <2>1
  <2>2. PICK changed : changed = Writing!Changed(template[i], n, p, v)
    OBVIOUS
  <2>3. changed \in Writing!Rows /\ (fields # Nil => fields \in Lists)
    BY <2>0, <2>1, <2>2, LiveRows, ChangedRows, PapersFit DEF WriteTypes
  <2>4. PICK j : j = [call |-> "save", key |-> i, row |-> [row |-> changed, fields |-> fields]]
                 /\ job' = [job EXCEPT ![t] = j]
    BY <1>9, <2>0, <2>2
  <2>5. WriteJobFits(j)
    BY <2>3, <2>4 DEF WriteJobFits
  <2> QED
    BY <1>2, <1>3, <1>4, <1>14, <2>4, <2>5 DEF WriteMove
<1>15. ASSUME NEW t \in Threads, Writing!LoadPut(t) \/ Writing!LoadPatch(t) PROVE \E j : WriteMove(t, j)
  BY <1>10, <1>14, <1>15 DEF Writing!LoadPut, Writing!LoadPatch
<1>16. ASSUME NEW t \in Threads, Writing!LoadAssistantUpdate(t) PROVE \E j : WriteMove(t, j)
  <2>1. PICK i \in TemplateKeys, n \in TemplateNames \cup {Nil}, p \in clients.papers,
             v \in Writing!Visibilities, c \in {"assistant_update", "assistant_edit"} :
          /\ Writing!Live(i) /\ Writing!Free(t, c)
          /\ Writing!Take(t, "assistant", i,
                          [row |-> Writing!Changed(template[i], n, p, v),
                           fields |-> IF c = "assistant_update" THEN p.fields ELSE Nil])
    BY <1>16 DEF Writing!LoadAssistantUpdate
  <2>2. PICK changed, fields : /\ changed = Writing!Changed(template[i], n, p, v)
                               /\ fields = IF c = "assistant_update" THEN p.fields ELSE Nil
    OBVIOUS
  <2>3. changed \in Writing!Rows /\ (fields # Nil => fields \in Lists)
    BY <2>1, <2>2, LiveRows, ChangedRows, PapersFit DEF WriteTypes
  <2>4. PICK j : j = [call |-> "assistant", key |-> i, row |-> [row |-> changed, fields |-> fields]]
                 /\ job' = [job EXCEPT ![t] = j]
    BY <1>9, <2>1, <2>2
  <2>5. WriteJobFits(j)
    BY <2>3, <2>4 DEF WriteJobFits
  <2> QED
    BY <1>2, <1>3, <1>4, <1>10, <1>16, <2>1, <2>4, <2>5 DEF WriteMove, Writing!LoadAssistantUpdate
<1>17. ASSUME NEW t \in Threads, Writing!Save(t) PROVE \E j : WriteMove(t, j)
  <2>1. PICK i, h : i = job[t].key /\ h = job[t].row
    OBVIOUS
  <2>2. /\ i \in TemplateKeys /\ h.row \in Writing!Rows /\ (h.fields # Nil => h.fields \in Lists)
        /\ t \in clients.threads
    BY <1>1, <1>17, <2>1 DEF Writing!Save, Writing!At, WriteJobFits
  <2>3. template' \in [TemplateKeys -> Writing!Rows \cup {Nil}]
    BY <1>5, <1>17, <2>1, <2>2 DEF Writing!Save
  <2>4. \E j : job' = [job EXCEPT ![t] = j] /\ WriteJobFits(j)
    <3>1. CASE h.fields = Nil
      BY <1>7, <1>17, <2>1, <3>1 DEF Writing!Save
    <3>2. CASE h.fields # Nil
      <4>1. Writing!Take(t, "drop", i, h.fields)
        BY <1>17, <2>1, <3>2 DEF Writing!Save
      <4> QED
        BY <1>9, <1>11, <2>2, <3>2, <4>1
    <3> QED
      BY <3>1, <3>2
  <2> QED
    BY <1>3, <1>4, <1>17, <2>2, <2>3, <2>4 DEF Writing!Save, WriteMove
<1>18. ASSUME NEW t \in Threads, Writing!AssistantUpdate(t) PROVE \E j : WriteMove(t, j)
  <2>1. PICK i, h : i = job[t].key /\ h = job[t].row
    OBVIOUS
  <2>2. /\ i \in TemplateKeys /\ h.row \in Writing!Rows /\ (h.fields # Nil => h.fields \in Lists)
        /\ t \in clients.threads
    BY <1>1, <1>18, <2>1 DEF Writing!AssistantUpdate, Writing!At, WriteJobFits
  <2>3. template' \in [TemplateKeys -> Writing!Rows \cup {Nil}]
    <3>1. UNCHANGED template \/ template' = [template EXCEPT ![i] = h.row]
      BY <1>18, <2>1 DEF Writing!AssistantUpdate
    <3> QED
      BY <1>2, <1>5, <2>2, <3>1
  <2>4. field' \in [TemplateKeys -> [FieldKeys -> Writing!Requirements]]
    <3>1. \/ UNCHANGED field
          \/ field' = [field EXCEPT ![i] = IF h.fields = Nil THEN @ ELSE Writing!Written(h.fields)]
      BY <1>18, <2>1 DEF Writing!AssistantUpdate
    <3>2. field' = [field EXCEPT ![i] = IF h.fields = Nil THEN @ ELSE Writing!Written(h.fields)]
          => field' = [field EXCEPT ![i] = IF h.fields = Nil THEN field[i] ELSE Writing!Written(h.fields)]
      OBVIOUS
    <3>3. (IF h.fields = Nil THEN field[i] ELSE Writing!Written(h.fields))
            \in [FieldKeys -> Writing!Requirements]
      BY <1>1, <2>2, WrittenFits
    <3> QED
      BY <1>3, <1>6, <2>2, <3>1, <3>2, <3>3
  <2> QED
    BY <1>4, <1>7, <1>18, <2>2, <2>3, <2>4 DEF Writing!AssistantUpdate, WriteMove
<1>19. ASSUME NEW t \in Threads, Writing!Delete(t) PROVE \E j : WriteMove(t, j)
  <2>1. PICK i \in TemplateKeys : Writing!Live(i) /\ template' = [template EXCEPT ![i].is_active = FALSE]
    BY <1>19 DEF Writing!Delete
  <2>2. PICK row : row = [template[i] EXCEPT !.is_active = FALSE]
    OBVIOUS
  <2>3. row \in Writing!Rows /\ template' = [template EXCEPT ![i] = row]
    <3>1. template[i] \in Writing!Rows
      BY <2>1, LiveRows DEF WriteTypes
    <3>2. row \in Writing!Rows
      BY <2>2, <3>1 DEF Writing!Rows
    <3> QED
      BY <2>1, <2>2, <3>2
  <2>4. template' \in [TemplateKeys -> Writing!Rows \cup {Nil}]
    BY <1>5, <2>3
  <2> QED
    BY <1>3, <1>4, <1>8, <1>10, <1>19, <2>4 DEF Writing!Delete, WriteMove
<1>20. ASSUME NEW t \in Threads, Writing!Duplicate(t) PROVE \E j : WriteMove(t, j)
  <2>1. PICK i \in TemplateKeys, d \in TemplateKeys, u \in clients.users :
          /\ Writing!Live(i) /\ Writing!Take(t, "clone", d, i)
          /\ template' = [template EXCEPT ![d] =
               [template[i] EXCEPT !.name = CopyName, !.visibility = "private", !.created_by = u]]
    BY <1>20, Zenon DEF Writing!Duplicate
  <2>2. PICK row :
          row = [template[i] EXCEPT !.name = CopyName, !.visibility = "private", !.created_by = u]
    OBVIOUS
  <2>3. row \in Writing!Rows
    <3>1. template[i] \in Writing!Rows /\ u \in Writing!Users
      BY <2>1, LiveRows DEF WriteTypes, Writing!TemplateConstants
    <3> QED
      BY <2>2, <3>1 DEF Writing!Rows, Writing!Visibilities
  <2>4. template' \in [TemplateKeys -> Writing!Rows \cup {Nil}]
    BY <1>5, <2>1, <2>2, <2>3
  <2>5. PICK j : j = [call |-> "clone", key |-> d, row |-> i] /\ job' = [job EXCEPT ![t] = j]
    BY <1>9, <2>1
  <2>6. WriteJobFits(j)
    BY <2>5, SMTT(30) DEF WriteJobFits
  <2> QED
    BY <1>3, <1>4, <1>10, <1>20, <2>4, <2>5, <2>6 DEF Writing!Duplicate, WriteMove
<1>21. ASSUME NEW t \in Threads, Writing!CloneFields(t) PROVE \E j : WriteMove(t, j)
  <2>1. PICK fields \in Lists : Writing!Take(t, "fields", job[t].key, fields)
    BY <1>21, CloneTakes DEF CloneAsks
  <2>2. job[t].key \in TemplateKeys /\ t \in clients.threads
    BY <1>1, <1>21 DEF Writing!CloneFields, Writing!At, WriteJobFits
  <2>3. \E j : job' = [job EXCEPT ![t] = j] /\ WriteJobFits(j)
    BY <1>9, <1>11, <2>1, <2>2
  <2> QED
    BY <1>2, <1>3, <1>4, <1>21, <2>2, <2>3 DEF Writing!CloneFields, WriteMove
<1>22. ASSUME NEW t \in Threads, Writing!DropFields(t) PROVE \E j : WriteMove(t, j)
  <2>1. job[t].key \in TemplateKeys /\ job[t].row \in Lists /\ t \in clients.threads
    BY <1>1, <1>22 DEF Writing!DropFields, Writing!At, WriteJobFits
  <2>2. \E j : job' = [job EXCEPT ![t] = j] /\ WriteJobFits(j)
    <3>1. Writing!Take(t, "fields", job[t].key, job[t].row)
      BY <1>22 DEF Writing!DropFields
    <3> QED
      BY <1>9, <1>11, <2>1, <3>1
  <2>3. Writing!NoFields \in [FieldKeys -> Writing!Requirements]
    BY DEF Writing!NoFields, Writing!Requirements
  <2>4. field' \in [TemplateKeys -> [FieldKeys -> Writing!Requirements]]
    BY <1>6, <1>22, <2>1, <2>3 DEF Writing!DropFields
  <2> QED
    BY <1>2, <1>4, <1>22, <2>1, <2>2, <2>4 DEF Writing!DropFields, WriteMove
<1>23. ASSUME NEW t \in Threads, Writing!AddField(t) PROVE \E j : WriteMove(t, j)
  <2>1. PICK i, fields, f : i = job[t].key /\ fields = job[t].row /\ f = Head(fields)
    OBVIOUS
  <2>2. i \in TemplateKeys /\ fields \in Lists /\ fields # <<>> /\ t \in clients.threads
    BY <1>1, <1>23, <2>1 DEF Writing!AddField, Writing!At, WriteJobFits
  <2>3. f \in Questions /\ Tail(fields) \in Lists
    BY <2>1, <2>2 DEF Lists
  <2>4. CASE field[i][f.key] = "none"
    <3>1. field' = [field EXCEPT ![i][f.key] = Writing!Asked(f)] /\ Writing!Take(t, "fields", i, Tail(fields))
      BY <1>23, <2>1, <2>4 DEF Writing!AddField
    <3>2. PICK g : g = [field[i] EXCEPT ![f.key] = Writing!Asked(f)]
      OBVIOUS
    <3>3. g \in [FieldKeys -> Writing!Requirements]
      BY <1>1, <2>2, <2>3, <3>2 DEF Questions, Writing!Asked, Writing!Requirements
    <3>4. field' = [field EXCEPT ![i] = g]
      BY <3>1, <3>2
    <3>5. field' \in [TemplateKeys -> [FieldKeys -> Writing!Requirements]]
      BY <1>6, <2>2, <3>3, <3>4
    <3>6. \E j : job' = [job EXCEPT ![t] = j] /\ WriteJobFits(j)
      BY <1>9, <1>11, <2>2, <2>3, <3>1
    <3> QED
      BY <1>2, <1>4, <1>23, <2>2, <3>5, <3>6 DEF Writing!AddField, WriteMove
  <2>5. CASE field[i][f.key] # "none"
    <3>1. UNCHANGED field /\ Writing!Done(t)
      BY <1>23, <2>1, <2>5 DEF Writing!AddField
    <3> QED
      BY <1>2, <1>3, <1>4, <1>7, <1>23, <2>2, <3>1 DEF Writing!AddField, WriteMove
  <2> QED
    BY <2>4, <2>5
<1>24. ASSUME NEW t \in Threads, Writing!Use(t) PROVE \E j : WriteMove(t, j)
  <2>1. PICK i \in TemplateKeys, given \in SUBSET FieldKeys, filled \in SUBSET FieldKeys :
          /\ Writing!Live(i) /\ filled \subseteq given
          /\ Writing!Take(t, "prefetch", i, [content |-> template[i].content, given |-> given,
                                             filled |-> filled])
    BY <1>24 DEF Writing!Use
  <2>2. PICK content : content = template[i].content
    OBVIOUS
  <2>3. content \subseteq FieldKeys
    BY <2>1, <2>2, LiveRows DEF WriteTypes, Writing!Rows
  <2>4. PICK j : j = [call |-> "prefetch", key |-> i,
                      row |-> [content |-> content, given |-> given, filled |-> filled]]
                 /\ job' = [job EXCEPT ![t] = j]
    BY <1>9, <2>1, <2>2
  <2>5. WriteJobFits(j)
    <3>1. /\ j.call = "prefetch" /\ j.key = i /\ j.row.content = content
          /\ j.row.given = given /\ j.row.filled = filled
          /\ j = [call |-> j.call, key |-> j.key, row |-> j.row]
      BY <2>4
    <3> QED
      BY <2>1, <2>3, <3>1 DEF WriteJobFits
  <2> QED
    BY <1>2, <1>3, <1>4, <1>10, <1>24, <2>4, <2>5 DEF Writing!Use, WriteMove
<1>25. ASSUME NEW t \in Threads, Writing!Generate(t) PROVE \E j : WriteMove(t, j)
  <2>1. job[t].row.content \subseteq FieldKeys /\ t \in clients.threads
    BY <1>1, <1>25 DEF Writing!Generate, Writing!At, WriteJobFits
  <2>2. generated' \subseteq FieldKeys
    BY <1>1, <1>25, <2>1 DEF Writing!Generate
  <2> QED
    BY <1>2, <1>3, <1>7, <1>25, <2>1, <2>2 DEF Writing!Generate, WriteMove
<1>26. ASSUME NEW t \in Threads, Writing!Answer(t) \/ Writing!Crash(t) PROVE \E j : WriteMove(t, j)
  <2>1. job[t].call # "none" /\ Writing!Done(t)
    BY <1>1, <1>26 DEF Writing!Answer, Writing!Crash, Writing!At, WriteJobFits
  <2>2. t \in clients.threads
    BY <1>1, <2>1
  <2> QED
    BY <1>2, <1>3, <1>4, <1>7, <1>26, <2>1, <2>2 DEF Writing!Answer, Writing!Crash, WriteMove
<1> QED
  BY <1>12, <1>13, <1>15, <1>16, <1>17, <1>18, <1>19, <1>20, <1>21, <1>22, <1>23, <1>24, <1>25, <1>26
     DEF Writing!Next

LEMMA WriteTypesStep ==
  ASSUME Writing!TemplateConstants, clients \in Clients, clients.area = "templates",
         WriteTypes, Writing!Next, UNCHANGED clients
  PROVE  WriteTypes'
<1>1. PICK t, j : t \in Threads /\ WriteMove(t, j)
  BY WriteMoves
<1>2. WriteJobFits(j) => WriteJobFits(j)'
  BY DEF WriteJobFits
<1>3. WriteTables'
  BY <1>1 DEF WriteMove, WriteTables
<1>4. ASSUME NEW u \in Threads PROVE WriteJobFits(job[u])' /\ (job'[u].call # "none" => u \in clients'.threads)
  <2>1. PICK i : i = job'[u]
    OBVIOUS
  <2>2. i = IF u = t THEN j ELSE job[u]
    BY <1>1, <2>1 DEF WriteTypes, WriteMove
  <2>3. WriteJobFits(i) /\ (i.call # "none" => u \in clients.threads)
    BY <1>1, <2>2 DEF WriteTypes, WriteMove
  <2> QED
    BY <2>1, <2>3 DEF WriteJobFits
<1>5. job' = [u \in Threads |-> job'[u]]
  BY <1>1 DEF WriteTypes, WriteMove
<1> QED
  BY <1>3, <1>4, <1>5 DEF WriteTypes

WriteActs(t) ==
  \/ Writing!Create(t) \/ Writing!AssistantCreate(t) \/ Writing!LoadPut(t) \/ Writing!LoadPatch(t)
  \/ Writing!Save(t) \/ Writing!LoadAssistantUpdate(t) \/ Writing!AssistantUpdate(t)
  \/ Writing!Delete(t) \/ Writing!Duplicate(t) \/ Writing!CloneFields(t) \/ Writing!DropFields(t)
  \/ Writing!AddField(t) \/ Writing!Answer(t) \/ Writing!Use(t) \/ Writing!Generate(t)
  \/ Writing!Crash(t)

\* One call at a time: whoever acts is alone.
LEMMA WriteAlone ==
  ASSUME WriteTypes, Writing!Next, Writing!OneAtATime
  PROVE  \E t \in Threads : WriteActs(t) /\ \A u \in Threads : u # t => job[u].call = "none"
<1>1. ASSUME NEW t \in Threads, NEW c, Writing!Free(t, c) PROVE t \in clients.threads
  BY <1>1 DEF Writing!Free
<1>2. ASSUME NEW t \in Threads, job[t].call # "none" PROVE t \in clients.threads
  BY <1>2 DEF WriteTypes
<1>3. ASSUME NEW t \in Threads, WriteActs(t) PROVE t \in clients.threads
  <2>1. CASE \/ Writing!Create(t) \/ Writing!AssistantCreate(t) \/ Writing!LoadPut(t)
             \/ Writing!LoadPatch(t) \/ Writing!LoadAssistantUpdate(t) \/ Writing!Delete(t)
             \/ Writing!Duplicate(t) \/ Writing!Use(t)
    BY <1>1, <2>1, ZenonT(30) DEF Writing!Create, Writing!AssistantCreate, Writing!LoadPut,
       Writing!LoadPatch, Writing!LoadAssistantUpdate, Writing!Delete, Writing!Duplicate, Writing!Use
  <2>2. CASE \/ Writing!Save(t) \/ Writing!AssistantUpdate(t) \/ Writing!CloneFields(t)
             \/ Writing!DropFields(t) \/ Writing!AddField(t) \/ Writing!Answer(t)
             \/ Writing!Generate(t)
    BY <1>2, <2>2 DEF Writing!Save, Writing!AssistantUpdate, Writing!CloneFields, Writing!DropFields,
       Writing!AddField, Writing!Answer, Writing!Generate, Writing!At
  <2>3. CASE Writing!Crash(t)
    <3>1. job[t].call # "none"
      BY <2>3 DEF Writing!Crash, WriteTypes, WriteJobFits
    <3> QED
      BY <1>2, <3>1
  <2> QED
    BY <1>3, <2>1, <2>2, <2>3 DEF WriteActs
<1>4. PICK t \in Threads : WriteActs(t)
  BY DEF Writing!Next, WriteActs
<1>5. ASSUME NEW u \in Threads, u # t PROVE job[u].call = "none"
  BY <1>2, <1>3, <1>4, <1>5 DEF Writing!OneAtATime
<1> QED
  BY <1>4, <1>5

LEMMA WriteTakes ==
  ASSUME NEW t \in Threads, NEW c, NEW i, NEW row, Writing!Take(t, c, i, row)
  PROVE  \E j : j = [call |-> c, key |-> i, row |-> row] /\ job' = [job EXCEPT ![t] = j]
BY DEF Writing!Take

LEMMA WriteDone ==
  ASSUME NEW t \in Threads, Writing!Done(t)
  PROVE  \E j : j.call = "none" /\ job' = [job EXCEPT ![t] = j]
<1>1. PICK j : j = Writing!Idle
  OBVIOUS
<1>2. job' = [job EXCEPT ![t] = j] /\ j.call = "none"
  BY <1>1 DEF Writing!Done, Writing!Idle
<1> QED
  BY <1>2

LEMMA WriteStays ==
  ASSUME WriteTypes, NEW t \in Threads, NEW c, Writing!Free(t, c), UNCHANGED job
  PROVE  \E j : j.call = "none" /\ job' = [job EXCEPT ![t] = j]
<1>1. PICK j : j = job[t]
  OBVIOUS
<1>2. job' = [job EXCEPT ![t] = j] /\ j.call = "none"
  BY <1>1 DEF WriteTypes, Writing!Free, Writing!Idle
<1> QED
  BY <1>2

\* The statements that write no row, but AssistantUpdate's that a second field of a key undoes.
RowsUntouched(t) ==
  \/ Writing!CloneFields(t) \/ Writing!DropFields(t) \/ Writing!AddField(t) \/ Writing!Answer(t)
  \/ Writing!Use(t) \/ Writing!Generate(t) \/ Writing!Crash(t)

LEMMA UntouchedJobs ==
  ASSUME Writing!TemplateConstants, WriteTypes, NEW t \in Threads, RowsUntouched(t)
  PROVE  /\ UNCHANGED template
         /\ \E j : j.call \notin {"save", "assistant"} /\ job' = [job EXCEPT ![t] = j]
<1>1. ASSUME NEW c, NEW i, NEW row, Writing!Take(t, c, i, row), c \notin {"save", "assistant"}
      PROVE  \E j : j.call \notin {"save", "assistant"} /\ job' = [job EXCEPT ![t] = j]
  <2>1. PICK j : j = [call |-> c, key |-> i, row |-> row] /\ job' = [job EXCEPT ![t] = j]
    BY <1>1, WriteTakes
  <2> QED
    BY <1>1, <2>1
<1>2. Writing!Done(t) => \E j : j.call \notin {"save", "assistant"} /\ job' = [job EXCEPT ![t] = j]
  <2> SUFFICES ASSUME Writing!Done(t)
               PROVE  \E j : j.call \notin {"save", "assistant"} /\ job' = [job EXCEPT ![t] = j]
    OBVIOUS
  <2>1. PICK j : j.call = "none" /\ job' = [job EXCEPT ![t] = j]
    BY WriteDone
  <2> QED
    BY <2>1
<1>3. CASE Writing!CloneFields(t)
  BY <1>1, <1>3, CloneTakes, SMTT(30) DEF Writing!CloneFields
<1>4. CASE Writing!DropFields(t)
  BY <1>1, <1>4 DEF Writing!DropFields
<1>5. CASE Writing!AddField(t)
  BY <1>1, <1>2, <1>5 DEF Writing!AddField
<1>6. CASE Writing!Use(t)
  BY <1>1, <1>6 DEF Writing!Use
<1>7. CASE Writing!Answer(t) \/ Writing!Generate(t) \/ Writing!Crash(t)
  BY <1>2, <1>7 DEF Writing!Answer, Writing!Generate, Writing!Crash
<1> QED
  BY <1>3, <1>4, <1>5, <1>6, <1>7 DEF RowsUntouched

\* Names.  Between a validation and its save nobody else has taken the name.
NamesApart ==
  \A i, j \in TemplateKeys :
    i # j /\ Writing!Live(i) /\ Writing!Live(j) => template[i].name # template[j].name
NameIsFree(i, n) == \A m \in TemplateKeys \ {i} : Writing!Live(m) => template[m].name # n
NewNameIsFree(j) ==
  j.call \in {"save", "assistant"} =>
    Writing!Live(j.key) /\ j.row.row.is_active /\ NameIsFree(j.key, j.row.row.name)
NameInv == NamesApart /\ \A t \in Threads : NewNameIsFree(job[t])

\* What a save leaves: one row is written, and nobody has its name.
LEMMA OneRowWritten ==
  ASSUME WriteTables, NamesApart, NEW i \in TemplateKeys, NEW row, row # Nil,
         template' = [template EXCEPT ![i] = row], row.is_active => NameIsFree(i, row.name)
  PROVE  NamesApart'
<1>1. template'[i] = row /\ \A j \in TemplateKeys : j # i => template'[j] = template[j]
  BY DEF WriteTables
<1> QED
  BY <1>1 DEF NamesApart, NameIsFree, Writing!Live

LEMMA NameStep ==
  ASSUME Writing!TemplateConstants, clients \in Clients, clients.area = "templates",
         WriteTypes, Writing!Next, Writing!OneAtATime, "duplicate" \notin clients.calls, NameInv
  PROVE  NameInv'
<1>1. PICK t \in Threads : WriteActs(t) /\ \A u \in Threads : u # t => job[u].call = "none"
  BY WriteAlone
<1>2. ASSUME NEW j, job' = [job EXCEPT ![t] = j], NamesApart', NewNameIsFree(j)' PROVE NameInv'
  <2>1. ASSUME NEW u \in Threads PROVE NewNameIsFree(job[u])'
    <3>1. job'[u] = IF u = t THEN j ELSE job[u]
      BY <1>2 DEF WriteTypes
    <3>2. CASE u = t
      BY <1>2, <3>1, <3>2
    <3>3. CASE u # t
      BY <1>1, <3>1, <3>3 DEF NewNameIsFree
    <3> QED
      BY <3>2, <3>3
  <2> QED
    BY <1>2, <2>1 DEF NameInv
<1>3. ASSUME NEW j, job' = [job EXCEPT ![t] = j], NamesApart', j.call \notin {"save", "assistant"}
      PROVE  NameInv'
  BY <1>2, <1>3 DEF NewNameIsFree
<1>4. UNCHANGED template => NamesApart'
  BY DEF NameInv, NamesApart, Writing!Live
<1>5. CASE RowsUntouched(t)
  BY <1>3, <1>4, <1>5, UntouchedJobs
<1>6. WriteTables /\ NamesApart
  BY DEF WriteTypes, NameInv
<1>7. CASE Writing!Create(t) \/ Writing!AssistantCreate(t)
  <2>1. PICK i \in TemplateKeys, n \in TemplateNames, p \in clients.papers, v \in Writing!Visibilities,
             u \in clients.users :
          /\ ~Writing!Taken(n, i)
          /\ template' = [template EXCEPT ![i] = Writing!NewRow(n, p, v, u)]
    BY <1>7 DEF Writing!Create, Writing!AssistantCreate
  <2>2. PICK row : row = Writing!NewRow(n, p, v, u)
    OBVIOUS
  <2>3. row \in Writing!Rows /\ row.name = n
    BY <2>2, NewRows
  <2>4. NameIsFree(i, n)
    BY <2>1 DEF Writing!Taken, NameIsFree
  <2>5. NamesApart'
    BY <1>6, <2>1, <2>2, <2>3, <2>4, OneRowWritten, WriteNulls
  <2>6. \E j : job' = [job EXCEPT ![t] = j] /\ j.call \notin {"save", "assistant"}
    <3>1. CASE Writing!Create(t)
      <4>1. PICK d, fields : Writing!Take(t, "fields", d, fields)
        BY <3>1 DEF Writing!Create
      <4>2. PICK j : j = [call |-> "fields", key |-> d, row |-> fields] /\ job' = [job EXCEPT ![t] = j]
        BY <4>1, WriteTakes
      <4>3. j.call \notin {"save", "assistant"}
        BY <4>2
      <4> QED
        BY <4>2, <4>3
    <3>2. CASE Writing!AssistantCreate(t)
      <4>1. PICK j : j.call = "none" /\ job' = [job EXCEPT ![t] = j]
        BY <3>2, WriteStays DEF Writing!AssistantCreate
      <4> QED
        BY <4>1
    <3> QED
      BY <1>7, <3>1, <3>2
  <2> QED
    BY <1>3, <2>5, <2>6
<1>8. ASSUME NEW c \in {"save", "assistant"}, NEW i \in TemplateKeys, NEW n \in TemplateNames \cup {Nil},
             NEW p \in clients.papers, NEW v \in Writing!Visibilities, NEW fields,
             Writing!Live(i), n # Nil => ~Writing!Taken(n, i), UNCHANGED template,
             Writing!Take(t, c, i, [row |-> Writing!Changed(template[i], n, p, v), fields |-> fields])
      PROVE  NameInv'
  <2>1. PICK changed : changed = Writing!Changed(template[i], n, p, v)
    OBVIOUS
  <2>2. template[i] \in Writing!Rows /\ template[i].is_active
    BY <1>6, <1>8, LiveRows
  <2>3. changed.is_active /\ changed.name = IF n = Nil THEN template[i].name ELSE n
    BY <2>1, <2>2, ChangedRows
  <2>4. NameIsFree(i, changed.name)
    BY <1>6, <1>8, <2>3 DEF NameIsFree, NamesApart, Writing!Taken
  <2>5. PICK j : j = [call |-> c, key |-> i, row |-> [row |-> changed, fields |-> fields]]
                 /\ job' = [job EXCEPT ![t] = j]
    BY <1>8, <2>1, WriteTakes
  <2>6. j.key = i /\ j.row.row = changed
    BY <2>5
  <2>7. NewNameIsFree(j)
    BY <1>8, <2>3, <2>4, <2>6 DEF NewNameIsFree
  <2>8. NewNameIsFree(j)'
    BY <1>8, <2>7 DEF NewNameIsFree, NameIsFree, Writing!Live
  <2> QED
    BY <1>2, <1>4, <1>8, <2>5, <2>8
<1>9. ASSUME NEW c, Writing!Load(t, c), UNCHANGED template PROVE NameInv'
  <2>1. PICK i \in TemplateKeys, n \in TemplateNames \cup {Nil}, p \in clients.papers,
             v \in Writing!Visibilities :
          /\ Writing!Live(i) /\ (n # Nil => ~Writing!Taken(n, i))
          /\ \E fields \in {p.fields, Nil} :
               Writing!Take(t, "save", i,
                            [row |-> Writing!Changed(template[i], n, p, v), fields |-> fields])
    BY <1>9 DEF Writing!Load
  <2> QED
    BY <1>8, <1>9, <2>1
<1>10. CASE Writing!LoadPut(t) \/ Writing!LoadPatch(t)
  BY <1>9, <1>10 DEF Writing!LoadPut, Writing!LoadPatch
<1>11. CASE Writing!LoadAssistantUpdate(t)
  <2>1. PICK i \in TemplateKeys, n \in TemplateNames \cup {Nil}, p \in clients.papers,
             v \in Writing!Visibilities, c \in {"assistant_update", "assistant_edit"} :
          /\ Writing!Live(i) /\ (n # Nil => ~Writing!Taken(n, i))
          /\ Writing!Take(t, "assistant", i,
                          [row |-> Writing!Changed(template[i], n, p, v),
                           fields |-> IF c = "assistant_update" THEN p.fields ELSE Nil])
    BY <1>11 DEF Writing!LoadAssistantUpdate
  <2> QED
    BY <1>8, <1>11, <2>1 DEF Writing!LoadAssistantUpdate
<1>12. CASE Writing!Save(t) \/ Writing!AssistantUpdate(t)
  <2>1. PICK i, h : i = job[t].key /\ h = job[t].row
    OBVIOUS
  <2>2. /\ i \in TemplateKeys /\ h.row \in Writing!Rows /\ NameIsFree(i, h.row.name)
    <3>1. job[t].call \in {"save", "assistant"}
      BY <1>12 DEF Writing!Save, Writing!AssistantUpdate, Writing!At
    <3> QED
      BY <2>1, <3>1 DEF WriteTypes, WriteJobFits, NameInv, NewNameIsFree
  <2>3. UNCHANGED template \/ template' = [template EXCEPT ![i] = h.row]
    BY <1>12, <2>1 DEF Writing!Save, Writing!AssistantUpdate
  <2>4. NamesApart'
    BY <1>4, <1>6, <2>2, <2>3, OneRowWritten, WriteNulls
  <2>5. \E j : job' = [job EXCEPT ![t] = j] /\ j.call \notin {"save", "assistant"}
    <3>1. CASE Writing!Take(t, "drop", i, h.fields)
      <4>1. PICK j : j = [call |-> "drop", key |-> i, row |-> h.fields] /\ job' = [job EXCEPT ![t] = j]
        BY <3>1, WriteTakes
      <4>2. j.call \notin {"save", "assistant"}
        BY <4>1
      <4> QED
        BY <4>1, <4>2
    <3>2. CASE Writing!Done(t)
      <4>1. PICK j : j.call = "none" /\ job' = [job EXCEPT ![t] = j]
        BY <3>2, WriteDone
      <4> QED
        BY <4>1
    <3> QED
      BY <1>12, <2>1, <3>1, <3>2 DEF Writing!Save, Writing!AssistantUpdate
  <2> QED
    BY <1>3, <2>4, <2>5
<1>13. CASE Writing!Delete(t)
  <2>1. PICK i \in TemplateKeys : Writing!Live(i) /\ template' = [template EXCEPT ![i].is_active = FALSE]
    BY <1>13 DEF Writing!Delete
  <2>2. PICK row : row = [template[i] EXCEPT !.is_active = FALSE]
    OBVIOUS
  <2>3. row \in Writing!Rows /\ template' = [template EXCEPT ![i] = row] /\ ~row.is_active
    <3>1. template[i] \in Writing!Rows
      BY <1>6, <2>1, LiveRows
    <3>2. row \in Writing!Rows /\ ~row.is_active
      BY <2>2, <3>1 DEF Writing!Rows
    <3> QED
      BY <2>1, <2>2, <3>2
  <2>4. NamesApart'
    BY <1>6, <2>3, OneRowWritten, WriteNulls
  <2>5. PICK j : j.call = "none" /\ job' = [job EXCEPT ![t] = j]
    BY <1>13, WriteStays DEF Writing!Delete
  <2> QED
    BY <1>3, <2>4, <2>5
<1>14. ~Writing!Duplicate(t)
  BY Zenon DEF Writing!Duplicate, Writing!Free
<1> QED
  BY <1>1, <1>5, <1>7, <1>10, <1>11, <1>12, <1>13, <1>14 DEF WriteActs, RowsUntouched

\* Placeholders.  The keys a list of fields requires, and those a template does.
RequiredIn(fields) == {fields[n].key : n \in {m \in DOMAIN fields : fields[m].is_required}}
RequiredOf(i) == {k \in FieldKeys : field[i][k] = "required"}

Careful == clients.faults = {} /\ \A p \in clients.papers : ~Writing!Clashing(p.fields)
Thorough ==
  /\ Writing!OneAtATime /\ {"patch", "assistant_edit"} \cap clients.calls = {}
  /\ \A p \in clients.papers : p.content \subseteq RequiredIn(p.fields)
  /\ {"create", "put", "duplicate"} \cap clients.calls = {} \/ Careful

\* What a call has left to write covers the content of its row.
JobCloses(j) ==
  /\ j.call \in {"save", "drop", "fields", "clone"} => Careful
  /\ j.call \in {"save", "assistant"} =>
       j.row.fields # Nil /\ j.row.row.content \subseteq RequiredIn(j.row.fields)
  /\ j.call = "save" => ~Writing!Clashing(j.row.fields)
  /\ j.call \in {"drop", "fields"} => ~Writing!Clashing(j.row) /\ template[j.key] # Nil
  /\ j.call = "drop" => template[j.key].content \subseteq RequiredIn(j.row)
  /\ j.call = "fields" =>
       /\ template[j.key].content \subseteq RequiredOf(j.key) \cup RequiredIn(j.row)
       /\ \A n \in DOMAIN j.row : field[j.key][j.row[n].key] = "none"
  /\ j.call = "clone" =>
       /\ template[j.key] # Nil /\ template[j.key].content \subseteq RequiredOf(j.row)
       /\ field[j.key] = Writing!NoFields
  /\ j.call = "prefetch" => j.row.content \subseteq RequiredOf(j.key)

Writes(j, i) == j.call \in {"drop", "fields", "clone"} /\ j.key = i
Closed(i) == template[i].content \subseteq RequiredOf(i)

CloseInv ==
  /\ generated = {}
  /\ \A i \in TemplateKeys : template[i] = Nil => field[i] = Writing!NoFields
  /\ \A i \in TemplateKeys : template[i] # Nil => Closed(i) \/ \E t \in Threads : Writes(job[t], i)
  /\ \A t \in Threads : JobCloses(job[t])

ClosedBy(j) ==
  /\ generated = {}
  /\ \A i \in TemplateKeys : template[i] = Nil => field[i] = Writing!NoFields
  /\ \A i \in TemplateKeys : template[i] # Nil => Closed(i) \/ Writes(j, i)
  /\ JobCloses(j)

LEMMA RequiredTells ==
  ASSUME NEW fields
  PROVE  {f.key : f \in {g \in Writing!Range(fields) : g.is_required}} = RequiredIn(fields)
BY DEF Writing!Range, RequiredIn

LEMMA RequiredKeys ==
  ASSUME NEW fields \in Lists
  PROVE  /\ RequiredIn(fields) \subseteq FieldKeys
         /\ \A n \in DOMAIN fields : fields[n].key \in FieldKeys /\ fields[n].is_required \in BOOLEAN
<1>1. \A n \in DOMAIN fields : fields[n] \in Questions
  BY DEF Lists
<1> QED
  BY <1>1 DEF RequiredIn, Questions

LEMMA WrittenAsks ==
  ASSUME NEW fields \in Lists, ~Writing!Clashing(fields)
  PROVE  \A k \in RequiredIn(fields) : k \in FieldKeys /\ Writing!Written(fields)[k] = "required"
<1> SUFFICES ASSUME NEW n \in DOMAIN fields, fields[n].is_required
             PROVE  fields[n].key \in FieldKeys /\ Writing!Written(fields)[fields[n].key] = "required"
  BY DEF RequiredIn
<1>1. PICK k : k = fields[n].key
  OBVIOUS
<1>2. k \in FieldKeys
  BY <1>1, RequiredKeys
<1>3. PICK f : f = CHOOSE g \in Writing!Range(fields) : g.key = k
  OBVIOUS
<1>4. f \in Writing!Range(fields) /\ f.key = k
  <2>1. \E g \in Writing!Range(fields) : g.key = k
    BY <1>1 DEF Writing!Range
  <2> QED
    BY <1>3, <2>1
<1>5. PICK m \in DOMAIN fields : f = fields[m]
  BY <1>4 DEF Writing!Range
<1>6. f = fields[n]
  BY <1>1, <1>4, <1>5 DEF Writing!Clashing
<1>7. Writing!Written(fields)[k] = Writing!Asked(f)
  BY <1>1, <1>2, <1>3 DEF Writing!Written
<1> QED
  BY <1>1, <1>2, <1>6, <1>7 DEF Writing!Asked

LEMMA ClosedAlone ==
  ASSUME NEW t \in Threads, \A u \in Threads : u # t => job[u].call = "none"
  PROVE  CloseInv <=> ClosedBy(job[t])
<1>1. \A u \in Threads : u # t => JobCloses(job[u]) /\ \A i : ~Writes(job[u], i)
  BY DEF JobCloses, Writes
<1>2. \A i : (\E u \in Threads : Writes(job[u], i)) <=> Writes(job[t], i)
  BY <1>1
<1>3. (\A u \in Threads : JobCloses(job[u])) <=> JobCloses(job[t])
  BY <1>1
<1> QED
  BY <1>2, <1>3 DEF CloseInv, ClosedBy

\* Whatever a thorough call has left to write, it has under way.
LEMMA CloseStep ==
  ASSUME Writing!TemplateConstants, clients \in Clients, clients.area = "templates",
         WriteTypes, Writing!Next, UNCHANGED clients, Thorough, CloseInv
  PROVE  CloseInv'
<1>1. PICK t \in Threads : WriteActs(t) /\ \A u \in Threads : u # t => job[u].call = "none"
  BY WriteAlone DEF Thorough
<1>2. PICK old : old = job[t]
  OBVIOUS
<1>3. ClosedBy(old) /\ WriteJobFits(old) /\ WriteTables
  BY <1>1, <1>2, ClosedAlone DEF WriteTypes
<1>4. ASSUME NEW j, job' = [job EXCEPT ![t] = j], ClosedBy(j)' PROVE CloseInv'
  <2>1. \A u \in Threads : job'[u] = IF u = t THEN j ELSE job[u]
    BY <1>4 DEF WriteTypes
  <2>2. job'[t] = j /\ \A u \in Threads : u # t => job'[u].call = "none"
    BY <1>1, <2>1
  <2>3. \A u \in Threads : u # t => JobCloses(job[u])'
    BY <2>2 DEF JobCloses
  <2>4. \A u \in Threads : JobCloses(job[u])'
    BY <1>4, <2>2, <2>3 DEF ClosedBy
  <2>5. \A i \in TemplateKeys : template'[i] # Nil => Closed(i)' \/ \E u \in Threads : Writes(job'[u], i)
    BY <1>4, <2>2 DEF ClosedBy, Writes
  <2> QED
    BY <1>4, <2>4, <2>5 DEF ClosedBy, CloseInv, Writes
<1>5. Careful' <=> Careful
  BY DEF Careful
<1>6. /\ template \in [TemplateKeys -> Writing!Rows \cup {Nil}]
      /\ field \in [TemplateKeys -> [FieldKeys -> Writing!Requirements]] /\ generated = {}
  BY <1>3 DEF WriteTables, ClosedBy
\* One template is written, and the next job has it if it is not closed.
<1>7. ASSUME NEW i \in TemplateKeys, generated' = {},
             \A m \in TemplateKeys : m # i => template'[m] = template[m] /\ field'[m] = field[m],
             \A m \in TemplateKeys : Writes(old, m) => m = i,
             template'[i] # Nil, NEW j, job' = [job EXCEPT ![t] = j], JobCloses(j)',
             Closed(i)' \/ Writes(j, i)
      PROVE  CloseInv'
  <2>1. ASSUME NEW m \in TemplateKeys, m # i
        PROVE  /\ template'[m] = Nil => field'[m] = Writing!NoFields
               /\ template'[m] # Nil => Closed(m)'
    BY <1>3, <1>7, <2>1 DEF ClosedBy, Closed, RequiredOf
  <2>2. ClosedBy(j)'
    BY <1>7, <2>1 DEF ClosedBy, Writes
  <2> QED
    BY <1>4, <1>7, <2>2
\* Nothing is written, and nobody was writing.
<1>8. ASSUME UNCHANGED <<template, field>>, generated' = {}, \A m \in TemplateKeys : ~Writes(old, m),
             NEW j, job' = [job EXCEPT ![t] = j], JobCloses(j)'
      PROVE  CloseInv'
  <2>1. ClosedBy(j)'
    BY <1>3, <1>8 DEF ClosedBy, Closed, RequiredOf
  <2> QED
    BY <1>4, <1>8, <2>1
<1>9. ASSUME NEW j, j.call = "none" PROVE JobCloses(j)'
  BY <1>9 DEF JobCloses
<1>10. ASSUME NEW c, Writing!Free(t, c)
       PROVE  /\ old.call = "none" /\ c \in clients.calls /\ \A m : ~Writes(old, m)
              /\ \A m \in TemplateKeys : template[m] # Nil => Closed(m)
  <2>1. old.call = "none" /\ c \in clients.calls
    BY <1>2, <1>10 DEF Writing!Free, Writing!Idle
  <2> QED
    BY <1>3, <2>1 DEF Writes, ClosedBy
<1>11. \A c \in {"create", "put", "duplicate"} : Writing!Free(t, c) => Careful
  BY <1>10 DEF Thorough
<1>12. ASSUME NEW p \in clients.papers
       PROVE  /\ p.content \subseteq RequiredIn(p.fields) /\ p.fields \in Lists /\ p.fields # Nil
              /\ Careful => ~Writing!Clashing(p.fields)
  BY PapersFit DEF Thorough, Careful
<1>13. CASE Writing!Create(t)
  <2>1. PICK i \in TemplateKeys, n \in TemplateNames, p \in clients.papers, v \in Writing!Visibilities,
             u \in clients.users :
          /\ template[i] = Nil
          /\ template' = [template EXCEPT ![i] = Writing!NewRow(n, p, v, u)]
          /\ Writing!Take(t, "fields", i, p.fields)
    BY <1>13 DEF Writing!Create
  <2>2. PICK row, fields : row = Writing!NewRow(n, p, v, u) /\ fields = p.fields
    OBVIOUS
  <2>3. row # Nil /\ row.content = p.content
    BY <2>2, NewRows, WriteNulls
  <2>4. PICK j : j = [call |-> "fields", key |-> i, row |-> fields] /\ job' = [job EXCEPT ![t] = j]
    BY <2>1, <2>2, WriteTakes
  <2>5. /\ UNCHANGED <<field, generated>> /\ Writing!Free(t, "create") /\ Careful
        /\ field[i] = Writing!NoFields
    BY <1>3, <1>11, <1>13, <2>1 DEF Writing!Create, ClosedBy
  <2>6. template'[i] = row /\ \A m \in TemplateKeys : m # i => template'[m] = template[m]
    BY <1>6, <2>1, <2>2
  <2>7. \A n1 \in DOMAIN fields : field'[i][fields[n1].key] = "none"
    BY <1>12, <2>2, <2>5, RequiredKeys DEF Writing!NoFields
  <2>8. JobCloses(j)'
    <3>1. j.call = "fields" /\ j.key = i /\ j.row = fields
      BY <2>4
    <3>2. ~Writing!Clashing(fields) /\ template'[i].content \subseteq RequiredIn(fields)
      BY <1>12, <2>2, <2>3, <2>5, <2>6
    <3> QED
      BY <1>5, <2>3, <2>5, <2>6, <2>7, <3>1, <3>2 DEF JobCloses
  <2>9. Writes(j, i)
    BY <2>4 DEF Writes
  <2> QED
    BY <1>6, <1>7, <1>10, <2>3, <2>4, <2>5, <2>6, <2>8, <2>9
<1>14. CASE Writing!AssistantCreate(t)
  <2>1. PICK i \in TemplateKeys, n \in TemplateNames, p \in clients.papers, v \in Writing!Visibilities,
             u \in clients.users :
          /\ template[i] = Nil /\ ~Writing!Taken(n, i) /\ ~Writing!Clashing(p.fields)
          /\ template' = [template EXCEPT ![i] = Writing!NewRow(n, p, v, u)]
          /\ field' = [field EXCEPT ![i] = Writing!Written(p.fields)]
    BY <1>14, Zenon DEF Writing!AssistantCreate
  <2>2. PICK row, fields : row = Writing!NewRow(n, p, v, u) /\ fields = p.fields
    OBVIOUS
  <2>3. row # Nil /\ row.content = p.content
    BY <2>2, NewRows, WriteNulls
  <2>4. /\ template'[i] = row /\ field'[i] = Writing!Written(fields)
        /\ \A m \in TemplateKeys : m # i => template'[m] = template[m] /\ field'[m] = field[m]
    BY <1>6, <2>1, <2>2
  <2>5. Closed(i)'
    <3>1. RequiredIn(fields) \subseteq RequiredOf(i)'
      BY <1>12, <2>1, <2>2, <2>4, WrittenAsks DEF RequiredOf
    <3> QED
      BY <1>12, <2>2, <2>3, <2>4, <3>1 DEF Closed
  <2>6. PICK j : j.call = "none" /\ job' = [job EXCEPT ![t] = j]
    BY <1>14, WriteStays DEF Writing!AssistantCreate
  <2> QED
    BY <1>6, <1>7, <1>9, <1>10, <1>14, <2>3, <2>4, <2>5, <2>6 DEF Writing!AssistantCreate
<1>15. ASSUME NEW c \in {"save", "assistant"}, NEW i \in TemplateKeys, NEW n \in TemplateNames \cup {Nil},
              NEW p \in clients.papers, NEW v \in Writing!Visibilities,
              Writing!Live(i), UNCHANGED <<template, field, generated>>, c = "save" => Careful,
              \A m \in TemplateKeys : ~Writes(old, m),
              Writing!Take(t, c, i, [row |-> Writing!Changed(template[i], n, p, v), fields |-> p.fields])
       PROVE  CloseInv'
  <2>1. PICK changed, fields : changed = Writing!Changed(template[i], n, p, v) /\ fields = p.fields
    OBVIOUS
  <2>2. template[i] \in Writing!Rows
    BY <1>3, <1>15, LiveRows
  <2>3. changed.content = p.content
    BY <2>1, <2>2, ChangedRows
  <2>4. PICK j : j = [call |-> c, key |-> i, row |-> [row |-> changed, fields |-> fields]]
                 /\ job' = [job EXCEPT ![t] = j]
    BY <1>15, <2>1, WriteTakes
  <2>5. j.call = c /\ j.row.row = changed /\ j.row.fields = fields
    BY <2>4
  <2>6. JobCloses(j)'
    BY <1>5, <1>12, <1>15, <2>1, <2>3, <2>5 DEF JobCloses
  <2> QED
    BY <1>6, <1>8, <1>15, <2>4, <2>6
<1>16. CASE Writing!LoadPut(t)
  <2>1. PICK i \in TemplateKeys, n \in TemplateNames \cup {Nil}, p \in clients.papers,
             v \in Writing!Visibilities :
          /\ Writing!Live(i)
          /\ Writing!Take(t, "save", i,
                          [row |-> Writing!Changed(template[i], n, p, v), fields |-> p.fields])
    BY <1>16 DEF Writing!LoadPut, Writing!Load
  <2> QED
    BY <1>10, <1>11, <1>15, <1>16, <2>1 DEF Writing!LoadPut
<1>17. CASE Writing!LoadAssistantUpdate(t)
  <2>1. PICK i \in TemplateKeys, n \in TemplateNames \cup {Nil}, p \in clients.papers,
             v \in Writing!Visibilities, c \in {"assistant_update", "assistant_edit"} :
          /\ Writing!Free(t, c) /\ Writing!Live(i)
          /\ Writing!Take(t, "assistant", i,
                          [row |-> Writing!Changed(template[i], n, p, v),
                           fields |-> IF c = "assistant_update" THEN p.fields ELSE Nil])
    BY <1>17 DEF Writing!LoadAssistantUpdate
  <2>2. c = "assistant_update"
    BY <1>10, <2>1 DEF Thorough
  <2>3. Writing!Take(t, "assistant", i,
                     [row |-> Writing!Changed(template[i], n, p, v), fields |-> p.fields])
    BY <2>1, <2>2
  <2> QED
    BY <1>10, <1>15, <1>17, <2>1, <2>3 DEF Writing!LoadAssistantUpdate
<1>18. CASE Writing!Save(t)
  <2>1. PICK i, h, row, fields : i = old.key /\ h = old.row /\ row = h.row /\ fields = h.fields
    OBVIOUS
  <2>2. /\ i \in TemplateKeys /\ row \in Writing!Rows /\ fields # Nil /\ Careful
        /\ row.content \subseteq RequiredIn(fields) /\ ~Writing!Clashing(fields) /\ old.call = "save"
    BY <1>2, <1>3, <1>18, <2>1 DEF Writing!Save, Writing!At, WriteJobFits, ClosedBy, JobCloses
  <2>3. /\ template' = [template EXCEPT ![i] = row] /\ UNCHANGED <<field, generated>>
        /\ Writing!Take(t, "drop", i, fields)
    BY <1>2, <1>18, <2>1, <2>2 DEF Writing!Save
  <2>4. template'[i] = row /\ \A m \in TemplateKeys : m # i => template'[m] = template[m]
    BY <1>6, <2>2, <2>3
  <2>5. PICK j : j = [call |-> "drop", key |-> i, row |-> fields] /\ job' = [job EXCEPT ![t] = j]
    BY <2>3, WriteTakes
  <2>6. JobCloses(j)'
    <3>1. j.call = "drop" /\ j.key = i /\ j.row = fields
      BY <2>5
    <3> QED
      BY <1>5, <2>2, <2>4, <3>1, WriteNulls DEF JobCloses
  <2>7. Writes(j, i) /\ \A m \in TemplateKeys : ~Writes(old, m)
    BY <2>2, <2>5 DEF Writes
  <2> QED
    BY <1>6, <1>7, <2>2, <2>3, <2>4, <2>5, <2>6, <2>7, WriteNulls
<1>19. CASE Writing!AssistantUpdate(t)
  <2>1. PICK i, h, row, fields : i = old.key /\ h = old.row /\ row = h.row /\ fields = h.fields
    OBVIOUS
  <2>2. /\ i \in TemplateKeys /\ row \in Writing!Rows /\ fields # Nil /\ fields \in Lists
        /\ row.content \subseteq RequiredIn(fields) /\ old.call = "assistant"
    BY <1>2, <1>3, <1>19, <2>1 DEF Writing!AssistantUpdate, Writing!At, WriteJobFits, ClosedBy, JobCloses
  <2>3. \A m \in TemplateKeys : ~Writes(old, m)
    BY <2>2 DEF Writes
  <2>4. PICK j : j.call = "none" /\ job' = [job EXCEPT ![t] = j]
    BY <1>19, WriteDone DEF Writing!AssistantUpdate
  <2>5. UNCHANGED generated
    BY <1>19 DEF Writing!AssistantUpdate
  <2>6. CASE Writing!Clashing(fields)
    <3>1. UNCHANGED <<template, field>>
      BY <1>2, <1>19, <2>1, <2>2, <2>6 DEF Writing!AssistantUpdate
    <3> QED
      BY <1>6, <1>8, <1>9, <2>3, <2>4, <2>5, <3>1
  <2>7. CASE ~Writing!Clashing(fields)
    <3>1. /\ template' = [template EXCEPT ![i] = row]
          /\ field' = [field EXCEPT ![i] = Writing!Written(fields)]
      BY <1>2, <1>19, <2>1, <2>2, <2>7 DEF Writing!AssistantUpdate
    <3>2. /\ template'[i] = row /\ field'[i] = Writing!Written(fields)
          /\ \A m \in TemplateKeys : m # i => template'[m] = template[m] /\ field'[m] = field[m]
      BY <1>6, <2>2, <3>1
    <3>3. RequiredIn(fields) \subseteq RequiredOf(i)'
      BY <2>2, <2>7, <3>2, WrittenAsks DEF RequiredOf
    <3>4. Closed(i)'
      BY <2>2, <3>2, <3>3 DEF Closed
    <3> QED
      BY <1>6, <1>7, <1>9, <2>2, <2>3, <2>4, <2>5, <3>2, <3>4, WriteNulls
  <2> QED
    BY <2>6, <2>7
<1>20. CASE Writing!Delete(t)
  <2>1. PICK i \in TemplateKeys : Writing!Live(i) /\ template' = [template EXCEPT ![i].is_active = FALSE]
    BY <1>20 DEF Writing!Delete
  <2>2. PICK row : row = [template[i] EXCEPT !.is_active = FALSE]
    OBVIOUS
  <2>3. template[i] \in Writing!Rows /\ template[i] # Nil
    BY <1>3, <2>1, LiveRows
  <2>4. row \in Writing!Rows /\ row.content = template[i].content
    BY <2>2, <2>3 DEF Writing!Rows
  <2>5. template'[i] = row /\ \A m \in TemplateKeys : m # i => template'[m] = template[m]
    BY <1>6, <2>1, <2>2
  <2>6. Writing!Free(t, "delete") /\ UNCHANGED <<field, generated>>
    BY <1>20 DEF Writing!Delete
  <2>7. Closed(i)'
    BY <1>10, <2>3, <2>4, <2>5, <2>6 DEF Closed, RequiredOf
  <2>8. PICK j : j.call = "none" /\ job' = [job EXCEPT ![t] = j]
    BY <1>20, WriteStays DEF Writing!Delete
  <2> QED
    BY <1>6, <1>7, <1>9, <1>10, <2>4, <2>5, <2>6, <2>7, <2>8, WriteNulls
<1>21. CASE Writing!Duplicate(t)
  <2>1. PICK i \in TemplateKeys, d \in TemplateKeys, u \in clients.users :
          /\ Writing!Live(i) /\ template[d] = Nil /\ Writing!Take(t, "clone", d, i)
          /\ template' = [template EXCEPT ![d] =
               [template[i] EXCEPT !.name = CopyName, !.visibility = "private", !.created_by = u]]
    BY <1>21, Zenon DEF Writing!Duplicate
  <2>2. PICK row :
          row = [template[i] EXCEPT !.name = CopyName, !.visibility = "private", !.created_by = u]
    OBVIOUS
  <2>3. template[i] \in Writing!Rows /\ template[i] # Nil
    BY <1>3, <2>1, LiveRows
  <2>4. row \in Writing!Rows /\ row.content = template[i].content
    <3>1. u \in Writing!Users
      BY DEF Writing!TemplateConstants
    <3> QED
      BY <2>2, <2>3, <3>1 DEF Writing!Rows, Writing!Visibilities
  <2>5. template'[d] = row /\ \A m \in TemplateKeys : m # d => template'[m] = template[m]
    BY <1>6, <2>1, <2>2
  <2>6. Writing!Free(t, "duplicate") /\ UNCHANGED <<field, generated>>
    BY <1>21 DEF Writing!Duplicate
  <2>7. Careful /\ Closed(i) /\ field[d] = Writing!NoFields
    BY <1>3, <1>10, <1>11, <2>1, <2>3, <2>6 DEF ClosedBy
  <2>8. PICK j : j = [call |-> "clone", key |-> d, row |-> i] /\ job' = [job EXCEPT ![t] = j]
    BY <2>1, WriteTakes
  <2>9. JobCloses(j)'
    <3>1. j.call = "clone" /\ j.key = d /\ j.row = i
      BY <2>8
    <3>2. template'[d] # Nil /\ template'[d].content \subseteq RequiredOf(i)'
      BY <2>4, <2>5, <2>6, <2>7, WriteNulls DEF Closed, RequiredOf
    <3> QED
      BY <1>5, <2>6, <2>7, <3>1, <3>2 DEF JobCloses
  <2>10. Writes(j, d)
    BY <2>8 DEF Writes
  <2> QED
    BY <1>6, <1>7, <1>10, <2>4, <2>5, <2>6, <2>8, <2>9, <2>10, WriteNulls
<1>22. CASE Writing!CloneFields(t)
  <2>1. PICK d, i : d = old.key /\ i = old.row
    OBVIOUS
  <2>2. PICK fields : Writing!Take(t, "fields", d, fields) /\ CloneAsks(fields, field[i])
    BY <1>2, <1>22, <2>1, CloneTakes
  <2>3. /\ old.call = "clone" /\ d \in TemplateKeys /\ i \in TemplateKeys /\ template[d] # Nil
        /\ template[d].content \subseteq RequiredOf(i) /\ field[d] = Writing!NoFields /\ Careful
    BY <1>2, <1>3, <1>22, <2>1, SMTT(30)
       DEF Writing!CloneFields, Writing!At, WriteJobFits, ClosedBy, JobCloses
  <2>4. RequiredOf(i) \subseteq RequiredIn(fields)
    BY <2>2 DEF CloneAsks, RequiredOf, RequiredIn
  <2>5. \A n \in DOMAIN fields : field[d][fields[n].key] = "none"
    BY <2>2, <2>3, RequiredKeys DEF CloneAsks, Writing!NoFields
  <2>6. PICK j : j = [call |-> "fields", key |-> d, row |-> fields] /\ job' = [job EXCEPT ![t] = j]
    BY <2>2, WriteTakes, SMTT(30)
  <2>7. UNCHANGED <<template, field, generated>>
    BY <1>22 DEF Writing!CloneFields
  <2>8. JobCloses(j)'
    <3>1. j.call = "fields" /\ j.key = d /\ j.row = fields
      BY <2>6
    <3> QED
      BY <1>5, <2>2, <2>3, <2>4, <2>5, <2>7, <3>1 DEF JobCloses, CloneAsks
  <2>9. Writes(j, d) /\ \A m \in TemplateKeys : Writes(old, m) => m = d
    BY <2>1, <2>6 DEF Writes
  <2> QED
    BY <1>6, <1>7, <2>3, <2>6, <2>7, <2>8, <2>9
<1>23. CASE Writing!DropFields(t)
  <2>1. PICK i, fields : i = old.key /\ fields = old.row
    OBVIOUS
  <2>2. /\ old.call = "drop" /\ i \in TemplateKeys /\ fields \in Lists /\ template[i] # Nil /\ Careful
        /\ template[i].content \subseteq RequiredIn(fields) /\ ~Writing!Clashing(fields)
    BY <1>2, <1>3, <1>23, <2>1 DEF Writing!DropFields, Writing!At, WriteJobFits, ClosedBy, JobCloses
  <2>3. /\ field' = [field EXCEPT ![i] = Writing!NoFields] /\ UNCHANGED <<template, generated>>
        /\ Writing!Take(t, "fields", i, fields)
    BY <1>2, <1>23, <2>1 DEF Writing!DropFields
  <2>4. field'[i] = Writing!NoFields /\ \A m \in TemplateKeys : m # i => field'[m] = field[m]
    BY <1>6, <2>2, <2>3
  <2>5. \A n \in DOMAIN fields : field'[i][fields[n].key] = "none"
    BY <2>2, <2>4, RequiredKeys DEF Writing!NoFields
  <2>6. PICK j : j = [call |-> "fields", key |-> i, row |-> fields] /\ job' = [job EXCEPT ![t] = j]
    BY <2>3, WriteTakes
  <2>7. JobCloses(j)'
    <3>1. j.call = "fields" /\ j.key = i /\ j.row = fields
      BY <2>6
    <3> QED
      BY <1>5, <2>2, <2>3, <2>5, <3>1 DEF JobCloses
  <2>8. Writes(j, i) /\ \A m \in TemplateKeys : Writes(old, m) => m = i
    BY <2>1, <2>6 DEF Writes
  <2> QED
    BY <1>6, <1>7, <2>2, <2>3, <2>4, <2>6, <2>7, <2>8
<1>24. CASE Writing!AddField(t)
  <2>1. PICK i, fields, f, rest : i = old.key /\ fields = old.row /\ f = Head(fields) /\ rest = Tail(fields)
    OBVIOUS
  <2>2. /\ old.call = "fields" /\ i \in TemplateKeys /\ fields \in Lists /\ fields # <<>>
        /\ template[i] # Nil /\ Careful /\ ~Writing!Clashing(fields)
        /\ template[i].content \subseteq RequiredOf(i) \cup RequiredIn(fields)
        /\ \A n \in DOMAIN fields : field[i][fields[n].key] = "none"
    BY <1>2, <1>3, <1>24, <2>1 DEF Writing!AddField, Writing!At, WriteJobFits, ClosedBy, JobCloses
  <2>3. /\ f = fields[1] /\ 1 \in DOMAIN fields
        /\ \A n \in DOMAIN rest : n + 1 \in DOMAIN fields /\ n + 1 # 1 /\ rest[n] = fields[n + 1]
        /\ \A n \in DOMAIN fields : n # 1 => n - 1 \in DOMAIN rest /\ rest[n - 1] = fields[n]
    BY <2>1, <2>2 DEF Lists
  <2>4. /\ field' = [field EXCEPT ![i][f.key] = Writing!Asked(f)] /\ UNCHANGED <<template, generated>>
        /\ Writing!Take(t, "fields", i, rest)
    BY <1>2, <1>24, <2>1, <2>2, <2>3 DEF Writing!AddField
  <2>5. f.key \in FieldKeys
    BY <2>2, <2>3, RequiredKeys
  <2>6. \A k \in FieldKeys : field'[i][k] = IF k = f.key THEN Writing!Asked(f) ELSE field[i][k]
    BY <1>6, <2>2, <2>4, <2>5
  <2>7. \A m \in TemplateKeys : m # i => field'[m] = field[m]
    BY <1>6, <2>4
  <2>8. ~Writing!Clashing(rest) /\ \A n \in DOMAIN rest : rest[n].key # f.key
    <3>1. \A n \in DOMAIN rest : rest[n].key # f.key
      BY <2>2, <2>3 DEF Writing!Clashing
    <3>2. ASSUME NEW n \in DOMAIN rest, NEW m \in DOMAIN rest, n # m PROVE rest[n].key # rest[m].key
      <4>1. n + 1 # m + 1
        BY <2>1, <2>2, <3>2 DEF Lists
      <4> QED
        BY <2>2, <2>3, <3>2, <4>1 DEF Writing!Clashing
    <3> QED
      BY <3>1, <3>2 DEF Writing!Clashing
  <2>9. \A n \in DOMAIN rest : field'[i][rest[n].key] = "none"
    <3> SUFFICES ASSUME NEW n \in DOMAIN rest PROVE field'[i][rest[n].key] = "none"
      OBVIOUS
    <3>1. PICK k : k = rest[n].key
      OBVIOUS
    <3>2. k \in FieldKeys /\ k # f.key /\ field[i][k] = "none"
      BY <2>2, <2>3, <2>8, <3>1, RequiredKeys
    <3> QED
      BY <2>6, <3>1, <3>2
  <2>10. template'[i].content \subseteq RequiredOf(i)' \cup RequiredIn(rest)
    <3> SUFFICES ASSUME NEW k \in template[i].content PROVE k \in RequiredOf(i)' \/ k \in RequiredIn(rest)
      BY <2>4
    <3>1. CASE k \in RequiredOf(i)
      <4>1. k \in FieldKeys /\ field[i][k] = "required" /\ field[i][f.key] = "none"
        BY <2>2, <2>3, <3>1 DEF RequiredOf
      <4> QED
        BY <2>6, <4>1 DEF RequiredOf
    <3>2. CASE k \in RequiredIn(fields)
      <4>1. PICK n \in DOMAIN fields : fields[n].is_required /\ k = fields[n].key
        BY <3>2 DEF RequiredIn
      <4>2. CASE n = 1
        BY <2>3, <2>5, <2>6, <4>1, <4>2 DEF RequiredOf, Writing!Asked
      <4>3. CASE n # 1
        BY <2>3, <4>1, <4>3 DEF RequiredIn
      <4> QED
        BY <4>2, <4>3
    <3> QED
      BY <2>2, <3>1, <3>2
  <2>11. PICK j : j = [call |-> "fields", key |-> i, row |-> rest] /\ job' = [job EXCEPT ![t] = j]
    BY <2>4, WriteTakes
  <2>12. JobCloses(j)'
    <3>1. j.call = "fields" /\ j.key = i /\ j.row = rest
      BY <2>11
    <3> QED
      BY <1>5, <2>2, <2>4, <2>8, <2>9, <2>10, <3>1 DEF JobCloses
  <2>13. Writes(j, i) /\ \A m \in TemplateKeys : Writes(old, m) => m = i
    BY <2>1, <2>11 DEF Writes
  <2> QED
    BY <1>6, <1>7, <2>2, <2>4, <2>7, <2>11, <2>12, <2>13
<1>25. CASE Writing!Answer(t)
  <2>1. PICK i : i = old.key
    OBVIOUS
  <2>2. /\ old.call = "fields" /\ i \in TemplateKeys /\ template[i] # Nil /\ old.row = <<>>
        /\ template[i].content \subseteq RequiredOf(i) \cup RequiredIn(old.row)
    BY <1>2, <1>3, <1>25, <2>1 DEF Writing!Answer, Writing!At, WriteJobFits, ClosedBy, JobCloses
  <2>3. RequiredIn(old.row) = {}
    BY <2>2 DEF RequiredIn
  <2>4. UNCHANGED <<template, field, generated>>
    BY <1>25 DEF Writing!Answer
  <2>5. Closed(i)'
    BY <2>2, <2>3, <2>4 DEF Closed, RequiredOf
  <2>6. PICK j : j.call = "none" /\ job' = [job EXCEPT ![t] = j]
    BY <1>25, WriteDone DEF Writing!Answer
  <2>7. \A m \in TemplateKeys : Writes(old, m) => m = i
    BY <2>1 DEF Writes
  <2> QED
    BY <1>6, <1>7, <1>9, <2>2, <2>4, <2>5, <2>6, <2>7
<1>26. CASE Writing!Use(t)
  <2>1. PICK i \in TemplateKeys, given \in SUBSET FieldKeys, filled \in SUBSET FieldKeys :
          /\ Writing!Live(i)
          /\ Writing!Take(t, "prefetch", i, [content |-> template[i].content, given |-> given,
                                             filled |-> filled])
    BY <1>26 DEF Writing!Use
  <2>2. PICK content : content = template[i].content
    OBVIOUS
  <2>3. /\ Writing!Free(t, "use") /\ UNCHANGED <<template, field, generated>>
    BY <1>26 DEF Writing!Use
  <2>4. content \subseteq RequiredOf(i)
    BY <1>3, <1>10, <2>1, <2>2, <2>3, LiveRows DEF Closed
  <2>5. PICK j : j = [call |-> "prefetch", key |-> i,
                      row |-> [content |-> content, given |-> given, filled |-> filled]]
                 /\ job' = [job EXCEPT ![t] = j]
    BY <2>1, <2>2, WriteTakes
  <2>6. JobCloses(j)'
    <3>1. j.call = "prefetch" /\ j.key = i /\ j.row.content = content
      BY <2>5
    <3> QED
      BY <2>3, <2>4, <3>1 DEF JobCloses, RequiredOf
  <2> QED
    BY <1>6, <1>8, <1>10, <2>3, <2>5, <2>6
<1>27. CASE Writing!Generate(t)
  <2>1. PICK i, h : i = old.key /\ h = old.row
    OBVIOUS
  <2>2. /\ old.call = "prefetch" /\ h.content \subseteq RequiredOf(i) /\ h.filled \subseteq h.given
        /\ UNCHANGED <<template, field>>
        /\ generated' = IF Writing!Missing(i, h.filled) = {} THEN h.content \ h.given ELSE generated
    BY <1>2, <1>3, <1>27, <2>1 DEF Writing!Generate, Writing!At, WriteJobFits, ClosedBy, JobCloses
  <2>3. generated' = {}
    BY <1>6, <2>2 DEF Writing!Missing, RequiredOf
  <2>4. PICK j : j.call = "none" /\ job' = [job EXCEPT ![t] = j]
    BY <1>27, WriteDone DEF Writing!Generate
  <2>5. \A m \in TemplateKeys : ~Writes(old, m)
    BY <2>2 DEF Writes
  <2> QED
    BY <1>8, <1>9, <2>2, <2>3, <2>4, <2>5
<1>28. CASE Writing!Crash(t)
  <2>1. ~Careful
    BY <1>28 DEF Writing!Crash, Writing!Fault, Careful
  <2>2. \A m \in TemplateKeys : ~Writes(old, m)
    BY <1>3, <2>1 DEF Writes, ClosedBy, JobCloses
  <2>3. PICK j : j.call = "none" /\ job' = [job EXCEPT ![t] = j]
    BY <1>28, WriteDone DEF Writing!Crash
  <2> QED
    BY <1>6, <1>8, <1>9, <1>28, <2>2, <2>3 DEF Writing!Crash
<1>29. ~Writing!LoadPatch(t)
  BY <1>10 DEF Writing!LoadPatch, Thorough
<1> QED
  BY <1>1, <1>13, <1>14, <1>16, <1>17, <1>18, <1>19, <1>20, <1>21, <1>22, <1>23, <1>24, <1>25, <1>26,
     <1>27, <1>28, <1>29 DEF WriteActs

WriteInv ==
  /\ WriteTypes
  /\ Writing!OneAtATime /\ "duplicate" \notin clients.calls => NameInv
  /\ Thorough => CloseInv

LEMMA WriteInit ==
  ASSUME Writing!TemplateConstants, Writing!Start, Begin
  PROVE  WriteInv
<1>1. /\ template = [i \in TemplateKeys |-> Nil] /\ field = [i \in TemplateKeys |-> Writing!NoFields]
      /\ generated = {} /\ job = [t \in Threads |-> Writing!Idle]
  BY DEF Writing!Start, Begin, Idle, Writing!Idle
<1>2. \A t \in Threads : job[t] = Writing!Idle /\ job[t].call = "none"
  BY <1>1 DEF Writing!Idle
<1>3. WriteTypes
  <2>1. WriteTables
    BY <1>1 DEF WriteTables, Writing!NoFields, Writing!Requirements
  <2>2. \A t \in Threads : WriteJobFits(job[t])
    BY <1>2 DEF WriteJobFits, Writing!Idle
  <2> QED
    BY <1>1, <1>2, <2>1, <2>2 DEF WriteTypes
<1>4. NameInv
  BY <1>1, <1>2 DEF NameInv, NamesApart, NewNameIsFree, Writing!Live
<1>5. CloseInv
  <2>1. \A t \in Threads : JobCloses(job[t])
    BY <1>2 DEF JobCloses
  <2> QED
    BY <1>1, <2>1 DEF CloseInv
<1> QED
  BY <1>3, <1>4, <1>5 DEF WriteInv

LEMMA WriteInvStep ==
  ASSUME Writing!TemplateConstants, WriteInv, clients \in Clients, clients.area = "templates",
         [Writing!Next]_Writing!vars, UNCHANGED clients
  PROVE  WriteInv'
<1>1. /\ Writing!OneAtATime' <=> Writing!OneAtATime
      /\ Thorough' <=> Thorough
  BY DEF Writing!OneAtATime, Thorough, Careful
<1>2. CASE Writing!Next
  <2>1. WriteTypes'
    BY <1>2, WriteTypesStep DEF WriteInv
  <2>2. Writing!OneAtATime /\ "duplicate" \notin clients.calls => NameInv'
    BY <1>2, NameStep DEF WriteInv
  <2>3. Thorough => CloseInv'
    BY <1>2, CloseStep DEF WriteInv
  <2> QED
    BY <1>1, <2>1, <2>2, <2>3 DEF WriteInv
<1>3. CASE UNCHANGED Writing!vars
  <2>1. UNCHANGED <<template, field, generated, job>>
    BY <1>3 DEF Writing!vars
  <2>2. WriteTypes'
    BY <2>1 DEF WriteInv, WriteTypes, WriteTables, WriteJobFits
  <2>3. NameInv => NameInv'
    BY <2>1 DEF NameInv, NamesApart, NewNameIsFree, NameIsFree, Writing!Live
  <2>4. CloseInv => CloseInv'
    <3>1. \A j : JobCloses(j) => JobCloses(j)'
      BY <2>1 DEF JobCloses, Careful, RequiredOf
    <3> QED
      BY <2>1, <3>1 DEF CloseInv, Closed, RequiredOf, Writes
  <2> QED
    BY <1>1, <2>2, <2>3, <2>4 DEF WriteInv
<1> QED
  BY <1>2, <1>3

LEMMA WriteKept ==
  ASSUME WriteInv
  PROVE  Writing!TypeOK /\ Writing!OneActiveName /\ Writing!NothingLeftOpen
<1>1. Writing!TypeOK
  BY DEF WriteInv, WriteTypes, WriteTables, Writing!TypeOK
<1>2. Writing!OneActiveName
  BY DEF WriteInv, NameInv, NamesApart, Writing!OneActiveName
<1>3. Writing!NothingLeftOpen
  <2> SUFFICES ASSUME /\ Writing!OneAtATime /\ {"patch", "assistant_edit"} \cap clients.calls = {}
                      /\ \A p \in clients.papers :
                           p.content \subseteq {f.key : f \in {g \in Writing!Range(p.fields) : g.is_required}}
                      /\ \/ {"create", "put", "duplicate"} \cap clients.calls = {}
                         \/ clients.faults = {} /\ \A p \in clients.papers : ~Writing!Clashing(p.fields)
               PROVE  generated = {}
    BY DEF Writing!NothingLeftOpen
  <2>1. \A p \in clients.papers : p.content \subseteq RequiredIn(p.fields)
    BY RequiredTells
  <2>2. Thorough
    BY <2>1 DEF Thorough, Careful
  <2> QED
    BY <2>2 DEF WriteInv, CloseInv
<1> QED
  BY <1>1, <1>2, <1>3

LEMMA WriteElsewhere ==
  ASSUME clients.area # "templates"
  PROVE  Writing!TypeOK /\ Writing!OneActiveName /\ Writing!NothingLeftOpen
BY DEF Writing!TypeOK, Writing!OneActiveName, Writing!NothingLeftOpen

-----------------------------------------------------------------------------
(* Theorems.                                                               *)

\* However calls race, a username is one user's; one call at a time an address is one
\* user's unless somebody registers, and soft_delete_employee_profile, the signals and
\* the updates leave user and profile agreed, wherever they die.  The ways in which the
\* views and tools of assets compute what a user may see agree in every state.
THEOREM AccountsKeepPromises == Spec => []AccountPromises
<1> DEFINE InvS == clients.area = "accounts" => SigningInv /\ (Signing!OneAtATime => SoleInv)
           InvL == clients \in Clients /\ (clients.area = "access" => LookingInv)
<1>1. Init => InvS /\ InvL
  BY SigningInit, SoleInit, LookingInit, ProvedConstants DEF Init, Begin
<1>2. InvS /\ [Next]_vars => InvS'
  <2> SUFFICES ASSUME InvS, [Next]_vars, clients.area = "accounts"
               PROVE  SigningInv' /\ (Signing!OneAtATime => SoleInv)'
    BY ClientsStay
  <2>1. [Signing!Next]_Signing!vars
    BY SigningStep
  <2>2. Signing!OneAtATime' <=> Signing!OneAtATime
    BY ClientsStay DEF Signing!OneAtATime
  <2>3. SigningInv'
    BY <2>1, SigningInvStep, ProvedConstants
  <2>4. Signing!OneAtATime => SoleInv'
    BY <2>1, SoleStep, ProvedConstants
  <2> QED
    BY <2>2, <2>3, <2>4
<1>3. InvL /\ [Next]_vars => InvL'
  BY ClientsStay, LookingStep, LookingInvStep, ProvedConstants
<1>4. InvS /\ InvL => AccountPromises
  <2>1. InvL => (clients.area = "access" =>
                   /\ Looking!TypeOK /\ Looking!ListedAreOpen /\ Looking!AvailabilityAgrees
                   /\ Looking!OfferedIsAccepted /\ Looking!PlansAgree)
    BY LookingLists, LookingAvailability, LookingOffers, LookingPlans, ProvedConstants DEF LookingInv
  <2>2. InvS => (clients.area = "accounts" =>
                   /\ Signing!TypeOK /\ Signing!OneAccountPerEmail
                   /\ Signing!DeactivatedTogether /\ Signing!AddressFollowsAccount)
    BY AccountsKept
  <2> QED
    BY <2>1, <2>2 DEF AccountPromises
<1> QED
  BY <1>1, <1>2, <1>3, <1>4, PTL DEF Spec

\* AssistantTurns: one turn at a time and without faults, a tool runs at most once for each
\* proposal that was staged, and never one that the user did not see when saying yes, unless
\* the agent may confirm; faults or not, what was cancelled or found expired runs no more.
THEOREM AssistantAsksFirst ==
  Spec => /\ [](clients.area = "assistant" =>
                  Assistant!TypeOK /\ Assistant!RunOnce /\ Assistant!AskedBeforeRun)
          /\ Assistant!OverNeverRuns
<1> DEFINE InvA == clients.area = "assistant" => TurnsInv /\ (Assistant!OneAtATime => TurnsSerial)
           InvE == clients.area # "assistant" => over = {}
<1>1. Init => InvA /\ InvE
  BY AssistantInit, SerialInit, ProvedConstants DEF Init, Assistant!Start
<1>2. InvA /\ [Next]_vars => InvA'
  <2> SUFFICES ASSUME InvA, [Next]_vars, clients.area = "assistant"
               PROVE  TurnsInv' /\ (Assistant!OneAtATime => TurnsSerial)'
    BY ClientsStay
  <2>1. [Assistant!Next]_Assistant!vars
    BY AssistantStep
  <2>2. Assistant!OneAtATime' <=> Assistant!OneAtATime
    BY ClientsStay DEF Assistant!OneAtATime
  <2>3. TurnsInv'
    BY <2>1, TurnsInvStep
  <2>4. Assistant!OneAtATime => TurnsSerial'
    BY <2>1, TurnsSerialStep
  <2> QED
    BY <2>2, <2>3, <2>4
<1>3. InvE /\ [Next]_vars => InvE'
  BY ClientsStay, AssistantStep DEF assistant
<1>4. InvA => (clients.area = "assistant" =>
                 Assistant!TypeOK /\ Assistant!RunOnce /\ Assistant!AskedBeforeRun)
  BY DEF TurnsInv, TurnsSerial, NotRun, Seen, Assistant!RunOnce, Assistant!AskedBeforeRun
<1>5. InvA /\ InvE /\ [Next]_vars =>
        [Assistant!OneAtATime => \A p \in over : ran'[p] = ran[p]]_Assistant!vars
  BY AssistantStep, OverStays
<1> QED
  BY <1>1, <1>2, <1>3, <1>4, <1>5, PTL DEF Spec, Assistant!OverNeverRuns

\* AssistantRouting: however models fail, a turn calls them a bounded number of times and
\* does the tool the user named; one turn at a time the answer asks for what was staged, and
\* every message is answered once unless a tool refuses or the worker dies.  What of the
\* conversation a model is sent is a fold over it, and stays with TLC.
THEOREM AssistantAnswers ==
  Spec => [](clients.area = "routing" =>
               /\ Routing!TypeOK /\ Routing!ModelCallsBounded /\ Routing!AskedIfStaged
               /\ Routing!NamedToolDecides /\ Routing!AnsweredOnce)
<1> DEFINE InvR == clients \in Clients /\
             (clients.area = "routing" => RoutingInv /\ (Routing!OneAtATime => RoutingSerial))
<1>1. Init => InvR
  BY RoutingInit, RoutingSerialInit DEF Init, Begin
<1>2. InvR /\ [Next]_vars => InvR'
  <2> SUFFICES ASSUME InvR, [Next]_vars, clients.area = "routing"
               PROVE  RoutingInv' /\ (Routing!OneAtATime => RoutingSerial)'
    BY ClientsStay
  <2>1. [Routing!Next]_Routing!vars
    BY RoutingStep
  <2>2. Routing!OneAtATime' <=> Routing!OneAtATime
    BY ClientsStay DEF Routing!OneAtATime
  <2>3. RoutingInv'
    BY <2>1, RoutingInvStep, ProvedConstants
  <2>4. Routing!OneAtATime => RoutingSerial'
    BY <2>1, RoutingSerialStep, ProvedConstants
  <2> QED
    BY <2>2, <2>3, <2>4
<1>3. InvR => (clients.area = "routing" =>
                 /\ Routing!TypeOK /\ Routing!ModelCallsBounded /\ Routing!AskedIfStaged
                 /\ Routing!NamedToolDecides /\ Routing!AnsweredOnce)
  BY RoutingKept, ProvedConstants
<1> QED
  BY <1>1, <1>2, <1>3, PTL DEF Spec

\* OAuthConnections: however authorizations, callbacks, uses and disconnections follow each
\* other, and whatever the provider fails at, a user has one connection and none that was cut
\* off comes back.  One call at a time the refresh token that is stored is accepted while the
\* provider answers, and the worklogs of a connected Jira account are its user's.
THEOREM ConnectionsKeepPromises == Spec => ConnectionPromises
<1> DEFINE InvC == clients \in Clients /\ (clients.area = "oauth" => Connected)
           Stays == \A k \in Connections : connection[k] = Deleted => connection'[k] = Deleted
<1>1. Init => InvC
  BY ConnectedInit, ProvedConstants DEF Init, Begin
<1>2. InvC /\ [Next]_vars => InvC'
  <2> SUFFICES ASSUME InvC, [Next]_vars PROVE InvC'
    OBVIOUS
  <2>1. UNCHANGED clients
    BY ClientsStay
  <2>2. ASSUME clients.area = "oauth" PROVE Connected'
    BY <2>1, <2>2, OAuthStep, ConnectedStep, ProvedConstants
  <2> QED
    BY <2>1, <2>2
<1>3. InvC => (clients.area = "oauth" =>
                 OAuth!TypeOK /\ OAuth!RefreshTokenIsCurrent /\ OAuth!MappingFollowsConnection)
  BY ConnectionsKept, ProvedConstants
<1>4. InvC /\ [Next]_vars => [Stays]_OAuth!vars
  <2> SUFFICES ASSUME InvC, [Next]_vars PROVE Stays
    OBVIOUS
  <2>1. CASE clients.area = "oauth"
    BY <2>1, OAuthStep, DeletedStays, ProvedConstants DEF Connected
  <2>2. CASE clients.area # "oauth"
    <3>1. UNCHANGED connection
      BY <2>2, OAuthStep DEF oauth
    <3> QED
      BY <3>1
  <2> QED
    BY <2>1, <2>2
<1> QED
  BY <1>1, <1>2, <1>3, <1>4, PTL DEF Spec, ConnectionPromises, OAuth!DisconnectedStays

\* DocumentFiles and DocumentTemplates: while calls come one at a time and the storage neither
\* fails nor overwrites, every document has its file and every file its document; the rows of a
\* bulk deletion go together whatever fails, and only a restore or a deletion takes a document
\* out of the archive, however calls race.  One name is one active template, and a document
\* leaves no placeholder open that its template asks for.
THEOREM FilesKeepPromises == Spec => FilePromises
<1> DEFINE InvF == /\ clients \in Clients
                   /\ clients.area = "files" => PaperInv
                   /\ clients.area = "templates" => WriteInv
           Whole == \A t \in Threads :
                      Files!At(t, "bulk") /\ job'[t] = Files!Idle
                      => \/ document' = document
                         \/ \A d \in job[t].key : document'[d] = Deleted
           Holds == \A d \in Files!Live :
                      document[d].archived /\ document'[d] \in Files!Rows /\ ~document'[d].archived
                      => \E t \in Threads : Files!At(t, "unarchive") /\ job[t].key = d
<1>1. Init => InvF
  BY PaperInit, WriteInit, ProvedConstants DEF Init, Begin
<1>2. InvF /\ [Next]_vars => InvF'
  <2> SUFFICES ASSUME InvF, [Next]_vars PROVE InvF'
    OBVIOUS
  <2>1. UNCHANGED clients
    BY ClientsStay
  <2>2. ASSUME clients.area = "files" PROVE PaperInv'
    BY <2>1, <2>2, FilesStep, PaperInvStep, ProvedConstants
  <2>3. ASSUME clients.area = "templates" PROVE WriteInv'
    BY <2>1, <2>3, WritingStep, WriteInvStep, ProvedConstants
  <2> QED
    BY <2>1, <2>2, <2>3
<1>3. InvF => /\ clients.area = "files" => Files!TypeOK /\ Files!FilesFollowRows
              /\ Writing!TypeOK /\ Writing!OneActiveName /\ Writing!NothingLeftOpen
  BY PaperKept, WriteKept, WriteElsewhere, ProvedConstants
<1>4. InvF /\ [Next]_vars => BulkIsWhole /\ ArchiveHolds
  <2> SUFFICES ASSUME InvF, [Next]_vars PROVE BulkIsWhole /\ ArchiveHolds
    OBVIOUS
  <2>1. CASE clients.area = "files"
    BY <2>1, FilesStep, BulkIsWholeStep, ArchiveHoldsStep, ProvedConstants
  <2>2. CASE clients.area # "files"
    BY <2>2, FilesStep, ArchiveElsewhere DEF files
  <2> QED
    BY <2>1, <2>2
<1>5. InvF /\ [Next]_vars => [Whole]_Files!vars /\ [Holds]_Files!vars
  BY <1>4 DEF BulkIsWhole, ArchiveHolds
<1> HIDE DEF InvF
<1> QED
  BY <1>1, <1>2, <1>3, <1>5, PTL
     DEF Spec, FilePromises, Files!BulkDeletionIsWhole, Files!ArchivedUntilRestored
=============================================================================
