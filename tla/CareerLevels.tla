---------------------------- MODULE CareerLevels ----------------------------
(***************************************************************************)
(* The CPF level, the career level, the role and the permissions of one    *)
(* employee.  The level follows the latest recorded change, the career     *)
(* level follows the definition of the level, the permissions follow the   *)
(* role; the history of the profile tells what was done.                   *)
(***************************************************************************)
EXTENDS Naturals, WebThreads

CONSTANTS
  Levels, Careers, Roles,
  MaxChanges, \* bound on the level changes recorded
  LastDay     \* bound on their dates

ChangeCalls == {"create", "edit", "delete"}
AssistantCalls == {"ai_promotion", "ai_change"}
Calls == ChangeCalls \cup AssistantCalls \cup {"profile", "role", "permissions", "define", "command"}
Faults == {"crash"}

Keys == 1..MaxChanges  \* created_at grows with the key
CareerConstants ==
  MaxChanges \in Nat /\ LastDay \in Nat /\ Nil \notin Levels \cup Careers \cup Roles /\ "other" \notin Roles

Changes == [effective_date : 0..LastDay, new_level : Levels]
\* by_hand is history: the career level was last written by itself.
Profiles == [cpf_level : Levels \cup {Nil}, career_level : Careers \cup {Nil},
             role : Roles \cup {Nil}, permissions : Roles \cup {Nil, "other"},
             by_hand : BOOLEAN]

VARIABLES
  profile,     \* UserProfile
  change,      \* CPFLevelChange
  definition,  \* CPFLevel -> its career_level
  logged       \* the level in the last row of the history

vars == <<profile, change, definition, logged, job, clients>>

-----------------------------------------------------------------------------
Live == {k \in Keys : change[k] # Nil}
Career(l) == IF l = Nil THEN Nil ELSE definition[l]
\* Keys grow like created_at and are not used again.
NextKey == {k \in Keys : change[k] = Nil /\ \A i \in Live : i < k}

\* Mutation of Latest: the one recorded last.
LatestMade(k) == \A i \in Live : i <= k

\* order_by("-effective_date", "-created_at")
Latest(k) ==
  \A i \in Live :
    \/ change[i].effective_date < change[k].effective_date
    \/ change[i].effective_date = change[k].effective_date /\ i <= k

LatestLevel == change[CHOOSE k \in Live : Latest(k)].new_level

\* Mutation of LogLevel: the history keeps what was there before.
LogLevelOld(old, new) == logged' = IF old = new THEN logged ELSE old

LogLevel(old, new) == logged' = IF old = new THEN logged ELSE new

-----------------------------------------------------------------------------
(* Level changes, each followed by sync_employee_current_cpf_level.        *)

\* The employee is loaded with the change, or with the form of a new one.
WriteChange(t) ==
  /\ \/ \E k \in NextKey, r \in Changes :
          Free(t, "create") /\ change' = [change EXCEPT ![k] = r]
     \/ \E k \in Live, r \in Changes :
          Free(t, "edit") /\ change' = [change EXCEPT ![k] = r]
     \/ \E k \in Live :
          Free(t, "delete") /\ change' = [change EXCEPT ![k] = Nil]
  /\ Take(t, "sync", Nil, profile)
  /\ UNCHANGED <<profile, definition, logged, clients>>

\* Nothing to follow, or already there as far as the copy tells.
Sync(t) ==
  /\ At(t, "sync")
  /\ LET old == job[t].row.cpf_level IN
       IF Live # {} /\ old # LatestLevel
       THEN /\ profile' = [profile EXCEPT !.cpf_level = LatestLevel]
            /\ LogLevel(old, LatestLevel)
       ELSE UNCHANGED <<profile, logged>>
  /\ Done(t)
  /\ UNCHANGED <<change, definition, clients>>

\* The process ends between two transactions.
Crash(t) ==
  /\ Fault("crash") /\ (At(t, "sync") \/ At(t, "cascade"))
  /\ Done(t)
  /\ UNCHANGED <<profile, change, definition, logged, clients>>

-----------------------------------------------------------------------------
(* Edits of the profile: the whole copy is saved.                          *)

Load(t) ==
  /\ \E c \in {"profile", "role", "permissions"} \cup AssistantCalls :
       Free(t, c) /\ Take(t, c, Nil, profile)
  /\ UNCHANGED <<profile, change, definition, logged, clients>>

\* Mutation of WithRole: the permissions stay as they are.
WithRoleOnly(r, role) == [r EXCEPT !.role = role]

WithRole(r, role) == [r EXCEPT !.role = role, !.permissions = role]

\* A new level brings its career level, whatever the body says of it; without a level
\* the body's own is saved.  A new role brings its permissions.  The history rows that
\* follow are written by the same call.
SaveProfile(t) ==
  /\ At(t, "profile")
  /\ LET old == job[t].row IN
       \/ \E l \in Levels \cup {Nil} :
            /\ profile' = [old EXCEPT !.cpf_level = l, !.career_level = Career(l),
                                      !.by_hand = FALSE]
            /\ LogLevel(old.cpf_level, l)
       \/ \E c \in Careers \cup {Nil} :
            profile' = [old EXCEPT !.career_level = c, !.by_hand = TRUE] /\ UNCHANGED logged
       \/ \E r \in Roles \cup {Nil} : profile' = WithRole(old, r) /\ UNCHANGED logged
  /\ Done(t)
  /\ UNCHANGED <<change, definition, clients>>

UpdateRole(t) ==
  /\ At(t, "role")
  /\ \E r \in Roles : profile' = WithRole(job[t].row, r)
  /\ Done(t)
  /\ UNCHANGED <<change, definition, logged, clients>>

UpdatePermissions(t) ==
  /\ At(t, "permissions")
  /\ profile' = [job[t].row EXCEPT !.permissions = "other"]
  /\ Done(t)
  /\ UNCHANGED <<change, definition, logged, clients>>

-----------------------------------------------------------------------------
(* The definition of a level; the employees at it follow one by one.       *)

Define(t) ==
  /\ Free(t, "define")
  /\ \E l \in Levels, c \in Careers \cup {Nil} :
       /\ definition[l] # c
       /\ definition' = [definition EXCEPT ![l] = c]
       /\ IF profile.cpf_level = l THEN Take(t, "cascade", c, profile) ELSE UNCHANGED job
  /\ UNCHANGED <<profile, change, logged, clients>>

\* Mutation of Cascaded: only an employee that has no career level yet.
CascadedNew(r, c) ==
  IF r.career_level = Nil THEN [r EXCEPT !.career_level = c, !.by_hand = FALSE] ELSE r

\* cascade_cpf_level_definition_change, for one employee
Cascaded(r, c) == [r EXCEPT !.career_level = c, !.by_hand = FALSE]

Cascade(t) ==
  /\ At(t, "cascade")
  /\ profile' = IF job[t].row.career_level = job[t].key THEN profile
                ELSE Cascaded(job[t].row, job[t].key)
  /\ Done(t)
  /\ UNCHANGED <<change, definition, logged, clients>>

-----------------------------------------------------------------------------
(* The assistant's tools and the commands: levels and roles by themselves. *)

\* A promotion writes a change only if the level is another; a change always.
Record(t) ==
  /\ \E l \in Levels, d \in 0..LastDay, k \in NextKey, r \in Roles \cup {Nil} :
       /\ At(t, "ai_promotion") \/ (At(t, "ai_change") /\ r = Nil)
       /\ LET moved == l # job[t].row.cpf_level IN
          /\ profile' = [profile EXCEPT
                           !.cpf_level = IF moved THEN l ELSE @,
                           !.role = IF r \in {Nil, job[t].row.role} THEN @ ELSE r]
          /\ change' = IF moved \/ At(t, "ai_change")
                       THEN [change EXCEPT ![k] = [effective_date |-> d, new_level |-> l]]
                       ELSE change
  /\ Done(t)
  /\ UNCHANGED <<definition, logged, clients>>

\* assign_cpf_levels and seed_employee_cpf_levels write no history.
Command(t) ==
  /\ Free(t, "command")
  /\ \E l \in Levels : profile' = [profile EXCEPT !.cpf_level = l]
  /\ UNCHANGED <<change, definition, logged, job, clients>>

-----------------------------------------------------------------------------
Start ==
  /\ profile = [cpf_level |-> Nil, career_level |-> Nil, role |-> Nil, permissions |-> Nil,
                by_hand |-> FALSE]
  /\ change = [k \in Keys |-> Nil]
  /\ definition = [l \in Levels |-> Nil]
  /\ logged = Nil

Init == Start /\ Begin

Next ==
  \E t \in Threads :
    \/ WriteChange(t) \/ Sync(t) \/ Crash(t) \/ Load(t) \/ SaveProfile(t) \/ UpdateRole(t)
    \/ UpdatePermissions(t) \/ Define(t) \/ Cascade(t) \/ Record(t) \/ Command(t)

Spec == Init /\ [][Next]_vars

-----------------------------------------------------------------------------
(* Properties.                                                             *)

Only(calls) == clients.calls \subseteq calls
NoFaults == clients.faults = {}

\* The level of a change that no other follows, by date and then by creation.
AtLatest(level) ==
  \E k \in Live : /\ change[k].new_level = level
                 /\ \A i \in Live \ {k} :
                      LET d == change[i].effective_date IN
                      d < change[k].effective_date \/ (d = change[k].effective_date /\ i < k)

\* Profile, changes, definitions and history hold values the columns admit, whatever
\* serializers, cascades and commands save.
TypeOK ==
  /\ profile \in Profiles
  /\ change \in [Keys -> Changes \cup {Nil}]
  /\ definition \in [Levels -> Careers \cup {Nil}]
  /\ logged \in Levels \cup {Nil}

\* Changes recorded, edited and removed one at a time, in any order of dates: the
\* level is that of the latest one.
LevelIsLatest ==
  OneAtATime /\ NoFaults /\ Only(ChangeCalls \cup {"role", "permissions", "define"}) /\ AllIdle
  /\ Live # {} => AtLatest(profile.cpf_level)

\* A call that ends puts right what an earlier one, ended too soon, has left.
SyncRepairs ==
  [][OneAtATime /\ Only(Calls \ {"command"}) =>
       \A t \in Threads : Sync(t) /\ Live # {} => AtLatest(profile'.cpf_level)]_vars

\* One call at a time, by the API: the history ends with the level there is.
HistoryTellsLevel ==
  OneAtATime /\ Only(Calls \ (AssistantCalls \cup {"command"})) => logged = profile.cpf_level

\* Profiles and definitions edited one at a time: the career level is that of the level,
\* unless it was last written by itself, as the serializer lets it; the next edit of the
\* level, or of its definition, brings it back.
CareerFollowsLevel ==
  OneAtATime /\ NoFaults /\ Only({"profile", "role", "permissions", "define"}) /\ AllIdle
  => profile.by_hand \/ profile.career_level = Career(profile.cpf_level)

\* However the edits race: permissions nobody overrides are those of the role.
PermissionsFollowRole ==
  Only(Calls \ (AssistantCalls \cup {"permissions"})) => profile.permissions = profile.role
=============================================================================
