--------------------------- MODULE RolePermissions ---------------------------
(***************************************************************************)
(* Who may do what.  A permission has a bit, a role has a set of           *)
(* permissions, and a profile has a role and a bitmap into which the       *)
(* permissions of the role were copied when it was given.  Rights are      *)
(* read from both, in three ways.  Roles and permissions come from         *)
(* uploaded files, and nothing locks the rows while a file is applied.     *)
(*                                                                         *)
(* What a permission lets one do is in the component that asks for it.     *)
(* Names and descriptions of roles are left out, and so are skipped rows.  *)
(***************************************************************************)
EXTENDS Naturals, FiniteSetsExt, WebThreads

CONSTANTS
  Permissions, Roles, Profiles,  \* module and action, name, primary key
  Defaults,                      \* those of DEFAULT_USER_ASSET_PERMISSION_ACTIONS
  SuperAdmin,                    \* the role of setup_super_admin
  Files                          \* uploads: sets of rows that do not contradict each other

Calls == {"load", "upload", "join", "superuser", "role", "bitmap", "edit", "create", "update",
          "delete", "admin_delete", "setup"}
Faults == {"crash"}
Bits == 1..(Cardinality(Permissions) + 1)
Rows == [role : Roles, permission : Permissions, yes : BOOLEAN,
         operation : {"override", "add", "remove", "merge"}]

RoleConstants ==
  /\ IsFiniteSet(Permissions) /\ Defaults \subseteq Permissions /\ SuperAdmin \in Roles
  /\ Files \subseteq SUBSET Rows
  /\ \A f \in Files : \A a, b \in f : [a EXCEPT !.yes = TRUE] = [b EXCEPT !.yes = TRUE] => a = b
  /\ Nil \notin Permissions \cup Roles \cup Profiles \cup Bits /\ \A P \in SUBSET Permissions : P # Nil
  \* Clients also say which files are uploaded, which permissions the assistant gives a
  \* role, and which bitmaps are written over that of a profile.
  /\ \A c \in Clients : c.area = "roles" =>
       /\ c.files \subseteq Files /\ c.sets \subseteq SUBSET Permissions
       /\ c.bitmaps \subseteq SUBSET Bits

VARIABLES
  bit,        \* permission -> Permission.bit_position, Nil as long as there is no row
  permitted,  \* role -> Role.permissions, or Nil
  profile     \* key -> UserProfile.role and .permissions, or Nil

vars == <<bit, permitted, profile, job, clients>>

-----------------------------------------------------------------------------
Known == {p \in Permissions : bit[p] # Nil}
Living == {r \in Roles : permitted[r] # Nil}
People == {k \in Profiles : profile[k] # Nil}

BitsOf(P) == {bit[p] : p \in P}
\* get_role_permissions_bitmap
BitmapOf(r) == IF r = Nil THEN {} ELSE BitsOf(permitted[r])

\* Mutation of HasPermission: a profile with a role is asked for its role only.
HasPermissionByRole(k, p) ==
  IF profile[k].role # Nil THEN p \in permitted[profile[k].role] ELSE bit[p] \in profile[k].bits

\* UserProfile.has_permission, which PermissionsView asks for every permission
HasPermission(k, p) ==
  \/ profile[k].role # Nil /\ p \in permitted[profile[k].role]
  \/ bit[p] \in profile[k].bits
Told(k) == {p \in Known : HasPermission(k, p)}

\* UserProfile.computed_permissions_bitmap, in the payload of profiles
Computed(k) == profile[k].bits \cup BitmapOf(profile[k].role)

-----------------------------------------------------------------------------
(* Permissions.                                                            *)

\* Permission.save
NextBit == IF Known = {} THEN 1 ELSE Max(BitsOf(Known)) + 1

\* get_or_create of one that is not there; next is what the call goes on with.
Number(t, p, next) == Take(t, "number", p, [bit |-> NextBit, next |-> next])

Load(t) ==
  /\ Free(t, "load")
  /\ \E p \in Permissions \ Known : Number(t, p, Nil)
  /\ UNCHANGED <<bit, permitted, profile, clients>>

\* The loser of two insertions finds the row of the winner, or, if they were of two
\* permissions, ends with an error: the bit is taken.
Insert(t) ==
  /\ At(t, "number")
  /\ LET p == job[t].key row == job[t].row
         goOn == IF row.next = Nil THEN Done(t) ELSE Take(t, "read", Nil, row.next)
     IN IF bit[p] # Nil THEN goOn /\ UNCHANGED bit
        ELSE IF row.bit \in BitsOf(Known) THEN Done(t) /\ UNCHANGED bit
        ELSE bit' = [bit EXCEPT ![p] = row.bit] /\ goOn
  /\ UNCHANGED <<permitted, profile, clients>>

-----------------------------------------------------------------------------
(* A file of roles: the upload and the command.                            *)

Upload(t) ==
  /\ Free(t, "upload")
  /\ \E f \in clients.files : Take(t, "read", Nil, f)
  /\ UNCHANGED <<bit, permitted, profile, clients>>

\* Permissions and roles are created row by row; then come the roles, one by one.
ReadRow(t) ==
  /\ At(t, "read")
  /\ LET f == job[t].row
         permissions == {row.permission : row \in f} \ Known
         missing == {row.role : row \in f} \ Living
     IN \/ \E p \in permissions : Number(t, p, f) /\ UNCHANGED permitted
        \/ \E r \in missing :
             permitted' = [permitted EXCEPT ![r] = {}] /\ UNCHANGED job
        \/ /\ permissions = {} /\ missing = {}
           /\ Take(t, "apply", {row.role : row \in f}, f)
           /\ UNCHANGED permitted
  /\ UNCHANGED <<bit, profile, clients>>

Of(f, r, operation, yes) ==
  {row.permission : row \in {s \in f : s.role = r /\ s.operation = operation /\ s.yes = yes}}

\* Mutation of Merged: what is not named is taken away.
MergedOnly(f, r, current) == Of(f, r, "merge", TRUE)
Merged(f, r, current) == (current \cup Of(f, r, "merge", TRUE)) \ Of(f, r, "merge", FALSE)

\* The next role: an override excludes the rest; otherwise permissions are added and
\* removed, and then the role is read for a merge.
ApplyRole(t) ==
  /\ At(t, "apply")
  /\ LET f == job[t].row roles == job[t].key IN
       IF roles = {} THEN Done(t) /\ UNCHANGED permitted
       ELSE \E r \in roles :
         LET override == Of(f, r, "override", TRUE)
             next == (permitted[r] \cup Of(f, r, "add", TRUE)) \ Of(f, r, "remove", TRUE)
         IN IF r \notin Living THEN Done(t) /\ UNCHANGED permitted
            ELSE IF override # {}
            THEN /\ permitted' = [permitted EXCEPT ![r] = override]
                 /\ Take(t, "apply", roles \ {r}, f)
            ELSE /\ permitted' = [permitted EXCEPT ![r] = next]
                 /\ IF Of(f, r, "merge", TRUE) \cup Of(f, r, "merge", FALSE) = {}
                    THEN Take(t, "apply", roles \ {r}, f)
                    ELSE Take(t, "merge", roles \ {r}, [file |-> f, role |-> r, current |-> next])
  /\ UNCHANGED <<bit, profile, clients>>

Merge(t) ==
  /\ At(t, "merge")
  /\ LET row == job[t].row IN
       IF row.role \notin Living THEN Done(t) /\ UNCHANGED permitted
       ELSE /\ permitted' = [permitted EXCEPT ![row.role] = Merged(row.file, row.role, row.current)]
            /\ Take(t, "apply", job[t].key, row.file)
  /\ UNCHANGED <<bit, profile, clients>>

-----------------------------------------------------------------------------
(* Roles, by the assistant and the admin site.                             *)

CreateRole(t) ==
  /\ Free(t, "create")
  /\ \E r \in Roles \ Living, P \in clients.sets :
       permitted' = [permitted EXCEPT ![r] = P \cap Known]
  /\ UNCHANGED <<bit, profile, job, clients>>

UpdateRole(t) ==
  /\ Free(t, "update")
  /\ \E r \in Living, P \in clients.sets :
       permitted' = [permitted EXCEPT ![r] = P \cap Known]
  /\ UNCHANGED <<bit, profile, job, clients>>

\* Mutation of Deletable: roles in use can be deleted.
DeletableAny(r) == r \in Living
Deletable(r) == r \in Living /\ \A k \in People : profile[k].role # r

\* The assistant refuses to delete a role that someone has, and then deletes it.
DeleteRole(t) ==
  /\ Free(t, "delete")
  /\ \E r \in Roles : Deletable(r) /\ Take(t, "delete", r, Nil)
  /\ UNCHANGED <<bit, permitted, profile, clients>>

Delete(r) ==
  /\ permitted' = [permitted EXCEPT ![r] = Nil]
  /\ profile' = [k \in Profiles |->
       IF k \in People /\ profile[k].role = r THEN [profile[k] EXCEPT !.role = Nil] ELSE profile[k]]

DeleteChecked(t) ==
  /\ At(t, "delete") /\ Delete(job[t].key) /\ Done(t)
  /\ UNCHANGED <<bit, clients>>

\* The admin site deletes whatever is there.
AdminDelete(t) ==
  /\ Free(t, "admin_delete")
  /\ \E r \in Living : Delete(r)
  /\ UNCHANGED <<bit, job, clients>>

-----------------------------------------------------------------------------
(* Profiles.                                                               *)

\* create_user_profile; every permission for a superuser.
Join(t) ==
  /\ \E k \in Profiles \ People :
       \/ /\ Free(t, "join")
          /\ profile' = [profile EXCEPT ![k] = [role |-> Nil, bits |-> BitsOf(Defaults)]]
       \/ /\ Free(t, "superuser")
          /\ profile' = [profile EXCEPT ![k] = [role |-> Nil, bits |-> BitsOf(Known)]]
  /\ UNCHANGED <<bit, permitted, job, clients>>

\* Mutation of WithRole: somebody without a role keeps the permissions of the last one.
WithRoleKept(row, r) ==
  IF r = Nil THEN [row EXCEPT !.role = Nil] ELSE [role |-> r, bits |-> BitmapOf(r)]
\* update_role, and PUT and PATCH that name the role, or none
WithRole(row, r) == [role |-> r, bits |-> BitmapOf(r)]

\* A profile is loaded, changed and later saved as a whole.
EditProfile(t) ==
  /\ \E k \in People :
       \/ /\ Free(t, "role")
          /\ \E r \in Living \cup {Nil} : Take(t, "save", k, WithRole(profile[k], r))
       \/ /\ Free(t, "bitmap")
          /\ \E B \in clients.bitmaps : Take(t, "save", k, [profile[k] EXCEPT !.bits = B])
       \/ Free(t, "edit") /\ Take(t, "save", k, profile[k])
  /\ UNCHANGED <<bit, permitted, profile, clients>>

\* A role that is gone is refused by its foreign key.
Save(t) ==
  /\ At(t, "save")
  /\ LET row == job[t].row IN
       IF row.role \in Living \cup {Nil}
       THEN profile' = [profile EXCEPT ![job[t].key] = row]
       ELSE UNCHANGED profile
  /\ Done(t)
  /\ UNCHANGED <<bit, permitted, clients>>

\* setup_super_admin: the role gets what there is, and then a profile the role.
SetUp(t) ==
  /\ Free(t, "setup")
  /\ \E k \in People :
       /\ permitted' = [permitted EXCEPT ![SuperAdmin] = Known]
       /\ Take(t, "promote", k, Nil)
  /\ UNCHANGED <<bit, profile, clients>>

Promote(t) ==
  /\ At(t, "promote")
  /\ IF SuperAdmin \in Living
     THEN profile' = [profile EXCEPT ![job[t].key] = WithRole(@, SuperAdmin)]
     ELSE UNCHANGED profile
  /\ Done(t)
  /\ UNCHANGED <<bit, permitted, clients>>

Crash(t) ==
  /\ Fault("crash") /\ job[t] # Idle
  /\ Done(t)
  /\ UNCHANGED <<bit, permitted, profile, clients>>

-----------------------------------------------------------------------------
\* The first user has brought the default permissions, with a bit each.
Start ==
  /\ bit \in {b \in [Permissions -> Bits \cup {Nil}] :
                /\ \A p \in Permissions : b[p] # Nil <=> p \in Defaults
                /\ {b[p] : p \in Defaults} = 1..Cardinality(Defaults)}
  /\ permitted = [r \in Roles |-> Nil] /\ profile = [k \in Profiles |-> Nil]
Init == Begin /\ Start

Next ==
  \E t \in Threads :
    \/ Load(t) \/ Insert(t) \/ Upload(t) \/ ReadRow(t) \/ ApplyRole(t) \/ Merge(t)
    \/ CreateRole(t) \/ UpdateRole(t) \/ DeleteRole(t) \/ DeleteChecked(t) \/ AdminDelete(t)
    \/ Join(t) \/ EditProfile(t) \/ Save(t) \/ SetUp(t) \/ Promote(t) \/ Crash(t)

Spec == Init /\ [][Next]_vars
-----------------------------------------------------------------------------
(* Properties.                                                             *)

\* Rows are in their columns' range, and whatever races and dies, permissions and
\* roles that are named exist.
TypeOK ==
  /\ bit \in [Permissions -> Bits \cup {Nil}]
  /\ permitted \in [Roles -> {Nil} \cup SUBSET Known]
  /\ profile \in [Profiles -> [role : Living \cup {Nil}, bits : SUBSET Bits] \cup {Nil}]

\* Whatever races and dies, the bitmap that clients are sent says what is checked, of
\* every permission, and no more unless somebody wrote bits that mean nothing yet.
BitmapTellsRights ==
  \A k \in People :
    /\ \A p \in Known : bit[p] \in Computed(k) <=> HasPermission(k, p)
    /\ "bitmap" \notin clients.calls => Computed(k) = BitsOf(Told(k))

\* As long as bitmaps are not written by hand, nothing is taken from a role and calls come
\* one at a time, dead ones included, nobody has more than the role gives,
\* or without a role than everybody.
RightsFollowRole ==
  OneAtATime /\ clients.calls \cap {"bitmap", "update", "admin_delete", "superuser"} = {}
    /\ (\A f \in clients.files : \A row \in f : row.operation = "add")
  => \A k \in People :
       Told(k) \subseteq (IF profile[k].role = Nil THEN Defaults ELSE permitted[profile[k].role])

\* A file applied when no other call is under way gives its roles what its rows say, whatever
\* an earlier upload that died has left: of a permission that rows speak of, merges decide,
\* then removals, then additions, unless there is an override.
FileDecides ==
  \A t \in Threads :
    OneAtATime /\ At(t, "apply") =>
      \A r \in {row.role : row \in job[t].row} \ job[t].key :
        LET f == job[t].row IN
          IF Of(f, r, "override", TRUE) # {} THEN permitted[r] = Of(f, r, "override", TRUE)
          ELSE /\ Of(f, r, "merge", TRUE) \ Of(f, r, "merge", FALSE) \subseteq permitted[r]
               /\ permitted[r] \cap Of(f, r, "merge", FALSE) = {}
               /\ permitted[r] \cap Of(f, r, "remove", TRUE) \subseteq Of(f, r, "merge", TRUE)
               /\ Of(f, r, "add", TRUE) \ permitted[r]
                    \subseteq Of(f, r, "remove", TRUE) \cup Of(f, r, "merge", FALSE)

\* One call at a time, a role loses a permission only if it is set as a whole or a row
\* names it.
LosesOnlyNamed ==
  [][OneAtATime =>
       \A t \in Threads, r \in Living :
         At(t, "merge") \/ At(t, "apply") =>
           LET f == IF At(t, "merge") THEN job[t].row.file ELSE job[t].row IN
             permitted'[r] # Nil =>
               \/ permitted[r] \ permitted'[r] \subseteq {row.permission : row \in f}
               \/ Of(f, r, "override", TRUE) # {}]_vars
=============================================================================
