-------------------------- MODULE EmployeeAccounts --------------------------
(***************************************************************************)
(* The accounts of employees: the Django user that signs in and the        *)
(* profile beside it, which signals create and save again with every save  *)
(* of the user.  No constraint keeps two users from one e-mail address,    *)
(* and a deletion is two saves, of the profile and of the user, in no      *)
(* transaction.                                                            *)
(*                                                                         *)
(* Passwords, tokens, names and the other columns of the profile are left  *)
(* out, and so is Django's own admin site.                                 *)
(***************************************************************************)
EXTENDS Naturals, FiniteSetsExt, WebThreads

CONSTANTS
  Accounts,  \* primary keys of User and of the UserProfile beside it
  Emails

Calls == {"register", "create", "google", "login", "chat",
          "edit", "edit_address", "edit_email", "delete"}
Faults == {"crash"}

\* The part before the @ and the number that makes it unique.
Usernames == Emails \X (0..Cardinality(Accounts))
Users == [username : Usernames \cup {Nil}, email : Emails \cup {Nil}, is_active : BOOLEAN]
Profiles == [email_address : Emails \cup {Nil}, is_active : BOOLEAN]

AccountConstants ==
  /\ IsFiniteSet(Accounts)
  /\ Nil \notin Accounts \cup Emails \cup Usernames \cup Users \cup Profiles
  /\ \A c \in Clients : c.area = "accounts" => c.emails \subseteq Emails

VARIABLES
  account,  \* key -> the User, or Nil
  profile   \* key -> its UserProfile, or Nil

vars == <<account, profile, job, clients>>

-----------------------------------------------------------------------------
Live == {k \in Accounts : account[k] # Nil}
Holders(e) == {k \in Live : account[k].email = e}
Used(u) == \E k \in Live : account[k].username = u
Fresh(k) == account[k] = Nil /\ \A t \in Threads : job[t].key # k

DeletedProfile == [email_address |-> Nil, is_active |-> FALSE]
Anonymous == [username |-> Nil, email |-> Nil, is_active |-> FALSE]

\* Mutation of Taken: asks the profiles, which may name another address.
TakenByProfile(e, k) ==
  \E a \in Accounts \ {k} : profile[a] # Nil /\ profile[a].email_address = e

\* validate_email
Taken(e, k) == Holders(e) \ {k} # {}

-----------------------------------------------------------------------------
(* New accounts.                                                           *)

\* The serializer asks whether the username is used, and not for the address.
Register(t) ==
  /\ Free(t, "register")
  /\ \E k \in Accounts, e \in clients.emails, u \in clients.emails \X {0} :
       /\ Fresh(k) /\ ~Used(u)
       /\ Take(t, "insert", k, [email |-> e, username |-> u])
  /\ UNCHANGED <<account, profile, clients>>

\* By HR, or with a Google identity nobody has used.
Create(t) ==
  /\ \E k \in Accounts, e \in clients.emails :
       /\ Fresh(k)
       /\ \/ Free(t, "create") /\ ~Taken(e, k)
          \/ Free(t, "google") /\ Holders(e) = {}
       /\ Take(t, "name", k, e)
  /\ UNCHANGED <<account, profile, clients>>

\* The first username that is free now.
Name(t) ==
  /\ At(t, "name")
  /\ LET e == job[t].row
         n == Min({i \in 0..Cardinality(Accounts) : ~Used(<<e, i>>)})
     IN Take(t, "insert", job[t].key, [email |-> e, username |-> <<e, n>>])
  /\ UNCHANGED <<account, profile, clients>>

\* Usernames are unique: the loser of two insertions ends with an error.
Insert(t) ==
  /\ At(t, "insert")
  /\ LET k == job[t].key row == job[t].row IN
       IF Used(row.username) THEN Done(t) /\ UNCHANGED account
       ELSE /\ account' = [account EXCEPT ![k] =
                 [username |-> row.username, email |-> row.email, is_active |-> TRUE]]
            /\ Take(t, "profile", k, row.email)
  /\ UNCHANGED <<profile, clients>>

\* The signal; the view holds the new profile and will save it once more.
InsertProfile(t) ==
  /\ At(t, "profile")
  /\ LET k == job[t].key new == [email_address |-> job[t].row, is_active |-> TRUE] IN
       /\ profile' = [profile EXCEPT ![k] = new]
       /\ Take(t, "save", k, new)
  /\ UNCHANGED <<account, clients>>

-----------------------------------------------------------------------------
(* Signing in.                                                             *)

\* What becomes of the call is update_last_login, whose signal saves the whole
\* profile.  An account without a profile is refused by each of the three.
SignIn(t) ==
  /\ \E k \in Live :
       /\ profile[k] # Nil
       /\ \/ Free(t, "login") /\ account[k].is_active /\ Holders(account[k].email) = {k}
          \/ Free(t, "google") /\ account[k].email # Nil /\ Holders(account[k].email) = {k}
          \/ Free(t, "chat") /\ account[k].is_active
       /\ Take(t, "save", k, profile[k])
  /\ UNCHANGED <<account, profile, clients>>

SaveProfile(t) ==
  /\ At(t, "save")
  /\ profile' = [profile EXCEPT ![job[t].key] = job[t].row]
  /\ Done(t)
  /\ UNCHANGED <<account, clients>>

-----------------------------------------------------------------------------
(* PUT and PATCH of a profile.                                             *)

\* A column nobody looks at here, or the address in the profile.
Edit(t) ==
  /\ \E k \in Accounts :
       /\ profile[k] # Nil
       /\ \/ Free(t, "edit") /\ Take(t, "save", k, profile[k])
          \/ /\ Free(t, "edit_address")
             /\ \E e \in clients.emails :
                  Take(t, "save", k, [profile[k] EXCEPT !.email_address = e])
  /\ UNCHANGED <<account, profile, clients>>

EditEmail(t) ==
  /\ Free(t, "edit_email")
  /\ \E k \in Accounts, e \in clients.emails :
       profile[k] # Nil /\ Take(t, "check", k, [email |-> e, copy |-> profile[k]])
  /\ UNCHANGED <<account, profile, clients>>

\* The user is loaded, and the address checked.
CheckEmail(t) ==
  /\ At(t, "check")
  /\ LET k == job[t].key row == job[t].row IN
       IF Taken(row.email, k) THEN Done(t)
       ELSE Take(t, "user", k,
                 [user |-> [account[k] EXCEPT !.email = row.email], copy |-> row.copy])
  /\ UNCHANGED <<account, profile, clients>>

\* The whole user, which another thread may have renamed meanwhile.
SaveUser(t) ==
  /\ At(t, "user")
  /\ LET k == job[t].key user == job[t].row.user IN
       IF \E a \in Live \ {k} : user.username # Nil /\ account[a].username = user.username
       THEN Done(t) /\ UNCHANGED account
       ELSE /\ account' = [account EXCEPT ![k] = user]
            /\ Take(t, "signal", k, job[t].row)
  /\ UNCHANGED <<profile, clients>>

\* Mutation of Addressed: the profile keeps its old address.
AddressedNot(row) == row.copy

Addressed(row) == [row.copy EXCEPT !.email_address = row.user.email]

\* The signal saves the profile as it was loaded, and then update saves it changed.
Signal(t) ==
  /\ At(t, "signal")
  /\ profile' = [profile EXCEPT ![job[t].key] = job[t].row.copy]
  /\ Take(t, "save", job[t].key, Addressed(job[t].row))
  /\ UNCHANGED <<account, clients>>

-----------------------------------------------------------------------------
(* DELETE of a profile: soft_delete_employee_profile.                      *)

\* Mutation of Delete: the user first.
DeleteUserFirst(t) ==
  /\ Free(t, "delete")
  /\ \E k \in Accounts : profile[k] # Nil /\ Take(t, "anonymise", k, Nil)
  /\ UNCHANGED <<account, profile, clients>>

Delete(t) ==
  /\ Free(t, "delete")
  /\ \E k \in Accounts : profile[k] # Nil /\ Take(t, "mark", k, Nil)
  /\ UNCHANGED <<account, profile, clients>>

MarkInactive(t) ==
  /\ At(t, "mark")
  /\ profile' = [profile EXCEPT ![job[t].key] = DeletedProfile]
  /\ Take(t, "anonymise", job[t].key, Nil)
  /\ UNCHANGED <<account, clients>>

\* The user, and then the profile again, by the signal.
Anonymise(t) ==
  /\ At(t, "anonymise")
  /\ account' = [account EXCEPT ![job[t].key] = Anonymous]
  /\ Take(t, "save", job[t].key, DeletedProfile)
  /\ UNCHANGED <<profile, clients>>

Crash(t) ==
  /\ Fault("crash") /\ job[t] # Idle
  /\ Done(t)
  /\ UNCHANGED <<account, profile, clients>>

-----------------------------------------------------------------------------
Start ==
  /\ account = [k \in Accounts |-> Nil]
  /\ profile = [k \in Accounts |-> Nil]
Init == Start /\ Begin

Next ==
  \E t \in Threads :
    \/ Register(t) \/ Create(t) \/ Name(t) \/ Insert(t) \/ InsertProfile(t)
    \/ SignIn(t) \/ SaveProfile(t)
    \/ Edit(t) \/ EditEmail(t) \/ CheckEmail(t) \/ SaveUser(t) \/ Signal(t)
    \/ Delete(t) \/ MarkInactive(t) \/ Anonymise(t) \/ Crash(t)

Spec == Init /\ [][Next]_vars

-----------------------------------------------------------------------------
(* Properties.                                                             *)

\* Rows are in their columns' range, and however calls race, a username is one
\* user's and a profile has its user.
TypeOK ==
  /\ account \in [Accounts -> Users \cup {Nil}]
  /\ profile \in [Accounts -> Profiles \cup {Nil}]
  /\ \A k, a \in Live :
       account[k].username # Nil /\ account[k].username = account[a].username => k = a
  /\ \A k \in Accounts : profile[k] # Nil => k \in Live

\* One call at a time, dead ones included, and as long as nobody registers: an
\* address is one user's, so that LoginView, which wants exactly one, finds it.
OneAccountPerEmail ==
  OneAtATime /\ "register" \notin clients.calls =>
    \A e \in Emails : Cardinality(Holders(e)) <= 1

\* One call at a time: a user who cannot sign in any more has no active profile,
\* wherever a deletion stopped, and a deletion that stops nowhere leaves none with
\* an inactive profile who can.
DeactivatedTogether ==
  OneAtATime =>
    \A k \in Live :
      /\ ~account[k].is_active => ~profile[k].is_active
      /\ clients.faults = {} /\ AllIdle => (account[k].is_active <=> profile[k].is_active)

\* One call at a time, none of which dies or names it: the address in the profile,
\* to which mail goes, is that of the account.
AddressFollowsAccount ==
  OneAtATime /\ clients.faults = {} /\ "edit_address" \notin clients.calls /\ AllIdle =>
    \A k \in Live : profile[k].email_address = account[k].email
=============================================================================
