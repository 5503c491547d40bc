-------------------------- MODULE OAuthConnections --------------------------
(***************************************************************************)
(* The connections of users to their Jira or Tempo accounts (OAuth 2, one  *)
(* provider at a time): authorize, callback, disconnect, and the refresh   *)
(* of the access token that every use of a connection may need.            *)
(*                                                                         *)
(* The provider rotates refresh tokens: each is accepted once.             *)
(***************************************************************************)
EXTENDS Naturals, WebThreads

CONSTANTS
  Users,
  Accounts,     \* accounts at the provider
  Connections,  \* primary keys; bound on the connections created
  MaxToken,     \* bound on the tokens the provider issues
  Deleted

Calls == {"authorize", "callback", "disconnect", "use", "map"}
Faults == {"refused", "no_connection", "lost_reply"}

\* A pair of tokens has the number the provider gave it; 0 is the empty string.
Tokens == 0..MaxToken

\* expired: token_expires_at is past, or less than the leeway ahead.
Rows == [user : Users, account : Accounts \cup {Nil}, access : Tokens,
         refresh : Tokens, expired : BOOLEAN]

OAuthConstants ==
  /\ MaxToken \in Nat
  \* Clients also say the provider, the users and the accounts they use.
  /\ \A c \in Clients : c.area = "oauth" =>
                        /\ c.provider \in {"jira", "tempo"}
                        /\ c.users \subseteq Users /\ c.accounts \subseteq Accounts
  /\ {Nil, Deleted} \cap (Rows \cup Users \cup Accounts \cup Connections) = {}
  /\ Nil # Deleted

VARIABLES
  connection, \* the table of JiraUserConnection or TempoUserConnection
  state,      \* user -> its row of the OAuthState table
  code,       \* user -> the account whose code the provider has given it
  mapping,    \* JiraUserMapping: account -> employee, by the user
  issued,     \* tokens issued so far
  accepted    \* the refresh tokens the provider would accept

data == <<connection, state, code, mapping, issued, accepted>>
vars == <<data, job, clients>>

-----------------------------------------------------------------------------
Live == {k \in Connections : connection[k] \in Rows}
Of(u) == {k \in Live : connection[k].user = u}
Jira == clients.provider = "jira"

Unused(k) == connection[k] = Nil
NewTokens == issued < MaxToken /\ issued' = issued + 1

-----------------------------------------------------------------------------
(* Connecting.                                                             *)

\* A state for the user, and the provider's consent page.
Authorize(t) ==
  /\ Free(t, "authorize")
  /\ \E u \in clients.users, a \in clients.accounts :
       /\ state' = [state EXCEPT ![u] = "issued"]
       /\ code' = [code EXCEPT ![u] = a]
  /\ UNCHANGED <<connection, mapping, issued, accepted, job, clients>>

\* Ten minutes pass; every authorize and callback prunes expired states.
Expire ==
  /\ \E u \in Users : state[u] = "issued" /\ state' = [state EXCEPT ![u] = "none"]
  /\ UNCHANGED <<connection, code, mapping, issued, accepted, job, clients>>

CallbackLoad(t) ==
  /\ Free(t, "callback")
  /\ \E u \in Users :
       /\ state[u] = "issued"
       /\ Take(t, "exchange", u, Nil)
  /\ UNCHANGED <<data, clients>>

\* The state is deleted, the code exchanged; the provider takes a code once.  Where
\* it then refuses to say which sites or account they are for, the tokens are lost.
Exchange(t) ==
  /\ At(t, "exchange")
  /\ LET u == job[t].key IN
       /\ state' = [state EXCEPT ![u] = "none"]
       /\ code' = [code EXCEPT ![u] = Nil]
       /\ \/ /\ code[u] # Nil
             /\ NewTokens /\ accepted' = accepted \cup {issued'}
             /\ \/ Take(t, "connect", u, [account |-> code[u], token |-> issued'])
                \/ (Fault("refused") \/ Fault("no_connection")) /\ Done(t)
          \/ /\ code[u] = Nil \/ Fault("refused") \/ Fault("no_connection")
             /\ Done(t) /\ UNCHANGED <<issued, accepted>>
  /\ UNCHANGED <<connection, mapping, clients>>

\* Mutation of Unique: nothing makes the user of a connection unique.
UniqueUnchecked(u, k) == k \in Connections

Unique(u, k) == Of(u) \subseteq {k}

\* update_or_create, by the account (Jira) or the user (Tempo); the user of a
\* connection is unique.  The tokens are not in its defaults.
Connect(t) ==
  /\ At(t, "connect")
  /\ LET u == job[t].key
         a == IF Jira THEN job[t].row.account ELSE Nil
         found == IF Jira THEN {k \in Live : connection[k].account = a} ELSE Of(u)
         Store(k, r) ==
           IF Unique(u, k)
           THEN /\ connection' = [connection EXCEPT ![k] = r]
                /\ Take(t, "store", k, [user |-> u, account |-> a,
                                        token |-> job[t].row.token])
           ELSE Done(t) /\ UNCHANGED connection
     IN \/ \E k \in found :
             Store(k, [connection[k] EXCEPT !.user = u, !.expired = FALSE])
        \/ /\ found = {}
           /\ \E k \in Connections :
                /\ Unused(k)
                /\ Store(k, [user |-> u, account |-> a, access |-> 0,
                             refresh |-> 0, expired |-> FALSE])
  /\ UNCHANGED <<state, code, mapping, issued, accepted, clients>>

\* save(update_fields): the tokens, and nothing of a deleted row.
SaveTokens(k, access, refresh, expired) ==
  connection' = IF k \in Live
                THEN [connection EXCEPT ![k].access = access, ![k].refresh = refresh,
                                        ![k].expired = expired]
                ELSE connection

Store(t) ==
  /\ At(t, "store")
  /\ LET k == job[t].key
         n == job[t].row.token
     IN /\ connection' = IF k \in Live
                         THEN [connection EXCEPT ![k].access = n, ![k].refresh = n]
                         ELSE connection
        /\ IF k \in Live /\ Jira
           THEN job' = [job EXCEPT ![t].call = "mapping"]
           ELSE Done(t)
  /\ UNCHANGED <<state, code, mapping, issued, accepted, clients>>

\* Mutation of Map: a mapping that exists is left alone.
MapNew(t) ==
  /\ At(t, "mapping")
  /\ LET a == job[t].row.account IN
       mapping' = [mapping EXCEPT ![a] = IF @ = Nil THEN job[t].row.user ELSE @]
  /\ Done(t)
  /\ UNCHANGED <<connection, state, code, issued, accepted, clients>>

Map(t) ==
  /\ At(t, "mapping")
  /\ mapping' = [mapping EXCEPT ![job[t].row.account] = job[t].row.user]
  /\ Done(t)
  /\ UNCHANGED <<connection, state, code, issued, accepted, clients>>

\* An administrator's mapping.
SaveMapping(t) ==
  /\ Free(t, "map") /\ Jira
  /\ \E a \in clients.accounts, u \in clients.users : mapping' = [mapping EXCEPT ![a] = u]
  /\ UNCHANGED <<connection, state, code, issued, accepted, job, clients>>

Disconnect(t) ==
  /\ Free(t, "disconnect")
  /\ \E u \in Users :
       connection' = [k \in Connections |-> IF k \in Of(u) THEN Deleted ELSE connection[k]]
  /\ UNCHANGED <<state, code, mapping, issued, accepted, job, clients>>

-----------------------------------------------------------------------------
(* Using a connection: get_valid_access_token.                             *)

TimePasses ==
  /\ \E k \in Live : ~connection[k].expired
       /\ connection' = [connection EXCEPT ![k].expired = TRUE]
  /\ UNCHANGED <<state, code, mapping, issued, accepted, job, clients>>

\* A token that is still valid is used as it is, whatever it is.
Load(t) ==
  /\ Free(t, "use")
  /\ \E k \in Live : /\ connection[k].expired /\ connection[k].refresh # 0
                     /\ Take(t, "refresh", k, connection[k])
  /\ UNCHANGED <<data, clients>>

\* The answer: new tokens, or any status from 400 on, or none.  A lost answer
\* leaves the provider with tokens nobody has stored.
Refresh(t) ==
  /\ At(t, "refresh")
  /\ LET n == job[t].row.refresh
         Answer(kind, new) == job' = [job EXCEPT ![t].call = kind, ![t].row.access = new,
                                                 ![t].row.refresh = new]
         Rotate == NewTokens /\ accepted' = (accepted \ {n}) \cup {issued'}
     IN \/ n \in accepted /\ Rotate /\ Answer("refreshed", issued')
        \/ /\ n \notin accepted \/ Fault("refused")
           /\ Answer("rejected", 0) /\ UNCHANGED <<issued, accepted>>
        \/ Fault("no_connection") /\ Done(t) /\ UNCHANGED <<issued, accepted>>
        \/ Fault("lost_reply") /\ n \in accepted /\ Rotate /\ Done(t)
  /\ UNCHANGED <<connection, state, code, mapping, clients>>

\* Mutation of Keep: the refresh token that came with the access token is lost.
KeepAccess(t) ==
  /\ job[t].call \in {"refreshed", "rejected"}
  /\ LET k == job[t].key IN
       SaveTokens(k, job[t].row.access, IF k \in Live THEN connection[k].refresh ELSE 0, FALSE)
  /\ Done(t)
  /\ UNCHANGED <<state, code, mapping, issued, accepted, clients>>

\* Mutation of Keep: save() of the whole connection inserts it again.
KeepAll(t) ==
  /\ job[t].call \in {"refreshed", "rejected"}
  /\ connection' = [connection EXCEPT ![job[t].key] =
                      [job[t].row EXCEPT !.expired = At(t, "rejected")]]
  /\ Done(t)
  /\ UNCHANGED <<state, code, mapping, issued, accepted, clients>>

\* A refusal empties both tokens and leaves token_expires_at.
Keep(t) ==
  /\ job[t].call \in {"refreshed", "rejected"}
  /\ LET r == job[t].row
         k == job[t].key
     IN SaveTokens(k, r.access, r.refresh,
                   At(t, "rejected") /\ k \in Live /\ connection[k].expired)
  /\ Done(t)
  /\ UNCHANGED <<state, code, mapping, issued, accepted, clients>>

-----------------------------------------------------------------------------
Start ==
  /\ connection = [k \in Connections |-> Nil]
  /\ state = [u \in Users |-> "none"]
  /\ code = [u \in Users |-> Nil]
  /\ mapping = [a \in Accounts |-> Nil]
  /\ issued = 0 /\ accepted = {}

Init == Start /\ Begin

Next ==
  \/ Expire \/ TimePasses
  \/ \E t \in Threads :
       \/ Authorize(t) \/ CallbackLoad(t) \/ Exchange(t) \/ Connect(t)
       \/ Store(t) \/ Map(t) \/ SaveMapping(t) \/ Disconnect(t)
       \/ Load(t) \/ Refresh(t) \/ Keep(t)

Spec == Init /\ [][Next]_vars

-----------------------------------------------------------------------------
(* Properties.                                                             *)

\* Rows are in their columns' range, tokens were issued, and whatever callbacks race,
\* a user has one connection (the unique constraint).
TypeOK ==
  /\ connection \in [Connections -> Rows \cup {Nil, Deleted}]
  /\ state \in [Users -> {"none", "issued"}]
  /\ code \in [Users -> Accounts \cup {Nil}]
  /\ mapping \in [Accounts -> Users \cup {Nil}]
  /\ issued \in Tokens /\ accepted \subseteq 1..issued
  /\ \A u \in Users : Cardinality(Of(u)) <= 1

\* One call at a time, and as long as the provider answers, the refresh token
\* that is stored is the one it accepts: no use of a connection loses it.
RefreshTokenIsCurrent ==
  OneAtATime /\ clients.faults = {} /\ AllIdle =>
    \A k \in Live : connection[k].refresh \in accepted

\* One call at a time, and unless an administrator says otherwise, the worklogs
\* of a connected Jira account are those of the user who connected it last.
MappingFollowsConnection ==
  OneAtATime /\ Jira /\ "map" \notin clients.calls /\ AllIdle =>
    \A k \in Live : mapping[connection[k].account] = connection[k].user

\* However the calls race, a connection that was cut off stays so: no refresh
\* that is under way brings it back.
DisconnectedStays ==
  [][\A k \in Connections : connection[k] = Deleted => connection'[k] = Deleted]_vars
=============================================================================
