---------------------------- MODULE Announcements ----------------------------
(***************************************************************************)
(* Announcements, the employee introductions among them, and how they are  *)
(* told: in-app notifications, e-mails and posts to a Discord channel.     *)
(*                                                                         *)
(* notify_announcement_published holds a row lock and one transaction over *)
(* all three.  E-mails and posts leave the database: a rollback forgets    *)
(* them.  Scheduled announcements and failed posts wait for commands.      *)
(***************************************************************************)
EXTENDS Naturals, WebThreads

CONSTANTS
  Announcements, \* primary keys; bound on those created
  MaxTime,       \* bound on the clock
  MaxAttempts,   \* --max-attempts of the retry command
  MaxTold,       \* bound on the counters of what was told and posted
  Deleted

Times == 0..MaxTime
Statuses == {"pending", "sent", "failed"}
Calls == {"create", "assistant", "edit", "delete", "intro", "profile",
          "channel", "due", "retry"}
Faults == {"refused", "lost_reply", "rollback", "crash"}

\* intro: it introduces the employee; notified: notifications_sent_at is set.
Rows == [schedule : Times \cup {Nil}, intro : BOOLEAN, notified : BOOLEAN]
Deliveries == [status : Statuses, attempts : Nat]

ASSUME AnnouncementConstants ==
  /\ MaxTime \in Nat /\ MaxAttempts \in Nat /\ MaxTold \in Nat
  \* Clients also say which keys they create, and whether Discord has a channel.
  /\ Clients \subseteq [threads : SUBSET Threads, calls : SUBSET Calls,
                        keys : SUBSET Announcements,
                        faults : SUBSET Faults, channel : BOOLEAN]
  /\ {Nil, Deleted} \cap (Rows \cup Deliveries \cup Announcements \cup Times) = {}
  /\ Nil # Deleted /\ Nil \notin Threads

VARIABLES
  announcement, \* the Announcement table
  lock,         \* who holds select_for_update on an announcement
  delivery,     \* the DiscordAnnouncementDelivery for the one channel
  channel,      \* whether that channel is enabled
  profile,      \* intro_announcement of the employee
  clock,
  told,         \* how often the in-app notifications of one were committed
  posted        \* how often it was posted in Discord

data == <<announcement, lock, delivery, channel, profile, clock, told, posted,
          clients>>
vars == <<data, job>>

-----------------------------------------------------------------------------
Live == {k \in Announcements : announcement[k] \in Rows}
Published(r) == r.schedule \in {Nil} \cup 0..clock

Unused(k) == k \in clients.keys /\ announcement[k] = Nil /\ \A t \in Threads : job[t].key # k
Counted(n) == IF n < MaxTold THEN n + 1 ELSE n
\* Attempts beyond the limit of the command make no difference.
Attempted(d) == IF d.attempts < MaxAttempts THEN d.attempts + 1 ELSE d.attempts
NewRow(s, i) == [schedule |-> s, intro |-> i, notified |-> FALSE]

\* The transaction of a dispatch: the row it will commit and the delivery it
\* has written.  Its e-mails leave the database as its posts do.
Dispatch(t, k, r) ==
  /\ lock' = [lock EXCEPT ![k] = t]
  /\ Take(t, "discord", k, [row |-> r, delivery |-> Nil])

\* A transaction that inserts an introduction has updated the profile: who
\* updates the profile waits for it.
ProfileFree ==
  \A t \in Threads : job[t].call \in {"discord", "post", "commit"} =>
    ~(announcement[job[t].key] = Nil /\ job[t].row.row.intro)

\* A dispatch that wrote the delivery holds its row until it commits.
DeliveryFree(k) ==
  \A t \in Threads : job[t].call \in {"post", "commit"} /\ job[t].key = k =>
    job[t].row.delivery = Nil

-----------------------------------------------------------------------------
(* Dispatch: notify_announcement_published.                                *)

\* Mutation of Lock: nobody waits for the row lock.
LockUnwaited(t) ==
  /\ At(t, "notify") /\ job[t].key \in Live
  /\ LET k == job[t].key IN
       /\ ~announcement[k].notified /\ Published(announcement[k])
       /\ Dispatch(t, k, announcement[k])
  /\ UNCHANGED <<announcement, delivery, channel, profile, clock, told, posted, clients>>

Lock(t) ==
  /\ At(t, "notify") /\ job[t].key \in Live
  /\ LET k == job[t].key IN
       /\ lock[k] = Nil
       /\ ~announcement[k].notified /\ Published(announcement[k])
       /\ Dispatch(t, k, announcement[k])
  /\ UNCHANGED <<announcement, delivery, channel, profile, clock, told, posted, clients>>

\* Already sent, not yet published, or deleted meanwhile.
Skip(t) ==
  /\ At(t, "notify")
  /\ LET k == job[t].key IN
       k \in Live => /\ lock[k] = Nil
                     /\ announcement[k].notified \/ ~Published(announcement[k])
  /\ Done(t) /\ UNCHANGED data

\* dispatch_discord_announcement: get_or_create, unless it is sent already.
Deliver(t) ==
  /\ At(t, "discord")
  /\ LET k == job[t].key
         d == delivery[k]
     IN \/ /\ ~channel \/ (d # Nil /\ d.status = "sent")
           /\ Take(t, "commit", k, job[t].row)
        \/ /\ channel /\ (d # Nil => d.status # "sent")
           /\ Take(t, "post", k, [row |-> job[t].row.row, delivery |->
                [status |-> "pending", attempts |-> IF d = Nil THEN 1 ELSE Attempted(d)]])
  /\ UNCHANGED data

\* The webhook: it posts and answers, refuses, or posts and the answer is lost.
Answer(k, status) ==
  \/ /\ status = "sent" \/ Fault("lost_reply")
     /\ posted' = [posted EXCEPT ![k] = Counted(@)]
  \/ status = "failed" /\ Fault("refused") /\ UNCHANGED posted

Post(t) ==
  /\ At(t, "post")
  /\ \E status \in {"sent", "failed"} :
       /\ Answer(job[t].key, status)
       /\ Take(t, "commit", job[t].key, [row |-> job[t].row.row, delivery |->
            [status |-> status, attempts |-> job[t].row.delivery.attempts]])
  /\ UNCHANGED <<announcement, lock, delivery, channel, profile, clock, told, clients>>

Commit(t) ==
  /\ At(t, "commit")
  /\ LET k == job[t].key
         tx == job[t].row
     IN /\ announcement' = [announcement EXCEPT ![k] = [tx.row EXCEPT !.notified = TRUE]]
        /\ told' = [told EXCEPT ![k] = Counted(@)]
        /\ delivery' = [delivery EXCEPT ![k] = IF tx.delivery = Nil THEN @ ELSE tx.delivery]
        /\ profile' = IF announcement[k] = Nil /\ tx.row.intro THEN k ELSE profile
        /\ lock' = [lock EXCEPT ![k] = Nil]
  /\ Done(t)
  /\ UNCHANGED <<channel, clock, posted, clients>>

\* An exception in the transaction, or a dead worker.
Rollback(t) ==
  /\ Fault("rollback")
  /\ \E k \in Announcements : lock[k] = t /\ lock' = [lock EXCEPT ![k] = Nil]
  /\ Done(t)
  /\ UNCHANGED <<announcement, delivery, channel, profile, clock, told, posted, clients>>

\* A worker dies outside a transaction; what it committed stays.
Crash(t) ==
  /\ Fault("crash")
  /\ job[t] # Idle /\ \A k \in Announcements : lock[k] # t
  /\ Done(t) /\ UNCHANGED data

-----------------------------------------------------------------------------
(* Writers of announcements.                                               *)

Create(t) ==
  /\ Free(t, "create")
  /\ \E k \in Announcements, s \in Times \cup {Nil} :
       LET r == NewRow(s, FALSE) IN
       /\ Unused(k)
       /\ announcement' = [announcement EXCEPT ![k] = r]
       /\ IF Published(r) THEN Take(t, "notify", k, Nil) ELSE UNCHANGED job
  /\ UNCHANGED <<lock, delivery, channel, profile, clock, told, posted, clients>>

\* The assistant notifies only if it was asked to send e-mails (m), and does it
\* in the transaction of the INSERT.
AssistantCreate(t) ==
  /\ Free(t, "assistant")
  /\ \E k \in Announcements, s \in Times \cup {Nil}, m \in BOOLEAN :
       LET r == NewRow(s, FALSE) IN
       /\ Unused(k)
       /\ \/ /\ m /\ Published(r)
             /\ Dispatch(t, k, r) /\ UNCHANGED announcement
          \/ /\ ~(m /\ Published(r))
             /\ announcement' = [announcement EXCEPT ![k] = r]
             /\ UNCHANGED <<job, lock>>
  /\ UNCHANGED <<delivery, channel, profile, clock, told, posted, clients>>

\* PUT and PATCH: the copy, and whether it was published when it was loaded.
EditLoad(t) ==
  /\ \E c \in {"edit", "assistant"}, k \in Live, s \in Times \cup {Nil} :
       /\ Free(t, c)
       /\ Take(t, c, k, [row |-> [announcement[k] EXCEPT !.schedule = s],
                         was_published |-> Published(announcement[k])])
  /\ UNCHANGED data

\* save() writes the whole copy, the mark of the dispatch included.
EditSave(t) ==
  /\ At(t, "edit")
  /\ LET k == job[t].key
         new == job[t].row.row
     IN /\ lock[k] = Nil
        /\ announcement' = [announcement EXCEPT ![k] = new]
        /\ IF ~job[t].row.was_published /\ Published(new)
           THEN Take(t, "notify", k, Nil)
           ELSE Done(t)
  /\ UNCHANGED <<lock, delivery, channel, profile, clock, told, posted, clients>>

AssistantSave(t) ==
  /\ At(t, "assistant")
  /\ LET k == job[t].key
         new == job[t].row.row
     IN /\ lock[k] = Nil
        /\ \/ /\ ~job[t].row.was_published /\ Published(new) /\ ~new.notified
              /\ Dispatch(t, k, new) /\ UNCHANGED announcement
           \/ /\ announcement' = [announcement EXCEPT ![k] = new]
              /\ Done(t) /\ UNCHANGED lock
  /\ UNCHANGED <<delivery, channel, profile, clock, told, posted, clients>>

\* Mutation of Delete: the profile keeps its introduction.
DeleteLeaves(t) ==
  /\ Free(t, "delete")
  /\ \E k \in Live :
       /\ lock[k] = Nil /\ DeliveryFree(k)
       /\ announcement' = [announcement EXCEPT ![k] = Deleted]
       /\ delivery' = [delivery EXCEPT ![k] = Nil]
  /\ UNCHANGED <<job, lock, channel, profile, clock, told, posted, clients>>

\* The delivery goes with the announcement, and the profile forgets it.
Delete(t) ==
  /\ Free(t, "delete")
  /\ \E k \in Live :
       /\ lock[k] = Nil /\ DeliveryFree(k)
       /\ announcement' = [announcement EXCEPT ![k] = Deleted]
       /\ delivery' = [delivery EXCEPT ![k] = Nil]
       /\ profile' = IF profile = k THEN Nil ELSE profile
  /\ UNCHANGED <<job, lock, channel, clock, told, posted, clients>>

SetChannel(t) ==
  /\ Free(t, "channel")
  /\ channel' = ~channel
  /\ UNCHANGED <<announcement, lock, delivery, profile, clock, told, posted, job, clients>>

-----------------------------------------------------------------------------
(* Introductions: an update of the employee that publishes one.            *)

\* Mutation of IntroLoad: nobody asks whether there is an introduction.
IntroLoadAgain(t) ==
  /\ Free(t, "intro")
  /\ Take(t, "intro_save", profile, Nil)
  /\ UNCHANGED data

\* The serializer refuses if its copy of the profile has an introduction.
IntroLoad(t) ==
  /\ Free(t, "intro") /\ profile = Nil
  /\ Take(t, "intro_save", Nil, Nil)
  /\ UNCHANGED data

\* An update that publishes none.
ProfileLoad(t) ==
  /\ Free(t, "profile")
  /\ Take(t, "profile_save", profile, Nil)
  /\ UNCHANGED data

\* instance.save(): the whole profile, intro_announcement included; the foreign
\* key refuses one that was deleted meanwhile.
ProfileSave(t) ==
  /\ job[t].call \in {"intro_save", "profile_save"} /\ ProfileFree
  /\ IF job[t].key \in Live \cup {Nil}
     THEN /\ profile' = job[t].key
          /\ IF At(t, "intro_save") THEN Take(t, "intro_publish", Nil, Nil) ELSE Done(t)
     ELSE Done(t) /\ UNCHANGED profile
  /\ UNCHANGED <<announcement, lock, delivery, channel, clock, told, posted, clients>>

\* publish_employee_intro_announcement: INSERT, profile and dispatch together.
IntroPublish(t) ==
  /\ At(t, "intro_publish") /\ ProfileFree
  /\ \E k \in Announcements, s \in Times \cup {Nil} :
       LET r == NewRow(s, TRUE) IN
       /\ Unused(k)
       /\ \/ /\ Published(r)
             /\ Dispatch(t, k, r) /\ UNCHANGED <<announcement, profile>>
          \/ /\ ~Published(r)
             /\ announcement' = [announcement EXCEPT ![k] = r]
             /\ profile' = k
             /\ Done(t) /\ UNCHANGED lock
  /\ UNCHANGED <<delivery, channel, clock, told, posted, clients>>

\* The actor has no profile, or may not schedule.
IntroRefused(t) == At(t, "intro_publish") /\ Done(t) /\ UNCHANGED data

-----------------------------------------------------------------------------
(* Commands.                                                               *)

Due(k) ==
  /\ k \in Live
  /\ announcement[k].schedule \in 0..clock
  /\ ~announcement[k].notified

\* Mutation of NotifyDue: after their time instead of at it.
NotifyDueLate(t, k) ==
  /\ Free(t, "due")
  /\ Due(k) /\ announcement[k].schedule < clock
  /\ Take(t, "notify", k, Nil)
  /\ UNCHANGED data

NotifyDue(t, k) ==
  /\ Free(t, "due")
  /\ Due(k)
  /\ Take(t, "notify", k, Nil)
  /\ UNCHANGED data

\* Mutation of Waiting: what has failed is given up.
WaitingPending(k) ==
  delivery[k] # Nil /\ delivery[k].status = "pending"
    /\ delivery[k].attempts < MaxAttempts

\* Mutation of Waiting: what was sent is sent again.
WaitingAny(k) == delivery[k] # Nil /\ delivery[k].attempts < MaxAttempts

Waiting(k) ==
  delivery[k] # Nil /\ delivery[k].status \in {"pending", "failed"}
    /\ delivery[k].attempts < MaxAttempts

RetryLoad(t, k) ==
  /\ Free(t, "retry")
  /\ Waiting(k)
  /\ Take(t, "retry", k, delivery[k])
  /\ UNCHANGED data

\* send_discord_delivery, outside any transaction; save(update_fields) of a
\* delivery that is gone fails.
RetrySave(t, d, next) ==
  /\ DeliveryFree(job[t].key)
  /\ IF delivery[job[t].key] = Nil
     THEN Done(t) /\ UNCHANGED delivery
     ELSE /\ delivery' = [delivery EXCEPT ![job[t].key] = d]
          /\ IF next = "none" THEN Done(t) ELSE Take(t, next, job[t].key, d)
  /\ UNCHANGED <<announcement, lock, channel, profile, clock, told, posted, clients>>

RetryBegin(t) ==
  /\ At(t, "retry")
  /\ RetrySave(t, [status |-> "pending", attempts |-> Attempted(job[t].row)], "retry_post")

RetryPost(t) ==
  /\ At(t, "retry_post")
  /\ \E status \in {"sent", "failed"} :
       /\ Answer(job[t].key, status)
       /\ Take(t, "retry_save", job[t].key,
               [status |-> status, attempts |-> job[t].row.attempts])
  /\ UNCHANGED <<announcement, lock, delivery, channel, profile, clock, told, clients>>

RetryEnd(t) ==
  /\ At(t, "retry_save")
  /\ RetrySave(t, [delivery[job[t].key] EXCEPT !.status = job[t].row.status], "none")

Tick ==
  /\ clock < MaxTime /\ clock' = clock + 1
  /\ UNCHANGED <<announcement, lock, delivery, channel, profile, told, posted, job, clients>>

-----------------------------------------------------------------------------
Init ==
  /\ announcement = [k \in Announcements |-> Nil]
  /\ lock = [k \in Announcements |-> Nil]
  /\ delivery = [k \in Announcements |-> Nil]
  /\ profile = Nil /\ clock = 0
  /\ told = [k \in Announcements |-> 0]
  /\ posted = [k \in Announcements |-> 0]
  /\ Begin
  /\ channel = clients.channel

Dispatching(t) == Lock(t) \/ Skip(t) \/ Deliver(t) \/ Post(t) \/ Commit(t)
Writing(t) ==
  \/ Create(t) \/ AssistantCreate(t) \/ EditLoad(t) \/ Delete(t)
  \/ SetChannel(t) \/ IntroLoad(t) \/ ProfileLoad(t)
Saving(t) ==
  \/ EditSave(t) \/ AssistantSave(t) \/ ProfileSave(t)
  \/ IntroPublish(t) \/ IntroRefused(t)
Retrying(t) == RetryBegin(t) \/ RetryPost(t) \/ RetryEnd(t)

Next ==
  \/ Tick
  \/ \E t \in Threads :
       \/ Dispatching(t) \/ Writing(t) \/ Saving(t) \/ Retrying(t)
       \/ \E k \in Announcements : NotifyDue(t, k) \/ RetryLoad(t, k)
       \/ Rollback(t) \/ Crash(t)

Spec == Init /\ [][Next]_vars

\* A stage that is reached again and again is passed some time (neither workers
\* nor transactions die at it every time), and a scheduler runs both commands.
FairSpec ==
  /\ Spec
  /\ \A t \in Threads : WF_vars(Skip(t)) /\ WF_vars(Saving(t))
  /\ SF_vars(\E t \in Threads : Lock(t))
  /\ SF_vars(\E t \in Threads : Deliver(t))
  /\ SF_vars(\E t \in Threads : Post(t))
  /\ SF_vars(\E t \in Threads : Commit(t))
  /\ SF_vars(\E t \in Threads : RetryBegin(t))
  /\ SF_vars(\E t \in Threads : RetryPost(t))
  /\ SF_vars(\E t \in Threads : RetryEnd(t))
  /\ \A k \in Announcements :
       /\ SF_vars(\E t \in Threads : NotifyDue(t, k))
       /\ SF_vars(\E t \in Threads : RetryLoad(t, k))

-----------------------------------------------------------------------------
(* Properties.                                                             *)

\* Rows, deliveries and the copies of the threads keep their columns' range, and what
\* is counted keeps its bound, whoever deletes what under a running dispatch.
TypeOK ==
  /\ announcement \in [Announcements -> Rows \cup {Nil, Deleted}]
  /\ lock \in [Announcements -> Threads \cup {Nil}]
  /\ delivery \in [Announcements -> Deliveries \cup {Nil}]
  /\ channel \in BOOLEAN /\ clock \in Times
  /\ profile \in Live \cup {Nil}
  /\ \A k \in Announcements : delivery[k] # Nil => k \in Live
  /\ told \in [Announcements -> 0..MaxTold] /\ posted \in [Announcements -> 0..MaxTold]

Edited == clients.calls \cap {"edit", "assistant"} # {}

\* However the publishing calls, the commands and the introductions race, and
\* whatever fails, an announcement is told once: the mark is read and written
\* under the row lock.  Edits that race with them save an older mark.
ToldOnce == OneAtATime \/ ~Edited => \A k \in Announcements : told[k] <= 1

\* As long as answers arrive and transactions commit, dispatch and the retries
\* of one command at a time post an announcement once.
PostedOnce ==
  OneAtATime /\ clients.faults \subseteq {"refused"} =>
    \A k \in Announcements : posted[k] <= 1

\* One call at a time, an employee is introduced once.
IntroOnce == OneAtATime =>
  Cardinality({k \in Live : announcement[k].intro}) <= 1

\* The three above: nobody is told, posted to or introduced twice.
AnnouncedOnce == TypeOK /\ ToldOnce /\ PostedOnce /\ IntroOnce

\* An announcement whose time has come is told, unless it is deleted or put
\* off, although dispatches fail and roll back.
DueIsTold == \A k \in Announcements : Due(k) ~> ~Due(k)

\* A post that failed, or whose worker died, is tried again until the limit.
Unsent(k) ==
  delivery[k] # Nil /\ delivery[k].status # "sent" /\ delivery[k].attempts < MaxAttempts
UnsentIsRetried == \A k \in Announcements : Unsent(k) ~> ~Unsent(k)

\* What is to be told is told in the end, by e-mail and on Discord.
AnnouncedInTheEnd == DueIsTold /\ UnsentIsRetried
=============================================================================
