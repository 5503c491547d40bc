------------------------- MODULE AnnouncementsProofs -------------------------
(***************************************************************************)
(* Theorems about Announcements for any number of announcements, threads   *)
(* and clients.                                                            *)
(*                                                                         *)
(* An announcement is told and posted in a transaction that holds its row  *)
(* lock: LockInv says that its stage and the lock go together.  ToldInv,   *)
(* PostInv and IntroInv add what the thread has read since: the row, the   *)
(* delivery or the profile is still as its copy says.                      *)
(***************************************************************************)
EXTENDS Announcements, FiniteSetTheorems, TLAPS

Transaction == {"discord", "post", "commit"}
EditStages == {"edit", "assistant"}
RetryStages == {"retry", "retry_post", "retry_save"}
Stages == Transaction \cup EditStages \cup RetryStages
  \cup {"none", "notify", "intro_save", "profile_save", "intro_publish"}

Transactions == [row : Rows, delivery : Deliveries \cup {Nil}]
Copies == [row : Rows, was_published : BOOLEAN]
Keys == Announcements \cup {Nil}
Jobs == [call : Stages, key : Keys,
         row : Transactions \cup Copies \cup Deliveries \cup {Nil}]

\* What a thread holds in the stage c of its call.
Fits(c, k, r) ==
  /\ c \in Transaction \cup EditStages \cup RetryStages => k \in Announcements
  /\ c \in Transaction => r \in Transactions
  /\ c = "post" => r.delivery \in Deliveries
  /\ c \in EditStages => r \in Copies
  /\ c \in RetryStages => r \in Deliveries

JobOK ==
  /\ job \in [Threads -> Jobs]
  /\ \A t \in Threads : Fits(job[t].call, job[t].key, job[t].row)

\* A thread that is busy serves a client.
Served == \A t \in Threads : job[t] # Idle => t \in clients.threads

LockInv ==
  \A t \in Threads :
    /\ job[t].call \in Transaction => lock[job[t].key] = t
    /\ \A k \in Announcements :
         lock[k] = t => job[t].call \in Transaction /\ job[t].key = k

AnnInv ==
  /\ clients \in Clients
  /\ TypeOK /\ JobOK /\ Served /\ LockInv

NotifiedAs(r, q) == q \in Rows /\ q.notified = r.notified

ToldFresh(j, a, n) ==
  /\ j.call \in Transaction => n[j.key] = 0
  /\ j.call \in EditStages => OneAtATime /\ NotifiedAs(j.row.row, a[j.key])

ToldInv ==
  OneAtATime \/ ~Edited =>
    /\ \A k \in Announcements :
         /\ told[k] <= 1
         /\ told[k] # 0 => \/ announcement[k] = Deleted
                           \/ k \in Live /\ announcement[k].notified
    /\ \A t \in Threads : ToldFresh(job[t], announcement, told)

Sent(d) == d # Nil /\ d.status = "sent"

\* The post has been accepted, and its delivery will say so.
Telling(j, k) ==
  /\ j.key = k
  /\ \/ j.call = "commit" /\ Sent(j.row.delivery)
     \/ j.call = "retry_save" /\ j.row.status = "sent"

PostFresh(j, a, d, n) ==
  /\ j.call \in Transaction => a[j.key] # Deleted
  /\ j.call = "discord" => j.row.delivery = Nil
  /\ j.call \in EditStages => a[j.key] \in Rows
  /\ j.call \in RetryStages => d[j.key] # Nil
  /\ \/ j.call \in {"post", "retry", "retry_post"}
     \/ j.call = "commit" /\ j.row.delivery # Nil /\ ~Sent(j.row.delivery)
     \/ j.call = "retry_save" /\ j.row.status # "sent"
     => n[j.key] = 0

PostInv ==
  OneAtATime /\ clients.faults \subseteq {"refused"} =>
    /\ \A k \in Announcements :
         /\ posted[k] <= 1
         /\ posted[k] # 0 => \/ announcement[k] = Deleted
                             \/ Sent(delivery[k])
                             \/ \E t \in Threads : Telling(job[t], k)
    /\ \A t \in Threads : PostFresh(job[t], announcement, delivery, posted)

IntroFresh(j, a, p) ==
  /\ j.call \in {"intro_save", "intro_publish"} => p = Nil /\ j.key = Nil
  /\ j.call = "profile_save" => j.key = p
  /\ j.call \in EditStages =>
       a[j.key] \in Rows /\ a[j.key].intro = j.row.row.intro
  /\ j.call \in Transaction /\ j.row.row.intro =>
       \/ a[j.key] = Nil /\ p = Nil
       \/ a[j.key] \in Rows /\ a[j.key].intro

IntroInv ==
  OneAtATime =>
    /\ \A k \in Live : announcement[k].intro => profile = k
    /\ \A t \in Threads : IntroFresh(job[t], announcement, profile)

-----------------------------------------------------------------------------
(* Types and locks.                                                        *)

LEMMA NoKeyNoRow ==
  /\ Nil \notin Announcements /\ Deleted \notin Rows /\ Nil \notin Rows
  /\ Nil \notin Deliveries /\ Nil # Deleted /\ Nil \notin Threads
  /\ Nil \notin Times
BY AnnouncementConstants

LEMMA AnnInit == Init => AnnInv /\ ToldInv /\ PostInv /\ IntroInv
<1> SUFFICES ASSUME Init PROVE AnnInv /\ ToldInv /\ PostInv /\ IntroInv
  OBVIOUS
<1>1. /\ clients \in Clients /\ clients.channel \in BOOLEAN
      /\ \A k \in Announcements : announcement[k] = Nil
      /\ \A t \in Threads : job[t] = Idle
  BY AnnouncementConstants DEF Init, Begin
<1>2. TypeOK
  BY <1>1, AnnouncementConstants DEF Init, TypeOK, Live, Times
<1>3. JobOK /\ Served
  <2>1. Idle \in Jobs /\ Fits(Idle.call, Idle.key, Idle.row)
    BY DEF Idle, Jobs, Keys, Fits, Stages, Transaction, EditStages, RetryStages
  <2> QED
    BY <1>1, <2>1 DEF Init, Begin, JobOK, Served
<1>4. LockInv
  BY <1>1, NoKeyNoRow DEF Init, LockInv, Idle, Transaction
<1>5. ToldInv
  BY <1>1 DEF Init, ToldInv, ToldFresh, Idle, Transaction, EditStages
<1>6. PostInv
  BY <1>1 DEF Init, PostInv, PostFresh, Idle, Transaction, EditStages, RetryStages
<1>7. IntroInv
  BY <1>1, NoKeyNoRow
     DEF Init, IntroInv, IntroFresh, Live, Idle, Transaction, EditStages
<1> QED
  BY <1>1, <1>2, <1>3, <1>4, <1>5, <1>6, <1>7 DEF AnnInv

LEMMA JobStep ==
  ASSUME JobOK, Served, NEW t \in Threads, t \in clients.threads,
         UNCHANGED clients, NEW c \in Stages, NEW k \in Keys,
         NEW r \in Transactions \cup Copies \cup Deliveries \cup {Nil},
         Fits(c, k, r), Take(t, c, k, r)
  PROVE  JobOK' /\ Served'
<1> DEFINE j == [call |-> c, key |-> k, row |-> r]
<1>1. j \in Jobs /\ Fits(j.call, j.key, j.row)
  BY DEF Jobs
<1>2. job' = [job EXCEPT ![t] = j]
  BY DEF Take
<1> HIDE DEF j
<1>3. JobOK'
  BY <1>1, <1>2 DEF JobOK
<1>4. Served'
  BY <1>2 DEF JobOK, Served
<1> QED
  BY <1>3, <1>4

LEMMA DoneStep ==
  ASSUME JobOK, Served, NEW t \in Threads, t \in clients.threads,
         UNCHANGED clients, Done(t)
  PROVE  JobOK' /\ Served'
<1>1. Take(t, "none", Nil, Nil)
  BY DEF Done, Take, Idle
<1>2. Fits("none", Nil, Nil) /\ Nil \in Keys /\ "none" \in Stages
  BY DEF Fits, Keys, Stages, Transaction, EditStages, RetryStages
<1> QED
  BY <1>1, <1>2, JobStep

\* A dispatch takes the lock of a row and commits or rolls back with it; other
\* stages neither hold locks nor lose them.
LEMMA LockKept ==
  ASSUME LockInv, JobOK, NEW t \in Threads, UNCHANGED lock,
         NEW j, job' = [job EXCEPT ![t] = j],
         j.call \in Transaction <=> job[t].call \in Transaction,
         j.call \in Transaction => j.key = job[t].key
  PROVE  LockInv'
BY DEF LockInv, JobOK

LEMMA LockTaken ==
  ASSUME TypeOK, LockInv, JobOK, NEW t \in Threads, NEW k \in Announcements, NEW r,
         lock[k] = Nil, job[t].call \notin Transaction, Dispatch(t, k, r)
  PROVE  LockInv'
BY NoKeyNoRow DEF LockInv, JobOK, TypeOK, Dispatch, Take, Fits, Transaction

LEMMA LockGiven ==
  ASSUME TypeOK, LockInv, JobOK, NEW t \in Threads, NEW k \in Announcements,
         lock[k] = t, lock' = [lock EXCEPT ![k] = Nil], Done(t)
  PROVE  LockInv'
<1>1. Idle.call \notin Transaction
  BY DEF Idle, Transaction
<1> QED
  BY <1>1, NoKeyNoRow DEF LockInv, JobOK, TypeOK, Done, Fits

\* The calls that hold no lock are the others.
LEMMA UnusedFree ==
  ASSUME TypeOK, LockInv, NEW k \in Announcements, Unused(k)
  PROVE  lock[k] = Nil
BY DEF TypeOK, LockInv, Unused

LEMMA Serves ==
  ASSUME Served, LockInv, NEW t \in Threads,
         \/ Dispatching(t) \/ Writing(t) \/ Saving(t) \/ Retrying(t)
         \/ \E k \in Announcements : NotifyDue(t, k) \/ RetryLoad(t, k)
         \/ Rollback(t) \/ Crash(t)
  PROVE  t \in clients.threads
<1>1. job[t].call # "none" => job[t] # Idle
  BY DEF Idle
<1>2. Dispatching(t) => job[t].call # "none"
  BY DEF Dispatching, Lock, Skip, Deliver, Post, Commit, At
<1>3. Writing(t) => t \in clients.threads
  BY DEF Writing, Create, AssistantCreate, EditLoad, Delete, SetChannel,
     IntroLoad, ProfileLoad, Free
<1>4. Saving(t) => job[t].call # "none"
  BY DEF Saving, EditSave, AssistantSave, ProfileSave, IntroPublish,
     IntroRefused, At
<1>5. Retrying(t) => job[t].call # "none"
  BY DEF Retrying, RetryBegin, RetryPost, RetryEnd, At
<1>6. Rollback(t) => job[t].call # "none"
  BY DEF Rollback, LockInv, Transaction
<1> QED
  BY <1>1, <1>2, <1>3, <1>4, <1>5, <1>6
     DEF NotifyDue, RetryLoad, Crash, Free, Served

\* A row is inserted or saved, and the tables that refer to it stay.
LEMMA RowSaved ==
  ASSUME TypeOK, NEW k \in Announcements, NEW r \in Rows,
         announcement' = [announcement EXCEPT ![k] = r],
         lock' \in [Announcements -> Threads \cup {Nil}],
         profile' = profile \/ profile' = k,
         UNCHANGED <<delivery, channel, clock, told, posted>>
  PROVE  TypeOK'
BY DEF TypeOK, Live

LEMMA TablesKept ==
  ASSUME TypeOK, UNCHANGED <<announcement, delivery, channel, profile, clock, told, posted>>,
         lock' \in [Announcements -> Threads \cup {Nil}]
  PROVE  TypeOK'
BY DEF TypeOK, Live

LEMMA CountedTyped ==
  ASSUME NEW n \in 0..MaxTold PROVE Counted(n) \in 0..MaxTold
BY AnnouncementConstants DEF Counted

LEMMA AttemptedTyped ==
  ASSUME NEW d \in Deliveries PROVE Attempted(d) \in Nat
BY AnnouncementConstants DEF Attempted, Deliveries

LEMMA NewRowTyped ==
  ASSUME NEW s \in Times \cup {Nil}, NEW i \in BOOLEAN
  PROVE  NewRow(s, i) \in Rows
BY DEF NewRow, Rows

LEMMA DispatchStep ==
  ASSUME AnnInv, NEW t \in Threads, t \in clients.threads, UNCHANGED clients,
         NEW k \in Announcements, NEW r \in Rows, lock[k] = Nil,
         job[t].call \notin Transaction, Dispatch(t, k, r)
  PROVE  /\ JobOK' /\ Served' /\ LockInv'
         /\ lock' \in [Announcements -> Threads \cup {Nil}]
<1> DEFINE tx == [row |-> r, delivery |-> Nil]
<1>1. tx \in Transactions /\ k \in Keys
  BY DEF Transactions, Keys
<1>2. Fits("discord", k, tx) /\ "discord" \in Stages
  BY <1>1 DEF Fits, Stages, Transaction, EditStages, RetryStages
<1>3. Take(t, "discord", k, tx)
  BY DEF Dispatch
<1> HIDE DEF tx
<1>4. JobOK' /\ Served'
  BY <1>1, <1>2, <1>3, JobStep DEF AnnInv
<1>5. LockInv'
  BY LockTaken DEF AnnInv
<1>6. lock' \in [Announcements -> Threads \cup {Nil}]
  BY DEF Dispatch, AnnInv, TypeOK
<1> QED
  BY <1>4, <1>5, <1>6

LEMMA DispatchTypes ==
  ASSUME AnnInv, NEW t \in Threads, Dispatching(t) PROVE AnnInv'
<1> USE DEF AnnInv
<1>0. t \in clients.threads
  BY Serves
<1>1. CASE Lock(t)
  <2>1. PICK k \in Announcements :
          announcement[k] \in Rows /\ lock[k] = Nil /\ Dispatch(t, k, announcement[k])
    BY <1>1 DEF Lock, Live
  <2>2. job[t].call \notin Transaction
    BY <1>1 DEF Lock, At, Transaction
  <2>3. /\ JobOK' /\ Served' /\ LockInv'
        /\ lock' \in [Announcements -> Threads \cup {Nil}]
    BY <1>0, <1>1, <2>1, <2>2, DispatchStep DEF Lock
  <2> QED
    BY <1>1, <2>3, TablesKept DEF Lock
<1>2. CASE Skip(t)
  <2>1. LockInv'
    BY <1>2, LockKept DEF Skip, At, Done, Idle, Transaction, data
  <2> QED
    BY <1>0, <1>2, <2>1, DoneStep, TablesKept DEF Skip, data, TypeOK
<1>3. CASE Deliver(t)
  <2>1. /\ job[t].key \in Announcements /\ job[t].row \in Transactions
        /\ job[t].call \in Transaction
    BY <1>3 DEF Deliver, At, JobOK, Fits, Transaction
  <2>2. PICK c \in {"commit", "post"}, r \in Transactions :
          /\ Take(t, c, job[t].key, r)
          /\ c = "post" => r.delivery \in Deliveries
    <3> DEFINE d == delivery[job[t].key]
               n == IF d = Nil THEN 1 ELSE Attempted(d)
               r == [row |-> job[t].row.row,
                     delivery |-> [status |-> "pending", attempts |-> n]]
    <3>1. n \in Nat
      BY <2>1, AttemptedTyped DEF TypeOK
    <3>2. r \in Transactions /\ r.delivery \in Deliveries
      BY <2>1, <3>1 DEF Transactions, Deliveries, Statuses
    <3>3. \/ Take(t, "commit", job[t].key, job[t].row)
          \/ Take(t, "post", job[t].key, r)
      BY <1>3 DEF Deliver
    <3> HIDE DEF r
    <3> QED
      BY <2>1, <3>2, <3>3
  <2>3. Fits(c, job[t].key, r) /\ c \in Stages /\ job[t].key \in Keys
    BY <2>1, <2>2 DEF Fits, Stages, Transaction, EditStages, RetryStages, Keys
  <2>4. LockInv'
    BY <1>3, <2>1, <2>2, LockKept DEF Deliver, Take, Transaction, data
  <2> QED
    BY <1>0, <1>3, <2>2, <2>3, <2>4, JobStep, TablesKept DEF Deliver, data, TypeOK
<1>4. CASE Post(t)
  <2>1. /\ job[t].key \in Announcements /\ job[t].row \in Transactions
        /\ job[t].row.delivery \in Deliveries /\ job[t].call \in Transaction
    BY <1>4 DEF Post, At, JobOK, Fits, Transaction
  <2>2. PICK status \in {"sent", "failed"} :
          /\ Answer(job[t].key, status)
          /\ Take(t, "commit", job[t].key, [row |-> job[t].row.row, delivery |->
               [status |-> status, attempts |-> job[t].row.delivery.attempts]])
    BY <1>4 DEF Post
  <2> DEFINE r == [row |-> job[t].row.row, delivery |->
               [status |-> status, attempts |-> job[t].row.delivery.attempts]]
  <2>3. r \in Transactions /\ Take(t, "commit", job[t].key, r)
    BY <2>1, <2>2 DEF Transactions, Deliveries, Statuses
  <2> HIDE DEF r
  <2>4. Fits("commit", job[t].key, r) /\ "commit" \in Stages /\ job[t].key \in Keys
    BY <2>1, <2>3 DEF Fits, Stages, Transaction, EditStages, RetryStages, Keys
  <2>5. LockInv'
    BY <1>4, <2>1, <2>3, LockKept DEF Post, Take, Transaction
  <2>6. TypeOK'
    BY <1>4, <2>1, <2>2, CountedTyped DEF Post, Answer, TypeOK, Live
  <2> QED
    BY <1>0, <1>4, <2>3, <2>4, <2>5, <2>6, JobStep DEF Post
<1>5. CASE Commit(t)
  <2> DEFINE k == job[t].key
             tx == job[t].row
             r == [tx.row EXCEPT !.notified = TRUE]
             d == IF tx.delivery = Nil THEN delivery[k] ELSE tx.delivery
  <2>1. /\ k \in Announcements /\ tx \in Transactions /\ lock[k] = t
        /\ job[t].call \in Transaction
    BY <1>5 DEF Commit, At, JobOK, Fits, LockInv, Transaction
  <2>2. r \in Rows /\ d \in Deliveries \cup {Nil}
    BY <2>1 DEF Transactions, Rows, TypeOK
  <2>3. /\ announcement' = [announcement EXCEPT ![k] = r]
        /\ delivery' = [delivery EXCEPT ![k] = d]
        /\ told' = [told EXCEPT ![k] = Counted(told[k])]
        /\ lock' = [lock EXCEPT ![k] = Nil]
        /\ profile' = k \/ profile' = profile
        /\ Done(t) /\ UNCHANGED <<channel, clock, posted, clients>>
    BY <1>5 DEF Commit
  <2> HIDE DEF k, tx, r, d
  <2>4. TypeOK'
    <3>1. \A l \in Announcements : delivery'[l] # Nil => announcement'[l] \in Rows
      BY <2>1, <2>2, <2>3 DEF TypeOK, Live
    <3>2. profile' \in Announcements => announcement'[profile'] \in Rows
      BY <2>1, <2>2, <2>3, NoKeyNoRow DEF TypeOK, Live
    <3>3. profile' \in Announcements \cup {Nil}
      BY <2>1, <2>3 DEF TypeOK, Live
    <3>4. Counted(told[k]) \in 0..MaxTold
      BY <2>1, CountedTyped DEF TypeOK
    <3> QED
      BY <2>1, <2>2, <2>3, <3>1, <3>2, <3>3, <3>4 DEF TypeOK, Live
  <2>5. LockInv'
    BY <2>1, <2>3, LockGiven
  <2> QED
    BY <1>0, <2>3, <2>4, <2>5, DoneStep
<1> QED
  BY <1>1, <1>2, <1>3, <1>4, <1>5 DEF Dispatching

\* A row is inserted or saved by a call that is then over or goes on to
\* dispatch what it wrote.
LEMMA SaveStep ==
  ASSUME AnnInv, NEW t \in Threads, t \in clients.threads,
         NEW k \in Announcements, NEW r \in Rows,
         job[t].call \notin Transaction,
         announcement' = [announcement EXCEPT ![k] = r],
         profile' = profile \/ profile' = k,
         UNCHANGED <<lock, delivery, channel, clock, told, posted, clients>>,
         UNCHANGED job \/ Done(t) \/ Take(t, "notify", k, Nil)
  PROVE  AnnInv'
<1> USE DEF AnnInv
<1>1. TypeOK'
  BY RowSaved DEF TypeOK
<1>2. CASE UNCHANGED job
  BY <1>1, <1>2 DEF JobOK, Served, LockInv
<1>3. CASE Done(t)
  <2>1. LockInv'
    BY <1>3, LockKept DEF Done, Idle, Transaction
  <2> QED
    BY <1>1, <1>3, <2>1, DoneStep
<1>4. CASE Take(t, "notify", k, Nil)
  <2>1. LockInv'
    BY <1>4, LockKept DEF Take, Transaction
  <2>2. Fits("notify", k, Nil) /\ "notify" \in Stages /\ k \in Keys
    BY DEF Fits, Stages, Transaction, EditStages, RetryStages, Keys
  <2> QED
    BY <1>1, <1>4, <2>1, <2>2, JobStep
<1> QED
  BY <1>2, <1>3, <1>4

\* A call reads, and no table is written.
LEMMA LoadStep ==
  ASSUME AnnInv, NEW t \in Threads, t \in clients.threads, UNCHANGED data,
         job[t].call \notin Transaction,
         NEW c \in Stages \ Transaction, NEW k \in Keys,
         NEW r \in Transactions \cup Copies \cup Deliveries \cup {Nil},
         Fits(c, k, r), Take(t, c, k, r)
  PROVE  AnnInv'
<1> USE DEF AnnInv
<1>1. LockInv'
  BY LockKept DEF Take, data
<1>2. TypeOK' /\ UNCHANGED clients
  BY DEF data, TypeOK, Live
<1> QED
  BY <1>1, <1>2, JobStep

LEMMA IdleStage == Idle.call \notin Transaction
BY DEF Idle, Transaction

LEMMA WriteTypes ==
  ASSUME AnnInv, NEW t \in Threads, Writing(t) PROVE AnnInv'
<1> USE DEF AnnInv
<1>0. t \in clients.threads
  BY Serves
<1>00. job[t] = Idle
  BY DEF Writing, Create, AssistantCreate, EditLoad, Delete, SetChannel,
     IntroLoad, ProfileLoad, Free
<1>1. CASE Create(t)
  <2>1. PICK k \in Announcements, s \in Times \cup {Nil} :
          /\ announcement' = [announcement EXCEPT ![k] = NewRow(s, FALSE)]
          /\ UNCHANGED job \/ Take(t, "notify", k, Nil)
    BY <1>1 DEF Create
  <2> QED
    BY <1>0, <1>00, <1>1, <2>1, IdleStage, NewRowTyped, SaveStep DEF Create
<1>2. CASE AssistantCreate(t)
  <2>1. PICK k \in Announcements, s \in Times \cup {Nil} :
          /\ Unused(k)
          /\ \/ Dispatch(t, k, NewRow(s, FALSE)) /\ UNCHANGED announcement
             \/ /\ announcement' = [announcement EXCEPT ![k] = NewRow(s, FALSE)]
                /\ UNCHANGED <<job, lock>>
    BY <1>2 DEF AssistantCreate
  <2>2. NewRow(s, FALSE) \in Rows /\ lock[k] = Nil
    BY <2>1, NewRowTyped, UnusedFree
  <2>3. CASE Dispatch(t, k, NewRow(s, FALSE)) /\ UNCHANGED announcement
    <3>1. /\ JobOK' /\ Served' /\ LockInv'
          /\ lock' \in [Announcements -> Threads \cup {Nil}]
      BY <1>0, <1>00, <1>2, <2>2, <2>3, IdleStage, DispatchStep DEF AssistantCreate
    <3> QED
      BY <1>2, <2>3, <3>1, TablesKept DEF AssistantCreate
  <2>4. CASE /\ announcement' = [announcement EXCEPT ![k] = NewRow(s, FALSE)]
             /\ UNCHANGED <<job, lock>>
    BY <1>0, <1>00, <1>2, <2>2, <2>4, IdleStage, SaveStep DEF AssistantCreate
  <2> QED
    BY <2>1, <2>3, <2>4
<1>3. CASE EditLoad(t)
  <2>1. PICK c \in EditStages, k \in Live, s \in Times \cup {Nil} :
          Take(t, c, k, [row |-> [announcement[k] EXCEPT !.schedule = s],
                         was_published |-> Published(announcement[k])])
    BY <1>3 DEF EditLoad, EditStages
  <2> DEFINE q == [announcement[k] EXCEPT !.schedule = s]
             w == Published(announcement[k])
             r == [row |-> q, was_published |-> w]
  <2>2. q \in Rows /\ w \in BOOLEAN /\ k \in Announcements
    BY DEF Live, Rows, Published
  <2> HIDE DEF q, w
  <2>3. r \in Copies
    BY <2>2 DEF Copies
  <2>4. Take(t, c, k, r)
    BY <2>1 DEF q, w
  <2> HIDE DEF r
  <2>5. Fits(c, k, r) /\ c \in Stages \ Transaction /\ k \in Keys
    BY <2>2, <2>3 DEF Fits, Stages, Transaction, EditStages, RetryStages, Keys
  <2> QED
    BY <1>0, <1>00, <1>3, <2>3, <2>4, <2>5, IdleStage, LoadStep DEF EditLoad
<1>4. CASE Delete(t)
  <2>1. PICK k \in Live :
          /\ announcement' = [announcement EXCEPT ![k] = Deleted]
          /\ delivery' = [delivery EXCEPT ![k] = Nil]
          /\ profile' = IF profile = k THEN Nil ELSE profile
    BY <1>4 DEF Delete
  <2>2. TypeOK'
    BY <1>4, <2>1, NoKeyNoRow DEF Delete, TypeOK, Live
  <2> QED
    BY <1>4, <2>2 DEF Delete, JobOK, Served, LockInv
<1>5. CASE SetChannel(t)
  BY <1>5 DEF SetChannel, TypeOK, Live, JobOK, Served, LockInv
<1>6. CASE IntroLoad(t) \/ ProfileLoad(t)
  <2>1. PICK c \in {"intro_save", "profile_save"}, k \in Keys :
          Take(t, c, k, Nil) /\ UNCHANGED data
    BY <1>6 DEF IntroLoad, ProfileLoad, Keys, TypeOK, Live
  <2>2. Fits(c, k, Nil) /\ c \in Stages \ Transaction
    BY DEF Fits, Stages, Transaction, EditStages, RetryStages
  <2> QED
    BY <1>0, <1>00, <2>1, <2>2, IdleStage, LoadStep
<1> QED
  BY <1>1, <1>2, <1>3, <1>4, <1>5, <1>6 DEF Writing

LEMMA SaveTypes ==
  ASSUME AnnInv, NEW t \in Threads, Saving(t) PROVE AnnInv'
<1> USE DEF AnnInv
<1>0. t \in clients.threads
  BY Serves
<1>00. job[t].call \notin Transaction
  BY DEF Saving, EditSave, AssistantSave, ProfileSave, IntroPublish,
     IntroRefused, At, Transaction
<1>1. CASE EditSave(t)
  <2>1. job[t].key \in Announcements /\ job[t].row.row \in Rows
    BY <1>1 DEF EditSave, At, JobOK, Fits, EditStages, Copies
  <2> QED
    BY <1>0, <1>00, <1>1, <2>1, SaveStep DEF EditSave
<1>2. CASE AssistantSave(t)
  <2> DEFINE k == job[t].key
             new == job[t].row.row
  <2>1. k \in Announcements /\ new \in Rows
    BY <1>2 DEF AssistantSave, At, JobOK, Fits, EditStages, Copies
  <2>2. /\ lock[k] = Nil
        /\ \/ Dispatch(t, k, new) /\ UNCHANGED announcement
           \/ /\ announcement' = [announcement EXCEPT ![k] = new]
              /\ Done(t) /\ UNCHANGED lock
        /\ UNCHANGED <<delivery, channel, profile, clock, told, posted, clients>>
    BY <1>2 DEF AssistantSave
  <2> HIDE DEF k, new
  <2>3. CASE Dispatch(t, k, new) /\ UNCHANGED announcement
    <3>1. /\ JobOK' /\ Served' /\ LockInv'
          /\ lock' \in [Announcements -> Threads \cup {Nil}]
      BY <1>0, <1>00, <2>1, <2>2, <2>3, DispatchStep
    <3> QED
      BY <2>2, <2>3, <3>1, TablesKept
  <2>4. CASE /\ announcement' = [announcement EXCEPT ![k] = new]
             /\ Done(t) /\ UNCHANGED lock
    BY <1>0, <1>00, <2>1, <2>2, <2>4, SaveStep
  <2> QED
    BY <2>2, <2>3, <2>4
<1>3. CASE ProfileSave(t)
  <2>1. \/ Done(t)
        \/ Take(t, "intro_publish", Nil, Nil)
    BY <1>3 DEF ProfileSave
  <2>2. JobOK' /\ Served'
    <3>1. CASE Done(t)
      BY <1>0, <1>3, <3>1, DoneStep DEF ProfileSave
    <3>2. CASE Take(t, "intro_publish", Nil, Nil)
      <4>1. Fits("intro_publish", Nil, Nil) /\ "intro_publish" \in Stages /\ Nil \in Keys
        BY DEF Fits, Stages, Transaction, EditStages, RetryStages, Keys
      <4> QED
        BY <1>0, <1>3, <3>2, <4>1, JobStep DEF ProfileSave
    <3> QED
      BY <2>1, <3>1, <3>2
  <2>3. LockInv'
    BY <1>00, <1>3, <2>1, LockKept DEF ProfileSave, Take, Done, Idle, Transaction
  <2>4. TypeOK'
    BY <1>3 DEF ProfileSave, TypeOK, Live
  <2> QED
    BY <1>3, <2>2, <2>3, <2>4 DEF ProfileSave
<1>4. CASE IntroPublish(t)
  <2>1. PICK k \in Announcements, s \in Times \cup {Nil} :
          /\ Unused(k)
          /\ \/ Dispatch(t, k, NewRow(s, TRUE)) /\ UNCHANGED <<announcement, profile>>
             \/ /\ announcement' = [announcement EXCEPT ![k] = NewRow(s, TRUE)]
                /\ profile' = k /\ Done(t) /\ UNCHANGED lock
    BY <1>4 DEF IntroPublish
  <2>2. NewRow(s, TRUE) \in Rows /\ lock[k] = Nil
    BY <2>1, NewRowTyped, UnusedFree
  <2>3. CASE Dispatch(t, k, NewRow(s, TRUE)) /\ UNCHANGED <<announcement, profile>>
    <3>1. /\ JobOK' /\ Served' /\ LockInv'
          /\ lock' \in [Announcements -> Threads \cup {Nil}]
      BY <1>0, <1>00, <1>4, <2>2, <2>3, DispatchStep DEF IntroPublish
    <3> QED
      BY <1>4, <2>3, <3>1, TablesKept DEF IntroPublish
  <2>4. CASE /\ announcement' = [announcement EXCEPT ![k] = NewRow(s, TRUE)]
             /\ profile' = k /\ Done(t) /\ UNCHANGED lock
    BY <1>0, <1>00, <1>4, <2>2, <2>4, SaveStep DEF IntroPublish
  <2> QED
    BY <2>1, <2>3, <2>4
<1>5. CASE IntroRefused(t)
  <2>1. LockInv'
    BY <1>00, <1>5, LockKept DEF IntroRefused, Done, Idle, Transaction, data
  <2> QED
    BY <1>0, <1>5, <2>1, DoneStep, TablesKept DEF IntroRefused, data, TypeOK
<1> QED
  BY <1>1, <1>2, <1>3, <1>4, <1>5 DEF Saving

LEMMA RetrySaved ==
  ASSUME AnnInv, NEW t \in Threads, t \in clients.threads,
         job[t].call \in RetryStages, NEW d \in Deliveries, NEW next,
         delivery[job[t].key] # Nil => RetrySave(t, d, next),
         delivery[job[t].key] = Nil => Done(t) /\ UNCHANGED delivery,
         next \in {"none", "retry_post"},
         UNCHANGED <<announcement, lock, channel, profile, clock, told, posted, clients>>
  PROVE  AnnInv'
<1> USE DEF AnnInv
<1>1. job[t].key \in Announcements /\ job[t].call \notin Transaction
  BY DEF JobOK, Fits, RetryStages, Transaction
<1>2. Done(t) \/ Take(t, "retry_post", job[t].key, d)
  BY DEF RetrySave
<1>3. JobOK' /\ Served' /\ LockInv'
  <2>1. CASE Done(t)
    BY <1>1, <2>1, DoneStep, LockKept, IdleStage DEF Done
  <2>2. CASE Take(t, "retry_post", job[t].key, d)
    <3>1. Fits("retry_post", job[t].key, d) /\ "retry_post" \in Stages
      BY <1>1 DEF Fits, Stages, Transaction, EditStages, RetryStages
    <3>2. LockInv'
      BY <1>1, <2>2, LockKept DEF Take, Transaction
    <3> QED
      BY <1>1, <2>2, <3>1, <3>2, JobStep DEF Keys
  <2> QED
    BY <1>2, <2>1, <2>2
<1>4. TypeOK'
  BY <1>1 DEF RetrySave, TypeOK, Live
<1> QED
  BY <1>3, <1>4

LEMMA RetryTypes ==
  ASSUME AnnInv, NEW t \in Threads, Retrying(t) PROVE AnnInv'
<1> USE DEF AnnInv
<1>0. t \in clients.threads
  BY Serves
<1>1. /\ job[t].call \in RetryStages /\ job[t].key \in Announcements
      /\ job[t].row \in Deliveries
  BY DEF Retrying, RetryBegin, RetryPost, RetryEnd, At, JobOK, Fits, RetryStages
<1>2. CASE RetryBegin(t)
  <2> DEFINE n == Attempted(job[t].row)
             d == [status |-> "pending", attempts |-> n]
  <2>1. d \in Deliveries
    BY <1>1, AttemptedTyped DEF Deliveries, Statuses
  <2>2. RetrySave(t, d, "retry_post")
    BY <1>2 DEF RetryBegin
  <2> HIDE DEF d
  <2> QED
    BY <1>0, <1>1, <2>1, <2>2, RetrySaved DEF RetrySave
<1>3. CASE RetryPost(t)
  <2>1. PICK status \in {"sent", "failed"} :
          /\ Answer(job[t].key, status)
          /\ Take(t, "retry_save", job[t].key,
                  [status |-> status, attempts |-> job[t].row.attempts])
    BY <1>3 DEF RetryPost
  <2> DEFINE d == [status |-> status, attempts |-> job[t].row.attempts]
  <2>2. d \in Deliveries /\ Take(t, "retry_save", job[t].key, d)
    BY <1>1, <2>1 DEF Deliveries, Statuses
  <2> HIDE DEF d
  <2>3. Fits("retry_save", job[t].key, d) /\ "retry_save" \in Stages
        /\ job[t].key \in Keys
    BY <1>1, <2>2 DEF Fits, Stages, Transaction, EditStages, RetryStages, Keys
  <2>4. LockInv'
    BY <1>1, <1>3, <2>2, LockKept DEF RetryPost, Take, Transaction, RetryStages
  <2>5. TypeOK'
    BY <1>1, <1>3, <2>1, CountedTyped DEF RetryPost, Answer, TypeOK, Live
  <2> QED
    BY <1>0, <1>3, <2>2, <2>3, <2>4, <2>5, JobStep DEF RetryPost
<1>4. CASE RetryEnd(t)
  <2>1. CASE delivery[job[t].key] = Nil
    BY <1>0, <1>1, <1>4, <2>1, RetrySaved DEF RetryEnd, RetrySave
  <2>2. CASE delivery[job[t].key] # Nil
    <3> DEFINE d == [delivery[job[t].key] EXCEPT !.status = job[t].row.status]
    <3>1. d \in Deliveries
      BY <1>1, <2>2 DEF Deliveries, TypeOK
    <3>2. RetrySave(t, d, "none")
      BY <1>4 DEF RetryEnd
    <3> HIDE DEF d
    <3> QED
      BY <1>0, <1>1, <2>2, <3>1, <3>2, RetrySaved DEF RetrySave
  <2> QED
    BY <2>1, <2>2
<1> QED
  BY <1>2, <1>3, <1>4 DEF Retrying

LEMMA OtherTypes ==
  ASSUME AnnInv, NEW t \in Threads,
         \/ \E k \in Announcements : NotifyDue(t, k) \/ RetryLoad(t, k)
         \/ Rollback(t) \/ Crash(t)
  PROVE  AnnInv'
<1> USE DEF AnnInv
<1>0. t \in clients.threads
  BY Serves
<1>1. CASE \E k \in Announcements : NotifyDue(t, k) \/ RetryLoad(t, k)
  <2>1. PICK k \in Announcements : NotifyDue(t, k) \/ RetryLoad(t, k)
    BY <1>1
  <2>2. PICK c \in {"notify", "retry"}, r \in Deliveries \cup {Nil} :
          /\ Take(t, c, k, r) /\ UNCHANGED data /\ job[t] = Idle
          /\ c = "retry" => r \in Deliveries
    BY <2>1 DEF NotifyDue, RetryLoad, Waiting, TypeOK, Free
  <2>3. Fits(c, k, r) /\ c \in Stages \ Transaction /\ k \in Keys
    BY <2>2 DEF Fits, Stages, Transaction, EditStages, RetryStages, Keys
  <2> QED
    BY <1>0, <2>2, <2>3, IdleStage, LoadStep
<1>2. CASE Rollback(t)
  <2>1. PICK k \in Announcements : lock[k] = t /\ lock' = [lock EXCEPT ![k] = Nil]
    BY <1>2 DEF Rollback
  <2>2. LockInv'
    BY <1>2, <2>1, LockGiven DEF Rollback
  <2>3. lock' \in [Announcements -> Threads \cup {Nil}]
    BY <2>1 DEF TypeOK
  <2> QED
    BY <1>0, <1>2, <2>2, <2>3, DoneStep, TablesKept DEF Rollback
<1>3. CASE Crash(t)
  <2>1. job[t].call \notin Transaction
    BY <1>3 DEF Crash, LockInv, JobOK, Fits
  <2>2. LockInv'
    BY <1>3, <2>1, LockKept, IdleStage DEF Crash, Done, data
  <2> QED
    BY <1>0, <1>3, <2>2, DoneStep, TablesKept DEF Crash, data, TypeOK
<1> QED
  BY <1>1, <1>2, <1>3

LEMMA AnnStep == AnnInv /\ [Next]_vars => AnnInv'
<1> SUFFICES ASSUME AnnInv, [Next]_vars PROVE AnnInv'
  OBVIOUS
<1>1. CASE UNCHANGED vars
  BY <1>1 DEF vars, data, AnnInv, TypeOK, Live, JobOK, Served, LockInv
<1>2. CASE Tick
  <2>1. clock' \in Times
    BY <1>2, AnnouncementConstants DEF Tick, AnnInv, TypeOK, Times
  <2> QED
    BY <1>2, <2>1 DEF Tick, AnnInv, TypeOK, Live, JobOK, Served, LockInv
<1> QED
  BY <1>1, <1>2, DispatchTypes, WriteTypes, SaveTypes, RetryTypes, OtherTypes
     DEF Next

-----------------------------------------------------------------------------
(* What is told is marked, and what is being told was not told before.     *)

LEMMA Alone ==
  ASSUME Served, OneAtATime, NEW t \in Threads, t \in clients.threads,
         NEW u \in Threads, job[u] # Idle
  PROVE  u = t
BY DEF Served, OneAtATime

LEMMA ToldKept ==
  ASSUME AnnInv, ToldInv, NEW t \in Threads, t \in clients.threads,
         UNCHANGED <<told, clients>>, NEW j, job' = [job EXCEPT ![t] = j],
         OneAtATime \/ ~Edited =>
           /\ \A k \in Announcements :
                told[k] # 0 => \/ announcement'[k] = Deleted
                               \/ announcement'[k] \in Rows /\ announcement'[k].notified
           /\ ToldFresh(j, announcement', told)
  PROVE  ToldInv'
<1> SUFFICES ASSUME OneAtATime \/ ~Edited
             PROVE  /\ \A k \in Announcements :
                         /\ told'[k] <= 1
                         /\ told'[k] # 0 =>
                              \/ announcement'[k] = Deleted
                              \/ announcement'[k] \in Rows /\ announcement'[k].notified
                    /\ \A u \in Threads : ToldFresh(job'[u], announcement', told')
  BY DEF ToldInv, OneAtATime, Edited, ToldFresh, Live
<1>1. ASSUME NEW u \in Threads PROVE ToldFresh(job'[u], announcement', told')
  <2>1. CASE u = t
    BY <2>1 DEF AnnInv, JobOK, ToldFresh
  <2>2. CASE u # t
    <3>1. ToldFresh(job[u], announcement, told) /\ job'[u] = job[u]
      BY <2>2 DEF ToldInv, AnnInv, JobOK
    <3>2. job[u].call \notin EditStages
      BY <2>2, <3>1, Alone DEF AnnInv, ToldFresh, Idle, EditStages
    <3> QED
      BY <3>1, <3>2 DEF ToldFresh
  <2> QED
    BY <2>1, <2>2
<1> QED
  BY <1>1 DEF ToldInv

\* Most calls touch neither what is told nor what is marked.
LEMMA ToldQuiet ==
  ASSUME AnnInv, ToldInv, NEW t \in Threads, t \in clients.threads,
         UNCHANGED <<announcement, told, clients>>,
         NEW j, job' = [job EXCEPT ![t] = j],
         j.call \notin Transaction \cup EditStages
  PROVE  ToldInv'
BY ToldKept DEF ToldInv, ToldFresh, Live

\* A dispatch begins.
LEMMA ToldDispatch ==
  ASSUME AnnInv, ToldInv, NEW t \in Threads, t \in clients.threads,
         NEW k \in Announcements, NEW r,
         OneAtATime \/ ~Edited => told[k] = 0,
         Dispatch(t, k, r), UNCHANGED <<announcement, told, clients>>
  PROVE  ToldInv'
<1> DEFINE j == [call |-> "discord", key |-> k, row |-> [row |-> r, delivery |-> Nil]]
<1>1. j.call = "discord" /\ j.key = k /\ job' = [job EXCEPT ![t] = j]
  BY DEF Dispatch, Take
<1> HIDE DEF j
<1> QED
  BY <1>1, ToldKept DEF ToldInv, ToldFresh, Live, EditStages

\* A row is inserted, or saved with the mark it had.
LEMMA ToldSave ==
  ASSUME AnnInv, ToldInv, NEW t \in Threads, t \in clients.threads,
         NEW k \in Announcements, NEW r \in Rows,
         OneAtATime \/ ~Edited =>
           announcement[k] = Nil \/ NotifiedAs(r, announcement[k]),
         announcement' = [announcement EXCEPT ![k] = r], UNCHANGED <<told, clients>>,
         \/ UNCHANGED job /\ job[t] = Idle
         \/ Done(t) \/ Take(t, "notify", k, Nil)
  PROVE  ToldInv'
<1>1. PICK j : /\ job' = [job EXCEPT ![t] = j]
               /\ j.call \notin Transaction \cup EditStages
  <2>1. Idle.call \notin Transaction \cup EditStages
    BY DEF Idle, Transaction, EditStages
  <2>2. UNCHANGED job /\ job[t] = Idle => job' = [job EXCEPT ![t] = Idle]
    BY DEF AnnInv, JobOK
  <2>3. "notify" \notin Transaction \cup EditStages
    BY DEF Transaction, EditStages
  <2> QED
    BY <2>1, <2>2, <2>3 DEF Done, Take
<1>2. ASSUME OneAtATime \/ ~Edited, NEW l \in Announcements, told[l] # 0
      PROVE  \/ announcement'[l] = Deleted
             \/ announcement'[l] \in Rows /\ announcement'[l].notified
  BY <1>2, NoKeyNoRow DEF ToldInv, NotifiedAs, AnnInv, TypeOK, Live
<1> QED
  BY <1>1, <1>2, ToldKept DEF ToldFresh

\* The row that is committed is the one that was read, with the mark.
LEMMA CommitRow ==
  ASSUME AnnInv, NEW t \in Threads, Commit(t)
  PROVE  \E k \in Announcements, r \in Rows :
           /\ k = job[t].key /\ lock[k] = t /\ job[t].call = "commit"
           /\ r.notified /\ r.intro = job[t].row.row.intro
           /\ announcement' = [announcement EXCEPT ![k] = r]
<1> DEFINE q == job[t].row.row
           r == [q EXCEPT !.notified = TRUE]
<1>1. /\ job[t].key \in Announcements /\ lock[job[t].key] = t
      /\ job[t].call = "commit" /\ job[t].row \in Transactions
  BY DEF Commit, At, AnnInv, JobOK, Fits, LockInv, Transaction
<1>2. q \in Rows
  BY <1>1 DEF Transactions
<1>3. announcement' = [announcement EXCEPT ![job[t].key] = r]
  BY DEF Commit
<1> HIDE DEF q
<1>4. r \in Rows /\ r.notified /\ r.intro = q.intro
  BY <1>2 DEF Rows
<1> HIDE DEF r
<1> QED
  BY <1>1, <1>3, <1>4 DEF q

LEMMA DispatchTold ==
  ASSUME AnnInv, ToldInv, NEW t \in Threads, Dispatching(t) PROVE ToldInv'
<1>0. t \in clients.threads
  BY Serves DEF AnnInv
<1>1. CASE Lock(t)
  <2>1. PICK k \in Live :
          ~announcement[k].notified /\ Dispatch(t, k, announcement[k])
    BY <1>1 DEF Lock
  <2>2. k \in Announcements /\ (OneAtATime \/ ~Edited => told[k] = 0)
    BY <2>1, NoKeyNoRow DEF ToldInv, Live
  <2> QED
    BY <1>0, <1>1, <2>1, <2>2, ToldDispatch DEF Lock
<1>2. CASE Skip(t)
  BY <1>0, <1>2, ToldQuiet DEF Skip, Done, Idle, data, Transaction, EditStages
<1>3. CASE Deliver(t) \/ Post(t)
  <2>1. PICK c \in {"commit", "post"} : \E r : Take(t, c, job[t].key, r)
    BY <1>3 DEF Deliver, Post
  <2>1a. PICK r : Take(t, c, job[t].key, r)
    BY <2>1
  <2>2. job[t].call \in Transaction
    BY <1>3 DEF Deliver, Post, At, Transaction
  <2> DEFINE j == [call |-> c, key |-> job[t].key, row |-> r]
  <2>3. /\ j.call \notin EditStages /\ j.key = job[t].key
        /\ job' = [job EXCEPT ![t] = j]
    BY <2>1a DEF Take, EditStages
  <2> HIDE DEF j
  <2>4. OneAtATime \/ ~Edited => told[j.key] = 0
    BY <2>2, <2>3 DEF ToldInv, ToldFresh
  <2>5. UNCHANGED <<announcement, told, clients>>
    BY <1>3 DEF Deliver, Post, data
  <2> QED
    BY <1>0, <2>3, <2>4, <2>5, ToldKept DEF ToldInv, ToldFresh, Live
<1>4. CASE Commit(t)
  <2>1. PICK k \in Announcements, r \in Rows :
          /\ k = job[t].key /\ lock[k] = t /\ job[t].call = "commit"
          /\ r.notified
          /\ announcement' = [announcement EXCEPT ![k] = r]
    BY <1>4, CommitRow
  <2>2. /\ told' = [told EXCEPT ![k] = Counted(told[k])]
        /\ job' = [job EXCEPT ![t] = Idle] /\ UNCHANGED clients
    BY <1>4, <2>1 DEF Commit, Done
  <2> SUFFICES ASSUME OneAtATime \/ ~Edited
               PROVE  /\ \A l \in Announcements :
                           /\ told'[l] <= 1
                           /\ told'[l] # 0 =>
                                \/ announcement'[l] = Deleted
                                \/ announcement'[l] \in Rows /\ announcement'[l].notified
                      /\ \A u \in Threads : ToldFresh(job'[u], announcement', told')
    BY <2>2 DEF ToldInv, OneAtATime, Edited, ToldFresh, Live
  <2>3. told[k] = 0 /\ Counted(told[k]) <= 1
    BY <2>1 DEF ToldInv, ToldFresh, Counted, Transaction
  <2>4. ASSUME NEW l \in Announcements
        PROVE  /\ told'[l] <= 1
               /\ told'[l] # 0 =>
                    \/ announcement'[l] = Deleted
                    \/ announcement'[l] \in Rows /\ announcement'[l].notified
    BY <2>1, <2>2, <2>3 DEF ToldInv, AnnInv, TypeOK, Live
  <2>5. ASSUME NEW u \in Threads PROVE ToldFresh(job'[u], announcement', told')
    <3>1. CASE u = t
      BY <2>2, <3>1 DEF AnnInv, JobOK, ToldFresh, Idle, Transaction, EditStages
    <3>2. CASE u # t
      <4>1. ToldFresh(job[u], announcement, told) /\ job'[u] = job[u]
        BY <2>2, <3>2 DEF ToldInv, AnnInv, JobOK
      <4>2. job[u].call \notin EditStages
        BY <1>0, <3>2, <4>1, Alone DEF AnnInv, ToldFresh, Idle, EditStages
      <4>3. job[u].call \in Transaction => job[u].key # k /\ job[u].key \in Announcements
        BY <2>1, <3>2 DEF AnnInv, LockInv, JobOK, Fits
      <4> QED
        BY <2>2, <4>1, <4>2, <4>3 DEF ToldFresh, AnnInv, TypeOK
    <3> QED
      BY <3>1, <3>2
  <2> QED
    BY <2>4, <2>5
<1> QED
  BY <1>1, <1>2, <1>3, <1>4 DEF Dispatching

\* A transaction that inserts the row it tells of.
LEMMA UntoldUnused ==
  ASSUME ToldInv, NEW k \in Announcements, Unused(k)
  PROVE  OneAtATime \/ ~Edited => told[k] = 0
BY NoKeyNoRow DEF ToldInv, Unused, Live

LEMMA WriteTold ==
  ASSUME AnnInv, ToldInv, NEW t \in Threads, Writing(t) PROVE ToldInv'
<1>0. t \in clients.threads
  BY Serves DEF AnnInv
<1>00. job[t] = Idle
  BY DEF Writing, Create, AssistantCreate, EditLoad, Delete, SetChannel,
     IntroLoad, ProfileLoad, Free
<1>1. CASE Create(t)
  <2>1. PICK k \in Announcements, s \in Times \cup {Nil} :
          /\ announcement[k] = Nil
          /\ announcement' = [announcement EXCEPT ![k] = NewRow(s, FALSE)]
          /\ UNCHANGED job \/ Take(t, "notify", k, Nil)
    BY <1>1 DEF Create, Unused
  <2> QED
    BY <1>0, <1>00, <1>1, <2>1, NewRowTyped, ToldSave DEF Create
<1>2. CASE AssistantCreate(t)
  <2>1. PICK k \in Announcements, s \in Times \cup {Nil} :
          /\ Unused(k)
          /\ \/ Dispatch(t, k, NewRow(s, FALSE)) /\ UNCHANGED announcement
             \/ /\ announcement' = [announcement EXCEPT ![k] = NewRow(s, FALSE)]
                /\ UNCHANGED <<job, lock>>
    BY <1>2 DEF AssistantCreate
  <2>2. CASE Dispatch(t, k, NewRow(s, FALSE)) /\ UNCHANGED announcement
    BY <1>0, <1>2, <2>1, <2>2, UntoldUnused, ToldDispatch DEF AssistantCreate
  <2>3. CASE /\ announcement' = [announcement EXCEPT ![k] = NewRow(s, FALSE)]
             /\ UNCHANGED <<job, lock>>
    BY <1>0, <1>00, <1>2, <2>1, <2>3, NewRowTyped, ToldSave
       DEF AssistantCreate, Unused
  <2> QED
    BY <2>1, <2>2, <2>3
<1>3. CASE EditLoad(t)
  <2>1. PICK c \in EditStages, k \in Live, s \in Times \cup {Nil} :
          /\ c \in clients.calls
          /\ Take(t, c, k, [row |-> [announcement[k] EXCEPT !.schedule = s],
                            was_published |-> Published(announcement[k])])
    BY <1>3 DEF EditLoad, EditStages, Free
  <2> DEFINE q == [announcement[k] EXCEPT !.schedule = s]
             j == [call |-> c, key |-> k, row |->
                     [row |-> q, was_published |-> Published(announcement[k])]]
  <2>2. NotifiedAs(q, announcement[k])
    BY DEF NotifiedAs, Live, Rows
  <2>3. Edited
    BY <2>1 DEF Edited, EditStages
  <2>4. /\ job' = [job EXCEPT ![t] = j]
        /\ j.call \in EditStages /\ j.key = k /\ j.row.row = q
    BY <2>1 DEF Take
  <2> HIDE DEF q, j
  <2>5. j.call \notin Transaction
    BY <2>4 DEF EditStages, Transaction
  <2>6. UNCHANGED <<announcement, told, clients>>
    BY <1>3 DEF EditLoad, data
  <2> QED
    BY <1>0, <2>2, <2>3, <2>4, <2>5, <2>6, ToldKept DEF ToldInv, ToldFresh, Live
<1>4. CASE Delete(t)
  <2>1. PICK k \in Announcements :
          announcement' = [announcement EXCEPT ![k] = Deleted]
    BY <1>4 DEF Delete, Live
  <2>2. job' = [job EXCEPT ![t] = Idle]
    BY <1>4, <1>00 DEF Delete, AnnInv, JobOK
  <2>3. Idle.call \notin Transaction \cup EditStages
    BY DEF Idle, Transaction, EditStages
  <2>4. ASSUME OneAtATime \/ ~Edited, NEW l \in Announcements, told[l] # 0
        PROVE  \/ announcement'[l] = Deleted
               \/ announcement'[l] \in Rows /\ announcement'[l].notified
    BY <2>1, <2>4 DEF AnnInv, TypeOK, ToldInv, Live
  <2>5. ToldFresh(Idle, announcement', told)
    BY <2>3 DEF ToldFresh
  <2>6. UNCHANGED <<told, clients>>
    BY <1>4 DEF Delete
  <2> QED
    BY <1>0, <2>2, <2>4, <2>5, <2>6, ToldKept
<1>5. CASE SetChannel(t)
  <2>1. job' = [job EXCEPT ![t] = Idle]
    BY <1>5, <1>00 DEF SetChannel, AnnInv, JobOK
  <2> QED
    BY <1>0, <1>5, <2>1, ToldQuiet DEF SetChannel, Idle, Transaction, EditStages
<1>6. CASE IntroLoad(t) \/ ProfileLoad(t)
  BY <1>0, <1>6, ToldQuiet
     DEF IntroLoad, ProfileLoad, Take, data, Transaction, EditStages
<1> QED
  BY <1>1, <1>2, <1>3, <1>4, <1>5, <1>6 DEF Writing

LEMMA SaveTold ==
  ASSUME AnnInv, ToldInv, NEW t \in Threads, Saving(t) PROVE ToldInv'
<1>0. t \in clients.threads
  BY Serves DEF AnnInv
<1>1. ASSUME job[t].call \in EditStages
      PROVE  /\ job[t].key \in Announcements /\ job[t].row.row \in Rows
             /\ OneAtATime \/ ~Edited =>
                  NotifiedAs(job[t].row.row, announcement[job[t].key])
  BY <1>1 DEF AnnInv, JobOK, Fits, Copies, ToldInv, ToldFresh
<1>2. CASE EditSave(t)
  <2>1. job[t].call \in EditStages
    BY <1>2 DEF EditSave, At, EditStages
  <2> QED
    BY <1>0, <1>1, <1>2, <2>1, ToldSave DEF EditSave
<1>3. CASE AssistantSave(t)
  <2> DEFINE k == job[t].key
             new == job[t].row.row
  <2>1. /\ k \in Announcements /\ new \in Rows
        /\ OneAtATime \/ ~Edited => NotifiedAs(new, announcement[k])
    BY <1>1, <1>3 DEF AssistantSave, At, EditStages
  <2>2. /\ \/ Dispatch(t, k, new) /\ UNCHANGED announcement /\ ~new.notified
           \/ announcement' = [announcement EXCEPT ![k] = new] /\ Done(t)
        /\ UNCHANGED <<told, clients>>
    BY <1>3 DEF AssistantSave
  <2> HIDE DEF k, new
  <2>3. CASE Dispatch(t, k, new) /\ UNCHANGED announcement /\ ~new.notified
    <3>1. OneAtATime \/ ~Edited => told[k] = 0
      BY <2>1, <2>3, NoKeyNoRow DEF ToldInv, NotifiedAs
    <3> QED
      BY <1>0, <2>1, <2>2, <2>3, <3>1, ToldDispatch
  <2>4. CASE announcement' = [announcement EXCEPT ![k] = new] /\ Done(t)
    BY <1>0, <2>1, <2>2, <2>4, ToldSave
  <2> QED
    BY <2>2, <2>3, <2>4
<1>4. CASE ProfileSave(t)
  BY <1>0, <1>4, ToldQuiet
     DEF ProfileSave, Take, Done, Idle, Transaction, EditStages
<1>5. CASE IntroPublish(t)
  <2>1. PICK k \in Announcements, s \in Times \cup {Nil} :
          /\ Unused(k)
          /\ \/ Dispatch(t, k, NewRow(s, TRUE)) /\ UNCHANGED <<announcement, profile>>
             \/ /\ announcement' = [announcement EXCEPT ![k] = NewRow(s, TRUE)]
                /\ profile' = k /\ Done(t) /\ UNCHANGED lock
    BY <1>5 DEF IntroPublish
  <2>2. CASE Dispatch(t, k, NewRow(s, TRUE)) /\ UNCHANGED <<announcement, profile>>
    BY <1>0, <1>5, <2>1, <2>2, UntoldUnused, ToldDispatch DEF IntroPublish
  <2>3. CASE /\ announcement' = [announcement EXCEPT ![k] = NewRow(s, TRUE)]
             /\ Done(t)
    BY <1>0, <1>5, <2>1, <2>3, NewRowTyped, ToldSave DEF IntroPublish, Unused
  <2> QED
    BY <2>1, <2>2, <2>3
<1>6. CASE IntroRefused(t)
  BY <1>0, <1>6, ToldQuiet DEF IntroRefused, Done, Idle, data, Transaction, EditStages
<1> QED
  BY <1>2, <1>3, <1>4, <1>5, <1>6 DEF Saving

\* The retries and commands, and threads that die, hold copies of deliveries
\* or nothing.
LEMMA OtherJobs ==
  ASSUME AnnInv, NEW t \in Threads,
         \/ Retrying(t)
         \/ \E k \in Announcements : NotifyDue(t, k) \/ RetryLoad(t, k)
         \/ Rollback(t) \/ Crash(t)
  PROVE  /\ UNCHANGED <<announcement, profile, told, clients>>
         /\ \E j : /\ job' = [job EXCEPT ![t] = j]
                   /\ j.call \in RetryStages \cup {"none", "notify"}
<1>1. /\ Idle.call \in RetryStages \cup {"none", "notify"}
      /\ {"retry", "retry_post", "retry_save", "notify"}
           \subseteq RetryStages \cup {"none", "notify"}
  BY DEF Idle, RetryStages
<1>2. CASE Retrying(t)
  <2>1. UNCHANGED <<announcement, profile, told, clients>>
    BY <1>2 DEF Retrying, RetryBegin, RetryPost, RetryEnd, RetrySave
  <2>2. \/ Done(t)
        \/ \E c \in {"retry_post", "retry_save"} : \E r : Take(t, c, job[t].key, r)
    BY <1>2 DEF Retrying, RetryBegin, RetryPost, RetryEnd, RetrySave
  <2> QED
    BY <1>1, <2>1, <2>2 DEF Done, Take
<1>3. CASE \E k \in Announcements : NotifyDue(t, k) \/ RetryLoad(t, k)
  <2>1. PICK k \in Announcements : NotifyDue(t, k) \/ RetryLoad(t, k)
    BY <1>3
  <2>2. Take(t, "notify", k, Nil) \/ Take(t, "retry", k, delivery[k])
    BY <2>1 DEF NotifyDue, RetryLoad
  <2>3. UNCHANGED data
    BY <2>1 DEF NotifyDue, RetryLoad
  <2> QED
    BY <1>1, <2>2, <2>3 DEF data, Take
<1>4. CASE Rollback(t) \/ Crash(t)
  BY <1>1, <1>4 DEF Rollback, Crash, data, Done
<1> QED
  BY <1>2, <1>3, <1>4

LEMMA ToldStep == AnnInv /\ ToldInv /\ [Next]_vars => ToldInv'
<1> SUFFICES ASSUME AnnInv, ToldInv, [Next]_vars PROVE ToldInv'
  OBVIOUS
<1>1. CASE UNCHANGED vars \/ Tick
  BY <1>1 DEF vars, data, Tick, ToldInv, OneAtATime, Edited, ToldFresh, Live
<1>2. ASSUME NEW t \in Threads,
             \/ Retrying(t)
             \/ \E k \in Announcements : NotifyDue(t, k) \/ RetryLoad(t, k)
             \/ Rollback(t) \/ Crash(t)
      PROVE  ToldInv'
  <2>1. t \in clients.threads
    BY <1>2, Serves DEF AnnInv
  <2>2. PICK j : /\ job' = [job EXCEPT ![t] = j]
                 /\ j.call \in RetryStages \cup {"none", "notify"}
    BY <1>2, OtherJobs
  <2>3. j.call \notin Transaction \cup EditStages
    BY <2>2 DEF RetryStages, Transaction, EditStages
  <2> QED
    BY <1>2, <2>1, <2>2, <2>3, OtherJobs, ToldQuiet
<1> QED
  BY <1>1, <1>2, DispatchTold, WriteTold, SaveTold DEF Next

-----------------------------------------------------------------------------
(* The profile points to the one introduction there is.                    *)

LEMMA IdleCall == Idle.call = "none"
BY DEF Idle

LEMMA TakeJob ==
  ASSUME NEW t, NEW c, NEW k, NEW r, Take(t, c, k, r)
  PROVE  \E j : /\ job' = [job EXCEPT ![t] = j]
                /\ j.call = c /\ j.key = k /\ j.row = r
<1> DEFINE j == [call |-> c, key |-> k, row |-> r]
<1>1. /\ job' = [job EXCEPT ![t] = j]
      /\ j.call = c /\ j.key = k /\ j.row = r
  BY DEF Take
<1> HIDE DEF j
<1> QED
  BY <1>1

LEMMA IntroKept ==
  ASSUME AnnInv, IntroInv, NEW t \in Threads, t \in clients.threads,
         UNCHANGED clients, NEW j, job' = [job EXCEPT ![t] = j],
         OneAtATime =>
           /\ \A k \in Announcements :
                announcement'[k] \in Rows /\ announcement'[k].intro => profile' = k
           /\ IntroFresh(j, announcement', profile')
  PROVE  IntroInv'
<1> SUFFICES ASSUME OneAtATime
             PROVE  /\ \A k \in Announcements :
                         announcement'[k] \in Rows /\ announcement'[k].intro =>
                           profile' = k
                    /\ \A u \in Threads : IntroFresh(job'[u], announcement', profile')
  BY DEF IntroInv, OneAtATime, IntroFresh, Live
<1>1. ASSUME NEW u \in Threads PROVE IntroFresh(job'[u], announcement', profile')
  <2>1. CASE u = t
    BY <2>1 DEF AnnInv, JobOK
  <2>2. CASE u # t
    BY <2>2, Alone DEF AnnInv, JobOK, IntroFresh, Idle, Transaction, EditStages
  <2> QED
    BY <2>1, <2>2
<1> QED
  BY <1>1

LEMMA IntroQuiet ==
  ASSUME AnnInv, IntroInv, NEW t \in Threads, t \in clients.threads,
         UNCHANGED <<announcement, profile, clients>>,
         NEW j, job' = [job EXCEPT ![t] = j],
         j.call \in RetryStages \cup {"none", "notify"}
  PROVE  IntroInv'
<1>1. /\ j.call \notin Transaction \cup EditStages
      /\ j.call \notin {"intro_save", "intro_publish", "profile_save"}
  BY DEF RetryStages, Transaction, EditStages
<1> QED
  BY <1>1, IntroKept DEF IntroInv, IntroFresh, Live

LEMMA IntroDispatch ==
  ASSUME AnnInv, IntroInv, NEW t \in Threads, t \in clients.threads,
         NEW k \in Announcements, NEW r,
         OneAtATime /\ r.intro =>
           \/ announcement[k] = Nil /\ profile = Nil
           \/ announcement[k] \in Rows /\ announcement[k].intro,
         Dispatch(t, k, r), UNCHANGED <<announcement, profile, clients>>
  PROVE  IntroInv'
<1> DEFINE j == [call |-> "discord", key |-> k, row |-> [row |-> r, delivery |-> Nil]]
<1>1. /\ j.call = "discord" /\ j.key = k /\ j.row.row = r
      /\ job' = [job EXCEPT ![t] = j]
  BY DEF Dispatch, Take
<1> HIDE DEF j
<1> QED
  BY <1>1, IntroKept DEF IntroInv, IntroFresh, Live, EditStages

LEMMA IntroSave ==
  ASSUME AnnInv, IntroInv, NEW t \in Threads, t \in clients.threads,
         NEW k \in Announcements, NEW r \in Rows,
         OneAtATime =>
           \/ /\ profile' = profile
              /\ r.intro => announcement[k] \in Rows /\ announcement[k].intro
           \/ profile = Nil /\ profile' = k,
         announcement' = [announcement EXCEPT ![k] = r], UNCHANGED clients,
         \/ UNCHANGED job /\ job[t] = Idle
         \/ Done(t) \/ Take(t, "notify", k, Nil)
  PROVE  IntroInv'
<1>1. PICK j : /\ job' = [job EXCEPT ![t] = j]
               /\ j.call \in {"none", "notify"}
  BY DEF Done, Take, Idle, AnnInv, JobOK
<1>2. ASSUME OneAtATime, NEW l \in Announcements,
             announcement'[l] \in Rows, announcement'[l].intro
      PROVE  profile' = l
  BY <1>2, NoKeyNoRow DEF IntroInv, AnnInv, TypeOK, Live
<1> QED
  BY <1>1, <1>2, IntroKept DEF IntroFresh, Transaction, EditStages

LEMMA DispatchIntro ==
  ASSUME AnnInv, IntroInv, NEW t \in Threads, Dispatching(t) PROVE IntroInv'
<1>0. t \in clients.threads
  BY Serves DEF AnnInv
<1>1. CASE Lock(t)
  <2>1. PICK k \in Live : Dispatch(t, k, announcement[k])
    BY <1>1 DEF Lock
  <2> QED
    BY <1>0, <1>1, <2>1, IntroDispatch DEF Lock, Live
<1>2. CASE Skip(t)
  BY <1>0, <1>2, IntroQuiet DEF Skip, Done, Idle, data
<1>3. CASE Deliver(t) \/ Post(t)
  <2>1. PICK c \in {"commit", "post"} :
          \E r : Take(t, c, job[t].key, r) /\ r.row = job[t].row.row
    BY <1>3 DEF Deliver, Post
  <2>1a. PICK r : Take(t, c, job[t].key, r) /\ r.row = job[t].row.row
    BY <2>1
  <2>2. job[t].call \in Transaction
    BY <1>3 DEF Deliver, Post, At, Transaction
  <2> DEFINE j == [call |-> c, key |-> job[t].key, row |-> r]
  <2>3. /\ j.call \in {"commit", "post"} /\ j.key = job[t].key
        /\ j.row.row = job[t].row.row
        /\ job' = [job EXCEPT ![t] = j]
    BY <2>1a DEF Take
  <2> HIDE DEF j
  <2>4. UNCHANGED <<announcement, profile, clients>>
    BY <1>3 DEF Deliver, Post, data
  <2>5. OneAtATime => IntroFresh(j, announcement, profile)
    BY <2>2, <2>3 DEF IntroInv, IntroFresh, EditStages
  <2> QED
    BY <1>0, <2>3, <2>4, <2>5, IntroKept DEF IntroInv, Live
<1>4. CASE Commit(t)
  <2>1. PICK k \in Announcements, r \in Rows :
          /\ k = job[t].key /\ job[t].call = "commit"
          /\ r.intro = job[t].row.row.intro
          /\ announcement' = [announcement EXCEPT ![k] = r]
    BY <1>4, CommitRow
  <2>2. OneAtATime =>
          \/ /\ profile' = profile
             /\ r.intro => announcement[k] \in Rows /\ announcement[k].intro
          \/ profile = Nil /\ profile' = k
    BY <1>4, <2>1, NoKeyNoRow DEF Commit, IntroInv, IntroFresh, Transaction
  <2> QED
    BY <1>0, <1>4, <2>1, <2>2, IntroSave DEF Commit
<1> QED
  BY <1>1, <1>2, <1>3, <1>4 DEF Dispatching

LEMMA NewIntro == \A s, i : NewRow(s, i).intro = i
BY DEF NewRow

LEMMA WriteIntro ==
  ASSUME AnnInv, IntroInv, NEW t \in Threads, Writing(t) PROVE IntroInv'
<1>0. t \in clients.threads
  BY Serves DEF AnnInv
<1>00. job[t] = Idle
  BY DEF Writing, Create, AssistantCreate, EditLoad, Delete, SetChannel,
     IntroLoad, ProfileLoad, Free
<1>1. CASE Create(t)
  <2>1. PICK k \in Announcements, s \in Times \cup {Nil} :
          /\ announcement' = [announcement EXCEPT ![k] = NewRow(s, FALSE)]
          /\ UNCHANGED job \/ Take(t, "notify", k, Nil)
    BY <1>1 DEF Create
  <2> QED
    BY <1>0, <1>00, <1>1, <2>1, NewIntro, NewRowTyped, IntroSave DEF Create
<1>2. CASE AssistantCreate(t)
  <2>1. PICK k \in Announcements, s \in Times \cup {Nil} :
          \/ Dispatch(t, k, NewRow(s, FALSE)) /\ UNCHANGED announcement
          \/ /\ announcement' = [announcement EXCEPT ![k] = NewRow(s, FALSE)]
             /\ UNCHANGED <<job, lock>>
    BY <1>2 DEF AssistantCreate
  <2>2. CASE Dispatch(t, k, NewRow(s, FALSE)) /\ UNCHANGED announcement
    BY <1>0, <1>2, <2>1, <2>2, NewIntro, IntroDispatch DEF AssistantCreate
  <2>3. CASE /\ announcement' = [announcement EXCEPT ![k] = NewRow(s, FALSE)]
             /\ UNCHANGED <<job, lock>>
    BY <1>0, <1>00, <1>2, <2>1, <2>3, NewIntro, NewRowTyped, IntroSave
       DEF AssistantCreate
  <2> QED
    BY <2>1, <2>2, <2>3
<1>3. CASE EditLoad(t)
  <2>1. PICK c \in EditStages, k \in Live, s \in Times \cup {Nil} :
          Take(t, c, k, [row |-> [announcement[k] EXCEPT !.schedule = s],
                         was_published |-> Published(announcement[k])])
    BY <1>3 DEF EditLoad, EditStages
  <2> DEFINE q == [announcement[k] EXCEPT !.schedule = s]
             j == [call |-> c, key |-> k, row |->
                     [row |-> q, was_published |-> Published(announcement[k])]]
  <2>2. announcement[k] \in Rows /\ q.intro = announcement[k].intro
    BY DEF Live, Rows
  <2>3. /\ job' = [job EXCEPT ![t] = j]
        /\ j.call \in EditStages /\ j.key = k /\ j.row.row = q
    BY <2>1 DEF Take
  <2> HIDE DEF q, j
  <2>4. UNCHANGED <<announcement, profile, clients>>
    BY <1>3 DEF EditLoad, data
  <2>5. IntroFresh(j, announcement, profile)
    BY <2>2, <2>3 DEF IntroFresh, EditStages, Transaction
  <2> QED
    BY <1>0, <2>3, <2>4, <2>5, IntroKept DEF IntroInv, Live
<1>4. CASE Delete(t)
  <2>1. PICK k \in Announcements :
          /\ announcement' = [announcement EXCEPT ![k] = Deleted]
          /\ profile' = IF profile = k THEN Nil ELSE profile
    BY <1>4 DEF Delete, Live
  <2>2. job' = [job EXCEPT ![t] = Idle]
    BY <1>4, <1>00 DEF Delete, AnnInv, JobOK
  <2>3. IntroFresh(Idle, announcement', profile')
    BY DEF IntroFresh, Idle, Transaction, EditStages
  <2>4. ASSUME OneAtATime, NEW l \in Announcements,
               announcement'[l] \in Rows, announcement'[l].intro
        PROVE  profile' = l
    BY <2>1, <2>4, NoKeyNoRow DEF AnnInv, TypeOK, IntroInv, Live
  <2>5. UNCHANGED clients
    BY <1>4 DEF Delete
  <2> QED
    BY <1>0, <2>2, <2>3, <2>4, <2>5, IntroKept
<1>5. CASE SetChannel(t)
  <2>1. job' = [job EXCEPT ![t] = Idle]
    BY <1>5, <1>00 DEF SetChannel, AnnInv, JobOK
  <2> QED
    BY <1>0, <1>5, <2>1, IntroQuiet DEF SetChannel, Idle
<1>6. CASE IntroLoad(t) \/ ProfileLoad(t)
  <2>1. PICK j : /\ job' = [job EXCEPT ![t] = j] /\ j.key = profile
                 /\ \/ j.call = "intro_save" /\ profile = Nil
                    \/ j.call = "profile_save"
    <3>1. \/ Take(t, "intro_save", profile, Nil) /\ profile = Nil
          \/ Take(t, "profile_save", profile, Nil)
      BY <1>6 DEF IntroLoad, ProfileLoad
    <3> QED
      BY <3>1, TakeJob
  <2>2. UNCHANGED <<announcement, profile, clients>>
    BY <1>6 DEF IntroLoad, ProfileLoad, data
  <2>3. IntroFresh(j, announcement, profile)
    BY <2>1 DEF IntroFresh, Transaction, EditStages
  <2> QED
    BY <1>0, <2>1, <2>2, <2>3, IntroKept DEF IntroInv, Live
<1> QED
  BY <1>1, <1>2, <1>3, <1>4, <1>5, <1>6 DEF Writing

LEMMA SaveIntro ==
  ASSUME AnnInv, IntroInv, NEW t \in Threads, Saving(t) PROVE IntroInv'
<1>0. t \in clients.threads
  BY Serves DEF AnnInv
<1>1. ASSUME job[t].call \in EditStages
      PROVE  /\ job[t].key \in Announcements /\ job[t].row.row \in Rows
             /\ OneAtATime =>
                  /\ announcement[job[t].key] \in Rows
                  /\ announcement[job[t].key].intro = job[t].row.row.intro
  BY <1>1 DEF AnnInv, JobOK, Fits, Copies, IntroInv, IntroFresh
<1>2. CASE EditSave(t)
  <2>1. job[t].call \in EditStages
    BY <1>2 DEF EditSave, At, EditStages
  <2> QED
    BY <1>0, <1>1, <1>2, <2>1, IntroSave DEF EditSave
<1>3. CASE AssistantSave(t)
  <2> DEFINE k == job[t].key
             new == job[t].row.row
  <2>1. /\ k \in Announcements /\ new \in Rows
        /\ OneAtATime =>
             announcement[k] \in Rows /\ announcement[k].intro = new.intro
    BY <1>1, <1>3 DEF AssistantSave, At, EditStages
  <2>2. /\ \/ Dispatch(t, k, new) /\ UNCHANGED announcement
           \/ announcement' = [announcement EXCEPT ![k] = new] /\ Done(t)
        /\ UNCHANGED <<profile, clients>>
    BY <1>3 DEF AssistantSave
  <2> HIDE DEF k, new
  <2>3. CASE Dispatch(t, k, new) /\ UNCHANGED announcement
    BY <1>0, <2>1, <2>2, <2>3, IntroDispatch
  <2>4. CASE announcement' = [announcement EXCEPT ![k] = new] /\ Done(t)
    BY <1>0, <2>1, <2>2, <2>4, IntroSave
  <2> QED
    BY <2>2, <2>3, <2>4
<1>4. CASE ProfileSave(t)
  <2>1. OneAtATime =>
          job[t].key = profile /\ (At(t, "intro_save") => profile = Nil)
    BY <1>4 DEF ProfileSave, At, IntroInv, IntroFresh
  <2>2. PICK j : /\ job' = [job EXCEPT ![t] = j]
                 /\ \/ j.call = "none"
                    \/ j.call = "intro_publish" /\ j.key = Nil /\ At(t, "intro_save")
    <3>1. CASE Done(t)
      BY <3>1, IdleCall DEF Done
    <3>2. CASE Take(t, "intro_publish", Nil, Nil) /\ At(t, "intro_save")
      BY <3>2, TakeJob
    <3> QED
      BY <1>4, <3>1, <3>2 DEF ProfileSave
  <2>3. OneAtATime => profile' = profile
    BY <1>4, <2>1 DEF ProfileSave
  <2>4. UNCHANGED <<announcement, clients>>
    BY <1>4 DEF ProfileSave
  <2>5. OneAtATime => IntroFresh(j, announcement', profile')
    BY <2>1, <2>2, <2>3 DEF IntroFresh, Transaction, EditStages
  <2> QED
    BY <1>0, <2>2, <2>3, <2>4, <2>5, IntroKept DEF IntroInv, Live
<1>5. CASE IntroPublish(t)
  <2>1. PICK k \in Announcements, s \in Times \cup {Nil} :
          /\ Unused(k)
          /\ \/ Dispatch(t, k, NewRow(s, TRUE)) /\ UNCHANGED <<announcement, profile>>
             \/ /\ announcement' = [announcement EXCEPT ![k] = NewRow(s, TRUE)]
                /\ profile' = k /\ Done(t) /\ UNCHANGED lock
    BY <1>5 DEF IntroPublish
  <2>2. announcement[k] = Nil /\ (OneAtATime => profile = Nil)
    BY <1>5, <2>1 DEF IntroPublish, At, IntroInv, IntroFresh, Unused
  <2>3. CASE Dispatch(t, k, NewRow(s, TRUE)) /\ UNCHANGED <<announcement, profile>>
    BY <1>0, <1>5, <2>2, <2>3, IntroDispatch DEF IntroPublish
  <2>4. CASE /\ announcement' = [announcement EXCEPT ![k] = NewRow(s, TRUE)]
             /\ profile' = k /\ Done(t)
    BY <1>0, <1>5, <2>2, <2>4, NewRowTyped, IntroSave DEF IntroPublish
  <2> QED
    BY <2>1, <2>3, <2>4
<1>6. CASE IntroRefused(t)
  BY <1>0, <1>6, IntroQuiet DEF IntroRefused, Done, Idle, data
<1> QED
  BY <1>2, <1>3, <1>4, <1>5, <1>6 DEF Saving

LEMMA IntroStep == AnnInv /\ IntroInv /\ [Next]_vars => IntroInv'
<1> SUFFICES ASSUME AnnInv, IntroInv, [Next]_vars PROVE IntroInv'
  OBVIOUS
<1>1. CASE UNCHANGED vars \/ Tick
  BY <1>1 DEF vars, data, Tick, IntroInv, OneAtATime, IntroFresh, Live
<1>2. ASSUME NEW t \in Threads,
             \/ Retrying(t)
             \/ \E k \in Announcements : NotifyDue(t, k) \/ RetryLoad(t, k)
             \/ Rollback(t) \/ Crash(t)
      PROVE  IntroInv'
  <2>1. t \in clients.threads
    BY <1>2, Serves DEF AnnInv
  <2> QED
    BY <1>2, <2>1, OtherJobs, IntroQuiet
<1> QED
  BY <1>1, <1>2, DispatchIntro, WriteIntro, SaveIntro DEF Next

-----------------------------------------------------------------------------
(* What was posted has a delivery that says so, or a thread that will.     *)

NoLoss == OneAtATime /\ clients.faults \subseteq {"refused"}

LEMMA PostKept ==
  ASSUME AnnInv, PostInv, NEW t \in Threads, t \in clients.threads,
         UNCHANGED clients, NEW j, job' = [job EXCEPT ![t] = j],
         NoLoss =>
           /\ \A k \in Announcements :
                /\ posted'[k] <= 1
                /\ posted'[k] # 0 => \/ announcement'[k] = Deleted
                                     \/ Sent(delivery'[k])
                                     \/ Telling(j, k)
           /\ PostFresh(j, announcement', delivery', posted')
  PROVE  PostInv'
<1> SUFFICES ASSUME NoLoss
             PROVE  /\ \A k \in Announcements :
                         /\ posted'[k] <= 1
                         /\ posted'[k] # 0 =>
                              \/ announcement'[k] = Deleted
                              \/ Sent(delivery'[k])
                              \/ \E u \in Threads : Telling(job'[u], k)
                    /\ \A u \in Threads :
                         PostFresh(job'[u], announcement', delivery', posted')
  BY DEF PostInv, NoLoss, OneAtATime, PostFresh, Telling, Sent
<1>1. job'[t] = j
  BY DEF AnnInv, JobOK
<1>2. ASSUME NEW u \in Threads
      PROVE  PostFresh(job'[u], announcement', delivery', posted')
  <2>1. CASE u = t
    BY <1>1, <2>1
  <2>2. CASE u # t
    <3>1. job'[u] = Idle
      BY <2>2, Alone DEF AnnInv, JobOK, NoLoss
    <3> QED
      BY <3>1 DEF PostFresh, Idle, Transaction, EditStages, RetryStages
  <2> QED
    BY <2>1, <2>2
<1> QED
  BY <1>1, <1>2

\* The only thread that may be telling is the one that takes the step.
LEMMA WhatIsPosted ==
  ASSUME AnnInv, PostInv, NoLoss, NEW t \in Threads, t \in clients.threads,
         NEW k \in Announcements
  PROVE  /\ posted[k] <= 1
         /\ posted[k] # 0 => \/ announcement[k] = Deleted
                             \/ Sent(delivery[k])
                             \/ Telling(job[t], k)
         /\ PostFresh(job[t], announcement, delivery, posted)
<1>1. ASSUME NEW u \in Threads, Telling(job[u], k) PROVE u = t
  BY <1>1, Alone DEF Telling, Idle, AnnInv, NoLoss
<1> QED
  BY <1>1 DEF PostInv, NoLoss

\* Neither posts nor deliveries change, and no deleted row comes back.
LEMMA PostQuiet ==
  ASSUME AnnInv, PostInv, NEW t \in Threads, t \in clients.threads,
         UNCHANGED <<delivery, posted, clients>>,
         NEW j, job' = [job EXCEPT ![t] = j],
         NoLoss => /\ \A k \in Announcements :
                        announcement[k] = Deleted => announcement'[k] = Deleted
                   /\ PostFresh(j, announcement', delivery, posted),
         job[t].call \notin {"commit", "retry_save"}
  PROVE  PostInv'
<1>1. ASSUME NoLoss, NEW k \in Announcements
      PROVE  /\ posted[k] <= 1
             /\ posted[k] # 0 => announcement'[k] = Deleted \/ Sent(delivery[k])
  BY <1>1, WhatIsPosted DEF Telling
<1> QED
  BY <1>1, PostKept

\* Stages of calls that neither post nor save.
LEMMA FreshStage ==
  ASSUME NEW j, NEW a, NEW d, NEW n,
         j.call \in {"none", "notify", "intro_save", "profile_save", "intro_publish"}
  PROVE  PostFresh(j, a, d, n)
BY DEF PostFresh, Transaction, EditStages, RetryStages

LEMMA PostCalm ==
  ASSUME AnnInv, PostInv, NEW t \in Threads, t \in clients.threads,
         UNCHANGED <<announcement, delivery, posted, clients>>,
         job[t].call \notin {"commit", "retry_save"},
         NEW j, job' = [job EXCEPT ![t] = j],
         j.call \in {"none", "notify", "intro_save", "profile_save", "intro_publish"}
  PROVE  PostInv'
<1>1. PostFresh(j, announcement', delivery, posted)
  BY FreshStage
<1> QED
  BY <1>1, PostQuiet

LEMMA PostDispatch ==
  ASSUME AnnInv, PostInv, NEW t \in Threads, t \in clients.threads,
         NEW k \in Announcements, NEW r,
         NoLoss => announcement[k] # Deleted,
         job[t].call \notin {"commit", "retry_save"},
         Dispatch(t, k, r), UNCHANGED <<announcement, delivery, posted, clients>>
  PROVE  PostInv'
<1> DEFINE j == [call |-> "discord", key |-> k, row |-> [row |-> r, delivery |-> Nil]]
<1>1. /\ j.call = "discord" /\ j.key = k /\ j.row.delivery = Nil
      /\ job' = [job EXCEPT ![t] = j]
  BY DEF Dispatch, Take
<1> HIDE DEF j
<1>2. NoLoss => PostFresh(j, announcement', delivery, posted)
  BY <1>1 DEF PostFresh, EditStages, RetryStages
<1> QED
  BY <1>1, <1>2, PostQuiet

LEMMA PostSave ==
  ASSUME AnnInv, PostInv, NEW t \in Threads, t \in clients.threads,
         NEW k \in Announcements, NEW r \in Rows,
         NoLoss => announcement[k] # Deleted,
         job[t].call \notin {"commit", "retry_save"},
         announcement' = [announcement EXCEPT ![k] = r],
         UNCHANGED <<delivery, posted, clients>>,
         \/ UNCHANGED job /\ job[t] = Idle
         \/ Done(t) \/ Take(t, "notify", k, Nil)
  PROVE  PostInv'
<1>1. PICK j : /\ job' = [job EXCEPT ![t] = j]
               /\ j.call \in {"none", "notify"}
  BY DEF Done, Take, Idle, AnnInv, JobOK
<1>2. PostFresh(j, announcement', delivery, posted)
  BY <1>1, FreshStage
<1>3. NoLoss => \A l \in Announcements :
                  announcement[l] = Deleted => announcement'[l] = Deleted
  BY DEF AnnInv, TypeOK
<1> QED
  BY <1>1, <1>2, <1>3, PostQuiet

LEMMA DispatchPost ==
  ASSUME AnnInv, PostInv, NEW t \in Threads, Dispatching(t) PROVE PostInv'
<1>0. t \in clients.threads
  BY Serves DEF AnnInv
<1>1. CASE Lock(t)
  <2>1. PICK k \in Live : Dispatch(t, k, announcement[k])
    BY <1>1 DEF Lock
  <2>2. k \in Announcements /\ announcement[k] # Deleted
    BY NoKeyNoRow DEF Live
  <2> QED
    BY <1>0, <1>1, <2>1, <2>2, PostDispatch DEF Lock, At
<1>2. CASE Skip(t)
  BY <1>0, <1>2, PostCalm DEF Skip, At, Done, Idle, data
<1>3. CASE Deliver(t)
  <2> DEFINE k == job[t].key
             d == delivery[k]
             q == [row |-> job[t].row.row, delivery |->
                    [status |-> "pending", attempts |->
                       IF d = Nil THEN 1 ELSE Attempted(d)]]
  <2>1. /\ k \in Announcements /\ job[t].call = "discord"
        /\ \/ Take(t, "commit", k, job[t].row)
           \/ Take(t, "post", k, q) /\ (d # Nil => d.status # "sent")
        /\ UNCHANGED <<announcement, delivery, posted, clients>>
    BY <1>3 DEF Deliver, At, AnnInv, JobOK, Fits, Transaction, data
  <2>2. PICK j : /\ job' = [job EXCEPT ![t] = j] /\ j.key = k
                 /\ \/ j.call = "commit" /\ j.row = job[t].row
                    \/ j.call = "post" /\ ~Sent(d)
    <3>1. CASE Take(t, "commit", k, job[t].row)
      BY <3>1, TakeJob
    <3>2. CASE Take(t, "post", k, q) /\ (d # Nil => d.status # "sent")
      <4> HIDE DEF q
      <4> QED
        BY <3>2, TakeJob DEF Sent
    <3> QED
      BY <2>1, <3>1, <3>2
  <2> HIDE DEF q, k, d
  <2>3. ASSUME NoLoss PROVE PostFresh(j, announcement', delivery, posted)
    <3>1. /\ PostFresh(job[t], announcement, delivery, posted)
          /\ posted[k] # 0 => announcement[k] = Deleted \/ Sent(delivery[k])
      BY <1>0, <2>1, <2>3, WhatIsPosted DEF Telling
    <3>2. announcement[k] # Deleted /\ job[t].row.delivery = Nil
      BY <2>1, <3>1 DEF PostFresh, Transaction, k
    <3> QED
      BY <2>1, <2>2, <3>1, <3>2 DEF PostFresh, EditStages, RetryStages, d
  <2> QED
    BY <1>0, <2>1, <2>2, <2>3, PostQuiet
<1>4. CASE Post(t)
  <2>1. /\ job[t].key \in Announcements /\ job[t].call = "post"
        /\ UNCHANGED <<announcement, delivery, clients>>
    BY <1>4 DEF Post, At, AnnInv, JobOK, Fits, Transaction
  <2>2. PICK status \in {"sent", "failed"} :
          /\ Answer(job[t].key, status)
          /\ Take(t, "commit", job[t].key, [row |-> job[t].row.row, delivery |->
               [status |-> status, attempts |-> job[t].row.delivery.attempts]])
    BY <1>4 DEF Post
  <2> DEFINE e == [status |-> status, attempts |-> job[t].row.delivery.attempts]
             q == [row |-> job[t].row.row, delivery |-> e]
  <2>3. e.status = status /\ q.delivery = e /\ Take(t, "commit", job[t].key, q)
    BY <2>2
  <2>4. e # Nil
    <3>1. e \in Deliveries
      BY <1>4 DEF Post, At, AnnInv, JobOK, Fits, Transaction, Deliveries, Statuses
    <3> QED
      BY <3>1, NoKeyNoRow
  <2> HIDE DEF e, q
  <2>5. PICK j : /\ job' = [job EXCEPT ![t] = j] /\ j.call = "commit"
                 /\ j.key = job[t].key /\ j.row = q
    BY <2>3, TakeJob
  <2>6. ASSUME NoLoss
        PROVE  /\ \A k \in Announcements :
                    /\ posted'[k] <= 1
                    /\ posted'[k] # 0 => \/ announcement'[k] = Deleted
                                         \/ Sent(delivery'[k])
                                         \/ Telling(j, k)
               /\ PostFresh(j, announcement', delivery', posted')
    <3>1. posted[job[t].key] = 0 /\ announcement[job[t].key] # Deleted
      BY <1>0, <2>1, <2>6, WhatIsPosted DEF PostFresh, Transaction
    <3>2. \A k \in Announcements :
            /\ posted[k] <= 1
            /\ posted[k] # 0 => announcement[k] = Deleted \/ Sent(delivery[k])
      BY <1>0, <2>1, <2>6, WhatIsPosted DEF Telling
    <3>3. \/ status = "sent" /\ posted' = [posted EXCEPT ![job[t].key] = Counted(@)]
          \/ status = "failed" /\ UNCHANGED posted
      BY <2>2, <2>6 DEF Answer, Fault, NoLoss
    <3>4. Counted(0) <= 1
      BY DEF Counted
    <3>5. CASE status = "sent" /\ posted' = [posted EXCEPT ![job[t].key] = Counted(@)]
      <4>1. Sent(j.row.delivery) /\ Telling(j, job[t].key)
        BY <2>3, <2>4, <2>5, <3>5 DEF Sent, Telling
      <4>2. ASSUME NEW k \in Announcements
            PROVE  /\ posted'[k] <= 1
                   /\ posted'[k] # 0 => \/ announcement'[k] = Deleted
                                        \/ Sent(delivery'[k])
                                        \/ Telling(j, k)
        BY <2>1, <3>1, <3>2, <3>4, <3>5, <4>1 DEF AnnInv, TypeOK
      <4> QED
        BY <2>1, <2>5, <3>1, <4>1, <4>2 DEF PostFresh, EditStages, RetryStages
    <3>6. CASE status = "failed" /\ UNCHANGED posted
      BY <2>1, <2>5, <3>1, <3>2, <3>6 DEF PostFresh, EditStages, RetryStages
    <3> QED
      BY <3>3, <3>5, <3>6
  <2> QED
    BY <1>0, <2>1, <2>5, <2>6, PostKept
<1>5. CASE Commit(t)
  <2>1. PICK k \in Announcements, r \in Rows :
          /\ k = job[t].key /\ job[t].call = "commit"
          /\ announcement' = [announcement EXCEPT ![k] = r]
    BY <1>5, CommitRow
  <2> DEFINE e == job[t].row.delivery
  <2>2. /\ delivery' = [delivery EXCEPT ![k] = IF e = Nil THEN delivery[k] ELSE e]
        /\ job' = [job EXCEPT ![t] = Idle] /\ UNCHANGED <<posted, clients>>
    BY <1>5, <2>1 DEF Commit, Done
  <2>3. ASSUME NoLoss, NEW l \in Announcements
        PROVE  /\ posted'[l] <= 1
               /\ posted'[l] # 0 => announcement'[l] = Deleted \/ Sent(delivery'[l])
    <3>1. /\ posted[l] <= 1
          /\ posted[l] # 0 => \/ announcement[l] = Deleted
                              \/ Sent(delivery[l])
                              \/ Telling(job[t], l)
          /\ PostFresh(job[t], announcement, delivery, posted)
      BY <1>0, <2>3, WhatIsPosted
    <3>2. CASE l = k
      <4>1. announcement[k] # Deleted /\ (e # Nil /\ ~Sent(e) => posted[k] = 0)
        BY <2>1, <3>1 DEF PostFresh, Transaction
      <4>2. delivery'[k] = IF e = Nil THEN delivery[k] ELSE e
        BY <2>2 DEF AnnInv, TypeOK
      <4> QED
        BY <2>1, <2>2, <3>1, <3>2, <4>1, <4>2 DEF Telling, Sent
    <3>3. CASE l # k
      BY <2>1, <2>2, <3>1, <3>3 DEF Telling, AnnInv, TypeOK
    <3> QED
      BY <3>2, <3>3
  <2>4. PostFresh(Idle, announcement', delivery', posted')
    BY FreshStage DEF Idle
  <2> QED
    BY <1>0, <2>2, <2>3, <2>4, PostKept
<1> QED
  BY <1>1, <1>2, <1>3, <1>4, <1>5 DEF Dispatching

LEMMA WritePost ==
  ASSUME AnnInv, PostInv, NEW t \in Threads, Writing(t) PROVE PostInv'
<1>0. t \in clients.threads
  BY Serves DEF AnnInv
<1>00. job[t] = Idle /\ job[t].call \notin {"commit", "retry_save"}
  <2>1. job[t] = Idle
    BY DEF Writing, Create, AssistantCreate, EditLoad, Delete, SetChannel,
       IntroLoad, ProfileLoad, Free
  <2> QED
    BY <2>1, IdleCall
<1>1. CASE Create(t)
  <2>1. PICK k \in Announcements, s \in Times \cup {Nil} :
          /\ announcement[k] = Nil
          /\ announcement' = [announcement EXCEPT ![k] = NewRow(s, FALSE)]
          /\ UNCHANGED job \/ Take(t, "notify", k, Nil)
    BY <1>1 DEF Create, Unused
  <2> QED
    BY <1>0, <1>00, <1>1, <2>1, NoKeyNoRow, NewRowTyped, PostSave DEF Create
<1>2. CASE AssistantCreate(t)
  <2>1. PICK k \in Announcements, s \in Times \cup {Nil} :
          /\ announcement[k] = Nil
          /\ \/ Dispatch(t, k, NewRow(s, FALSE)) /\ UNCHANGED announcement
             \/ /\ announcement' = [announcement EXCEPT ![k] = NewRow(s, FALSE)]
                /\ UNCHANGED <<job, lock>>
    BY <1>2 DEF AssistantCreate, Unused
  <2>2. CASE Dispatch(t, k, NewRow(s, FALSE)) /\ UNCHANGED announcement
    BY <1>0, <1>00, <1>2, <2>1, <2>2, NoKeyNoRow, PostDispatch DEF AssistantCreate
  <2>3. CASE /\ announcement' = [announcement EXCEPT ![k] = NewRow(s, FALSE)]
             /\ UNCHANGED <<job, lock>>
    BY <1>0, <1>00, <1>2, <2>1, <2>3, NoKeyNoRow, NewRowTyped, PostSave
       DEF AssistantCreate
  <2> QED
    BY <2>1, <2>2, <2>3
<1>3. CASE EditLoad(t)
  <2>1. PICK c \in EditStages, k \in Live : \E r : Take(t, c, k, r)
    BY <1>3 DEF EditLoad, EditStages
  <2>2. PICK j : job' = [job EXCEPT ![t] = j] /\ j.call = c /\ j.key = k
    BY <2>1, TakeJob
  <2>3. UNCHANGED <<announcement, delivery, posted, clients>>
    BY <1>3 DEF EditLoad, data
  <2>4. PostFresh(j, announcement, delivery, posted)
    BY <2>2 DEF PostFresh, Live, EditStages, Transaction, RetryStages
  <2> QED
    BY <1>0, <1>00, <2>2, <2>3, <2>4, PostQuiet
<1>4. CASE Delete(t)
  <2>1. PICK k \in Announcements :
          /\ announcement' = [announcement EXCEPT ![k] = Deleted]
          /\ delivery' = [delivery EXCEPT ![k] = Nil]
    BY <1>4 DEF Delete, Live
  <2>2. job' = [job EXCEPT ![t] = Idle]
    BY <1>4, <1>00 DEF Delete, AnnInv, JobOK
  <2>3. UNCHANGED <<posted, clients>>
    BY <1>4 DEF Delete
  <2>4. ASSUME NoLoss, NEW l \in Announcements
        PROVE  /\ posted'[l] <= 1
               /\ posted'[l] # 0 => announcement'[l] = Deleted \/ Sent(delivery'[l])
    <3>1. /\ posted[l] <= 1
          /\ posted[l] # 0 => announcement[l] = Deleted \/ Sent(delivery[l])
      BY <1>0, <1>00, <2>4, WhatIsPosted DEF Telling
    <3> QED
      BY <2>1, <2>3, <3>1 DEF AnnInv, TypeOK
  <2>5. PostFresh(Idle, announcement', delivery', posted')
    BY FreshStage DEF Idle
  <2> QED
    BY <1>0, <2>2, <2>3, <2>4, <2>5, PostKept
<1>5. CASE SetChannel(t)
  <2>1. job' = [job EXCEPT ![t] = Idle]
    BY <1>5, <1>00 DEF SetChannel, AnnInv, JobOK
  <2> QED
    BY <1>0, <1>00, <1>5, <2>1, PostCalm DEF SetChannel, Idle
<1>6. CASE IntroLoad(t) \/ ProfileLoad(t)
  <2>1. PICK c \in {"intro_save", "profile_save"} : Take(t, c, profile, Nil)
    BY <1>6 DEF IntroLoad, ProfileLoad
  <2>2. PICK j : job' = [job EXCEPT ![t] = j] /\ j.call = c
    BY <2>1, TakeJob
  <2>3. UNCHANGED <<announcement, delivery, posted, clients>>
    BY <1>6 DEF IntroLoad, ProfileLoad, data
  <2> QED
    BY <1>0, <1>00, <2>2, <2>3, PostCalm
<1> QED
  BY <1>1, <1>2, <1>3, <1>4, <1>5, <1>6 DEF Writing

LEMMA SavePost ==
  ASSUME AnnInv, PostInv, NEW t \in Threads, Saving(t) PROVE PostInv'
<1>0. t \in clients.threads
  BY Serves DEF AnnInv
<1>00. job[t].call \notin {"commit", "retry_save"}
  BY DEF Saving, EditSave, AssistantSave, ProfileSave, IntroPublish,
     IntroRefused, At
<1>1. ASSUME job[t].call \in EditStages
      PROVE  /\ job[t].key \in Announcements /\ job[t].row.row \in Rows
             /\ NoLoss => announcement[job[t].key] # Deleted
  BY <1>1, NoKeyNoRow DEF AnnInv, JobOK, Fits, Copies, PostInv, PostFresh, NoLoss
<1>2. CASE EditSave(t)
  <2>1. job[t].call \in EditStages
    BY <1>2 DEF EditSave, At, EditStages
  <2> QED
    BY <1>0, <1>00, <1>1, <1>2, <2>1, PostSave DEF EditSave
<1>3. CASE AssistantSave(t)
  <2> DEFINE k == job[t].key
             new == job[t].row.row
  <2>1. /\ k \in Announcements /\ new \in Rows
        /\ NoLoss => announcement[k] # Deleted
    BY <1>1, <1>3 DEF AssistantSave, At, EditStages
  <2>2. /\ \/ Dispatch(t, k, new) /\ UNCHANGED announcement
           \/ announcement' = [announcement EXCEPT ![k] = new] /\ Done(t)
        /\ UNCHANGED <<delivery, posted, clients>>
    BY <1>3 DEF AssistantSave
  <2> HIDE DEF k, new
  <2>3. CASE Dispatch(t, k, new) /\ UNCHANGED announcement
    BY <1>0, <1>00, <2>1, <2>2, <2>3, PostDispatch
  <2>4. CASE announcement' = [announcement EXCEPT ![k] = new] /\ Done(t)
    BY <1>0, <1>00, <2>1, <2>2, <2>4, PostSave
  <2> QED
    BY <2>2, <2>3, <2>4
<1>4. CASE ProfileSave(t)
  <2>1. Done(t) \/ Take(t, "intro_publish", Nil, Nil)
    BY <1>4 DEF ProfileSave
  <2>2. PICK j : /\ job' = [job EXCEPT ![t] = j]
                 /\ j.call \in {"none", "intro_publish"}
    <3>1. CASE Done(t)
      BY <3>1, IdleCall DEF Done
    <3>2. CASE Take(t, "intro_publish", Nil, Nil)
      BY <3>2, TakeJob
    <3> QED
      BY <2>1, <3>1, <3>2
  <2> QED
    BY <1>0, <1>00, <1>4, <2>2, PostCalm DEF ProfileSave
<1>5. CASE IntroPublish(t)
  <2>1. PICK k \in Announcements, s \in Times \cup {Nil} :
          /\ announcement[k] = Nil
          /\ \/ Dispatch(t, k, NewRow(s, TRUE)) /\ UNCHANGED <<announcement, profile>>
             \/ /\ announcement' = [announcement EXCEPT ![k] = NewRow(s, TRUE)]
                /\ profile' = k /\ Done(t) /\ UNCHANGED lock
    BY <1>5 DEF IntroPublish, Unused
  <2>2. CASE Dispatch(t, k, NewRow(s, TRUE)) /\ UNCHANGED <<announcement, profile>>
    BY <1>0, <1>00, <1>5, <2>1, <2>2, NoKeyNoRow, PostDispatch DEF IntroPublish
  <2>3. CASE /\ announcement' = [announcement EXCEPT ![k] = NewRow(s, TRUE)]
             /\ Done(t)
    BY <1>0, <1>00, <1>5, <2>1, <2>3, NoKeyNoRow, NewRowTyped, PostSave DEF IntroPublish
  <2> QED
    BY <2>1, <2>2, <2>3
<1>6. CASE IntroRefused(t)
  BY <1>0, <1>00, <1>6, PostCalm DEF IntroRefused, Done, Idle, data
<1> QED
  BY <1>2, <1>3, <1>4, <1>5, <1>6 DEF Saving

LEMMA RetryPosts ==
  ASSUME AnnInv, PostInv, NEW t \in Threads, Retrying(t) PROVE PostInv'
<1>0. t \in clients.threads
  BY Serves DEF AnnInv
<1> DEFINE k == job[t].key
<1>1. /\ job[t].call \in RetryStages /\ k \in Announcements
      /\ job[t].row \in Deliveries
      /\ UNCHANGED <<announcement, clients>>
  BY DEF Retrying, RetryBegin, RetryPost, RetryEnd, RetrySave, At, AnnInv, JobOK,
     Fits, RetryStages
<1>2. ASSUME NoLoss
      PROVE  /\ delivery[k] # Nil
             /\ job[t].call # "retry_save" => posted[k] = 0
             /\ job[t].call = "retry_save" /\ job[t].row.status # "sent"
                  => posted[k] = 0
  BY <1>0, <1>1, <1>2, WhatIsPosted DEF PostFresh, RetryStages
<1>3. CASE RetryBegin(t)
  <2> DEFINE d == [status |-> "pending", attempts |-> Attempted(job[t].row)]
  <2>1. /\ job[t].call = "retry" /\ UNCHANGED posted
        /\ \/ delivery[k] = Nil /\ Done(t) /\ UNCHANGED delivery
           \/ /\ delivery' = [delivery EXCEPT ![k] = d]
              /\ Take(t, "retry_post", k, d)
    BY <1>3 DEF RetryBegin, RetrySave, At
  <2>2. d # Nil
    <3>1. d \in Deliveries
      BY <1>1, AttemptedTyped DEF Deliveries, Statuses
    <3> QED
      BY <3>1, NoKeyNoRow
  <2> HIDE DEF d, k
  <2>3. CASE delivery[k] = Nil /\ Done(t) /\ UNCHANGED delivery
    BY <1>0, <1>1, <2>1, <2>3, PostCalm DEF Done, Idle
  <2>4. CASE /\ delivery' = [delivery EXCEPT ![k] = d]
             /\ Take(t, "retry_post", k, d)
    <3>1. PICK j : job' = [job EXCEPT ![t] = j] /\ j.call = "retry_post" /\ j.key = k
      BY <2>4, TakeJob
    <3>2. delivery'[k] = d
      BY <1>1, <2>4 DEF AnnInv, TypeOK
    <3>3. ASSUME NoLoss PROVE PostFresh(j, announcement', delivery', posted')
      BY <1>2, <2>1, <2>2, <3>1, <3>2, <3>3
         DEF PostFresh, Transaction, EditStages
    <3>4. ASSUME NoLoss, NEW l \in Announcements
          PROVE  /\ posted'[l] <= 1
                 /\ posted'[l] # 0 => announcement'[l] = Deleted \/ Sent(delivery'[l])
      <4>1. /\ posted[l] <= 1
            /\ posted[l] # 0 => announcement[l] = Deleted \/ Sent(delivery[l])
        BY <1>0, <2>1, <3>4, WhatIsPosted DEF Telling
      <4> QED
        BY <1>1, <1>2, <2>1, <2>4, <3>4, <4>1 DEF AnnInv, TypeOK
    <3> QED
      BY <1>0, <1>1, <3>1, <3>3, <3>4, PostKept
  <2> QED
    BY <2>1, <2>3, <2>4
<1>4. CASE RetryPost(t)
  <2>1. PICK status \in {"sent", "failed"} :
          /\ Answer(k, status)
          /\ Take(t, "retry_save", k,
                  [status |-> status, attempts |-> job[t].row.attempts])
    BY <1>4 DEF RetryPost
  <2>2. job[t].call = "retry_post" /\ UNCHANGED delivery
    BY <1>4 DEF RetryPost, At
  <2>3. PICK j : /\ job' = [job EXCEPT ![t] = j] /\ j.call = "retry_save"
                 /\ j.key = k /\ j.row.status = status
    BY <2>1, TakeJob
  <2> HIDE DEF k
  <2>4. ASSUME NoLoss
        PROVE  /\ \A l \in Announcements :
                    /\ posted'[l] <= 1
                    /\ posted'[l] # 0 => \/ announcement'[l] = Deleted
                                         \/ Sent(delivery'[l])
                                         \/ Telling(j, l)
               /\ PostFresh(j, announcement', delivery', posted')
    <3>1. posted[k] = 0 /\ delivery[k] # Nil
      BY <1>2, <2>2, <2>4
    <3>2. \A l \in Announcements :
            /\ posted[l] <= 1
            /\ posted[l] # 0 => announcement[l] = Deleted \/ Sent(delivery[l])
      BY <1>0, <2>2, <2>4, WhatIsPosted DEF Telling
    <3>3. \/ status = "sent" /\ posted' = [posted EXCEPT ![k] = Counted(@)]
          \/ status = "failed" /\ UNCHANGED posted
      BY <2>1, <2>4 DEF Answer, Fault, NoLoss
    <3>4. Counted(0) <= 1
      BY DEF Counted
    <3>5. CASE status = "sent" /\ posted' = [posted EXCEPT ![k] = Counted(@)]
      <4>1. Telling(j, k)
        BY <2>3, <3>5 DEF Telling
      <4>2. ASSUME NEW l \in Announcements
            PROVE  /\ posted'[l] <= 1
                   /\ posted'[l] # 0 => \/ announcement'[l] = Deleted
                                        \/ Sent(delivery'[l])
                                        \/ Telling(j, l)
        BY <1>1, <2>2, <3>1, <3>2, <3>4, <3>5, <4>1 DEF AnnInv, TypeOK
      <4> QED
        BY <2>2, <2>3, <3>1, <3>5, <4>2 DEF PostFresh, EditStages, Transaction
    <3>6. CASE status = "failed" /\ UNCHANGED posted
      BY <1>1, <2>2, <2>3, <3>1, <3>2, <3>6 DEF PostFresh, EditStages, Transaction
    <3> QED
      BY <3>3, <3>5, <3>6
  <2> QED
    BY <1>0, <1>1, <2>3, <2>4, PostKept
<1>5. CASE RetryEnd(t)
  <2> DEFINE d == [delivery[k] EXCEPT !.status = job[t].row.status]
  <2>1. /\ job[t].call = "retry_save" /\ UNCHANGED posted /\ Done(t)
        /\ delivery[k] # Nil => delivery' = [delivery EXCEPT ![k] = d]
    BY <1>5 DEF RetryEnd, RetrySave, At
  <2>2. ASSUME NoLoss, NEW l \in Announcements
        PROVE  /\ posted'[l] <= 1
               /\ posted'[l] # 0 => announcement'[l] = Deleted \/ Sent(delivery'[l])
    <3>1. /\ posted[l] <= 1
          /\ posted[l] # 0 => \/ announcement[l] = Deleted
                              \/ Sent(delivery[l])
                              \/ Telling(job[t], l)
      BY <1>0, <2>2, WhatIsPosted
    <3>2. delivery[k] \in Deliveries /\ delivery' = [delivery EXCEPT ![k] = d]
      BY <1>1, <1>2, <2>1, <2>2 DEF AnnInv, TypeOK
    <3>3. d.status = job[t].row.status /\ d # Nil
      <4>1. d \in Deliveries /\ d.status = job[t].row.status
        BY <1>1, <3>2 DEF Deliveries
      <4> QED
        BY <4>1, NoKeyNoRow
    <3> HIDE DEF d
    <3>4. CASE l = k
      BY <1>1, <1>2, <2>1, <2>2, <3>1, <3>2, <3>3, <3>4 DEF Sent, AnnInv, TypeOK
    <3>5. CASE l # k
      BY <1>1, <2>1, <3>1, <3>2, <3>5 DEF Telling, AnnInv, TypeOK
    <3> QED
      BY <3>4, <3>5
  <2>3. PostFresh(Idle, announcement', delivery', posted')
    BY FreshStage DEF Idle
  <2> QED
    BY <1>0, <1>1, <2>1, <2>2, <2>3, PostKept DEF Done
<1> QED
  BY <1>3, <1>4, <1>5 DEF Retrying

LEMMA OtherPosts ==
  ASSUME AnnInv, PostInv, NEW t \in Threads,
         \/ \E k \in Announcements : NotifyDue(t, k) \/ RetryLoad(t, k)
         \/ Rollback(t) \/ Crash(t)
  PROVE  PostInv'
<1>0. t \in clients.threads
  BY Serves DEF AnnInv
<1>1. CASE \E k \in Announcements : NotifyDue(t, k)
  <2>1. PICK k \in Announcements :
          Take(t, "notify", k, Nil) /\ UNCHANGED data /\ job[t] = Idle
    BY <1>1 DEF NotifyDue, Free
  <2> QED
    BY <1>0, <2>1, TakeJob, PostCalm DEF data, Idle
<1>2. CASE \E k \in Announcements : RetryLoad(t, k)
  <2>1. PICK k \in Announcements :
          /\ Take(t, "retry", k, delivery[k]) /\ UNCHANGED data /\ job[t] = Idle
          /\ delivery[k] # Nil /\ ~Sent(delivery[k])
    BY <1>2 DEF RetryLoad, Free, Waiting, Sent
  <2>2. PICK j : job' = [job EXCEPT ![t] = j] /\ j.call = "retry" /\ j.key = k
    BY <2>1, TakeJob
  <2>3. announcement[k] # Deleted
    BY <2>1, NoKeyNoRow DEF AnnInv, TypeOK, Live
  <2>4. ASSUME NoLoss PROVE PostFresh(j, announcement, delivery, posted)
    <3>1. posted[k] = 0
      BY <1>0, <2>1, <2>3, <2>4, WhatIsPosted DEF Telling, Idle
    <3> QED
      BY <2>1, <2>2, <3>1 DEF PostFresh, Transaction, EditStages
  <2>5. job[t].call \notin {"commit", "retry_save"}
    BY <2>1 DEF Idle
  <2> QED
    BY <1>0, <2>1, <2>2, <2>4, <2>5, PostQuiet DEF data
<1>3. CASE Rollback(t) \/ Crash(t)
  BY <1>3 DEF Rollback, Crash, Fault, data, PostInv
<1> QED
  BY <1>1, <1>2, <1>3

LEMMA PostStep == AnnInv /\ PostInv /\ [Next]_vars => PostInv'
<1> SUFFICES ASSUME AnnInv, PostInv, [Next]_vars PROVE PostInv'
  OBVIOUS
<1>1. CASE UNCHANGED vars \/ Tick
  BY <1>1 DEF vars, data, Tick, PostInv, OneAtATime, PostFresh, Telling, Sent
<1> QED
  BY <1>1, DispatchPost, WritePost, SavePost, RetryPosts, OtherPosts DEF Next

-----------------------------------------------------------------------------
\* Whatever publishes, edits, introduces, deletes, retries and dies, for any
\* number of announcements and threads: the tables keep their shape; what is told
\* is told once, by one client or by any number of clients that do not edit; one
\* client that loses no answer posts it once; and one client introduces the
\* employee once.
THEOREM AnnouncedOnceHolds == Spec => []AnnouncedOnce
<1>1. AnnInv /\ ToldInv => ToldOnce
  BY DEF ToldInv, ToldOnce
<1>2. AnnInv /\ PostInv => PostedOnce
  BY DEF PostInv, PostedOnce
<1>3. AnnInv /\ IntroInv => IntroOnce
  <2> SUFFICES ASSUME IntroInv, OneAtATime
               PROVE  Cardinality({k \in Live : announcement[k].intro}) <= 1
    BY DEF IntroOnce
  <2>1. {k \in Live : announcement[k].intro} \subseteq {profile}
    BY DEF IntroInv
  <2>2. IsFiniteSet({profile}) /\ Cardinality({profile}) = 1
    BY FS_Singleton
  <2> QED
    BY <2>1, <2>2, FS_Subset
<1>4. AnnInv => TypeOK
  BY DEF AnnInv
<1>5. AnnInv /\ ToldInv /\ PostInv /\ IntroInv => AnnouncedOnce
  BY <1>1, <1>2, <1>3, <1>4 DEF AnnouncedOnce
<1> QED
  BY <1>5, AnnInit, AnnStep, ToldStep, PostStep, IntroStep, PTL DEF Spec
=============================================================================
