----------------------------- MODULE WebThreads -----------------------------
(***************************************************************************)
(* The threads that serve requests and run commands.  A call that needs    *)
(* several statements keeps, from one to the next, the primary key it is   *)
(* about and the copies it has loaded; nothing else protects it.           *)
(*                                                                         *)
(* An instance of a component is explored by several sets of clients: one  *)
(* record each, with the threads they use, the calls they make and the     *)
(* faults they meet.                                                       *)
(***************************************************************************)
EXTENDS FiniteSets

CONSTANTS
  Threads,
  Clients,   \* records with the fields threads, calls and faults, and others
  Nil        \* no key, no row, NULL

VARIABLES
  job,       \* thread -> the stage of its call, the key and what it holds
  clients    \* never changes

Idle == [call |-> "none", key |-> Nil, row |-> Nil]

Take(t, c, k, r) == job' = [job EXCEPT ![t] = [call |-> c, key |-> k, row |-> r]]
Done(t) == job' = [job EXCEPT ![t] = Idle]

Free(t, c) == job[t] = Idle /\ t \in clients.threads /\ c \in clients.calls
At(t, c) == job[t].call = c
Fault(f) == f \in clients.faults

Begin == job = [t \in Threads |-> Idle] /\ clients \in Clients

OneAtATime == \A t, u \in clients.threads : t = u
AllIdle == \A t \in Threads : job[t] = Idle
=============================================================================
