--------------------------- MODULE AssistantTurns ---------------------------
(***************************************************************************)
(* One chat session of the assistant.  A tool that changes data is staged  *)
(* in the session, shown to the user, and run when the user confirms it:   *)
(* by the form, by a "yes", or through the agent's own confirmation tool.  *)
(* Two turns of a session may run at the same time; what the language      *)
(* model answers is arbitrary.                                             *)
(***************************************************************************)
EXTENDS Naturals, WebThreads

CONSTANTS
  Proposals,  \* calls of tools that get staged; a bound
  MaxRuns     \* bound on the runs of one

Calls == {"confirm", "yes", "no", "message", "agent_confirm", "agent_cancel"}
Faults == {"crash", "error"}

\* complete: every required argument is there.
Pending == [proposal : Proposals, complete : BOOLEAN, expired : BOOLEAN]

AssistantConstants == MaxRuns \in Nat /\ Nil \notin Pending

VARIABLES
  pending,  \* AIChatSession.pending_confirmation
  staged,   \* the proposals there have been
  ran,      \* how often the tool of a proposal has run
  shown,    \* the pending_confirmation of the last answer
  agreed,   \* the proposals that were shown when the user said yes
  over      \* the proposals that were cancelled or found expired

data == <<pending, staged, ran, shown, agreed, over>>
vars == <<data, job, clients>>

-----------------------------------------------------------------------------
Open(p) == p # Nil /\ ~p.expired
Agrees(c) == agreed' = IF c \in {"confirm", "yes"} /\ shown # Nil
                       THEN agreed \cup {shown.proposal} ELSE agreed
\* What is dropped from the session, because of a "no" or of its age.
Drop(p) == pending' = Nil /\ over' = over \cup {p.proposal}

\* The form may fill in what is missing; a "yes" does not.
Run(t, p, by) ==
  \E full \in {p.complete, p.complete \/ by = "form"} :
    Take(t, "execute", by, [p EXCEPT !.complete = full])

\* A message is stored, the session read again, and the message told apart.
Turn(t) ==
  /\ \E c \in {"confirm", "yes", "no", "message"} :
       /\ Free(t, c)
       /\ Agrees(c)
       /\ \/ /\ c \in {"confirm", "yes"} /\ Open(pending)
             /\ Run(t, pending, IF c = "confirm" THEN "form" ELSE "reply")
             /\ UNCHANGED <<pending, over>>
          \/ /\ c = "confirm" /\ ~Open(pending)
             /\ IF pending = Nil THEN UNCHANGED <<pending, over>> ELSE Drop(pending)
             /\ Done(t)
          \/ /\ c = "no" /\ Open(pending)
             /\ Drop(pending)
             /\ Take(t, "answer", Nil, Nil)
          \/ /\ c = "message" \/ (c \in {"yes", "no"} /\ ~Open(pending))
             /\ Take(t, "turn", Nil, pending)
             /\ UNCHANGED <<pending, over>>
  /\ UNCHANGED <<staged, ran, shown, clients>>

\* Mutation of Stage: the agent's tools are called as confirmed.
StageConfirmed(t) ==
  /\ At(t, "turn")
  /\ \E p \in Proposals \ staged, full \in BOOLEAN :
       LET row == [proposal |-> p, complete |-> full, expired |-> FALSE] IN
       /\ staged' = staged \cup {p}
       /\ Take(t, "execute", "agent", row)
  /\ UNCHANGED <<pending, ran, shown, agreed, over, clients>>

\* The agent, or the keyword router in its place, calls a tool that changes
\* data: execute_tool stages it, with a form for the arguments that miss.
Stage(t) ==
  /\ At(t, "turn")
  /\ \E p \in Proposals \ staged, full \in BOOLEAN :
       LET row == [proposal |-> p, complete |-> full, expired |-> FALSE] IN
       /\ staged' = staged \cup {p}
       /\ pending' = row
       /\ Take(t, "turn", Nil, row)
  /\ UNCHANGED <<ran, shown, agreed, over, clients>>

\* confirm_pending_action and cancel_pending_action, called by the agent.
AgentConfirm(t) ==
  /\ At(t, "turn") /\ "agent_confirm" \in clients.calls /\ pending # Nil
  /\ IF pending.expired
     THEN Drop(pending) /\ Take(t, "turn", Nil, Nil)
     ELSE Run(t, pending, "agent") /\ UNCHANGED <<pending, over>>
  /\ UNCHANGED <<staged, ran, shown, agreed, clients>>

\* Mutation of AgentCancel: the session is not saved.
AgentCancelUnsaved(t) ==
  /\ At(t, "turn") /\ "agent_cancel" \in clients.calls /\ pending # Nil
  /\ over' = over \cup {pending.proposal}
  /\ Take(t, "turn", Nil, Nil)
  /\ UNCHANGED <<pending, staged, ran, shown, agreed, clients>>

AgentCancel(t) ==
  /\ At(t, "turn") /\ "agent_cancel" \in clients.calls /\ pending # Nil
  /\ Drop(pending) /\ Take(t, "turn", Nil, Nil)
  /\ UNCHANGED <<staged, ran, shown, agreed, clients>>

\* What follows a tool: the agent's turn goes on, the user's is answered.
Continue(t, row) == Take(t, IF job[t].key = "agent" THEN "turn" ELSE "answer", Nil, row)

\* Arguments still miss: staged again, with a new expiry.
Refill(t) ==
  /\ At(t, "execute") /\ ~job[t].row.complete
  /\ pending' = [job[t].row EXCEPT !.expired = FALSE]
  /\ Continue(t, job[t].row)
  /\ UNCHANGED <<staged, ran, shown, agreed, over, clients>>

\* No recent login, no permission, or the tool objects: what is pending stays.
Refuse(t) ==
  /\ At(t, "execute") /\ job[t].row.complete
  /\ Continue(t, job[t].row)
  /\ UNCHANGED <<data, clients>>

Execute(t) ==
  /\ At(t, "execute") /\ job[t].row.complete
  /\ LET p == job[t].row.proposal IN
       /\ ran[p] < MaxRuns
       /\ ran' = [ran EXCEPT ![p] = @ + 1]
  /\ Take(t, "clear", job[t].key, Nil)
  /\ UNCHANGED <<pending, staged, shown, agreed, over, clients>>

\* Mutation of Clear: what has run stays pending until it expires.
ClearNot(t) ==
  /\ At(t, "clear")
  /\ Continue(t, Nil)
  /\ UNCHANGED <<data, clients>>

\* Whatever is pending by then.
Clear(t) ==
  /\ At(t, "clear")
  /\ pending' = Nil
  /\ Continue(t, Nil)
  /\ UNCHANGED <<staged, ran, shown, agreed, over, clients>>

\* The answer; or an error, after which the user sees what was there before.
Answer(t) ==
  /\ job[t].call \in {"turn", "answer"}
  /\ (shown' = job[t].row \/ (Fault("error") /\ shown' = shown))
  /\ Done(t)
  /\ UNCHANGED <<pending, staged, ran, agreed, over, clients>>

Crash(t) ==
  /\ Fault("crash") /\ job[t] # Idle
  /\ Done(t)
  /\ UNCHANGED <<data, clients>>

\* Ten minutes pass.
Expire ==
  /\ Open(pending)
  /\ pending' = [pending EXCEPT !.expired = TRUE]
  /\ UNCHANGED <<staged, ran, shown, agreed, over, job, clients>>

-----------------------------------------------------------------------------
Start ==
  /\ pending = Nil /\ shown = Nil
  /\ staged = {} /\ agreed = {} /\ over = {}
  /\ ran = [p \in Proposals |-> 0]

Init == Start /\ Begin

Next ==
  \/ Expire
  \/ \E t \in Threads :
       \/ Turn(t) \/ Stage(t) \/ AgentConfirm(t) \/ AgentCancel(t) \/ Refill(t)
       \/ Refuse(t) \/ Execute(t) \/ Clear(t) \/ Answer(t) \/ Crash(t)

Spec == Init /\ [][Next]_vars

-----------------------------------------------------------------------------
(* Properties.                                                             *)

\* The pending action is none or a proposal, and only proposals run (tooling.py).
TypeOK ==
  /\ pending \in Pending \cup {Nil} /\ shown \in Pending \cup {Nil}
  /\ ran \in [Proposals -> 0..MaxRuns]
  /\ agreed \subseteq staged /\ over \subseteq staged /\ staged \subseteq Proposals

\* One turn at a time and without a fault, a proposal runs once, however often
\* the user or the agent confirms it.
RunOnce ==
  OneAtATime /\ clients.faults = {} => \A p \in Proposals : ran[p] <= 1

\* As long as the agent does not confirm for the user, what runs was shown to
\* the user when the user said yes: not something staged since, by the agent's
\* further calls, by the form for what misses, or by the router.
AskedBeforeRun ==
  OneAtATime /\ clients.faults = {} /\ "agent_confirm" \notin clients.calls =>
    \A p \in Proposals : ran[p] > 0 => p \in agreed

\* One turn at a time, dead or failed ones included: what was cancelled or
\* found expired runs no more.
OverNeverRuns ==
  [][OneAtATime => \A p \in over : ran'[p] = ran[p]]_vars
=============================================================================
