-------------------------- MODULE AssistantRouting --------------------------
(***************************************************************************)
(* How a message to the assistant becomes an answer.  A language model     *)
(* chooses a subagent, the subagent calls tools, and when either fails a   *)
(* router that looks for keywords takes over.  What models answer is       *)
(* arbitrary, so is whether they answer; what they are sent is a window    *)
(* of the conversation.                                                    *)
(*                                                                         *)
(* How what is staged gets confirmed is in AssistantTurns.  The choice of  *)
(* the tools that a subagent has, the wording and the entities of answers  *)
(* are left out.                                                           *)
(***************************************************************************)
EXTENDS Integers, SequencesExt, WebThreads

CONSTANTS
  Texts, Length,      \* what users write, in units of Cap: characters
  Tool,               \* the tool that the keywords of a text name, or Nil
  AnswerLength,       \* of every answer
  Limit, Budget, Cap, \* messages, characters and characters of a message in a window
  Retries,            \* OPENROUTER_MAX_RETRIES
  MaxRounds,          \* half of AI_AGENT_MAX_TOOL_STEPS, one at least: the agent and its tools
  MaxMessages         \* bound on the messages of the session

Calls == {"say", "tool"}
Faults == {"crash", "model", "refusal"}
Tools == {"read", "change"}
Roles == {"user", "assistant"}

RoutingConstants ==
  /\ Tool \in [Texts -> Tools \cup {Nil}] /\ Length \in [Texts -> Nat]
  /\ {AnswerLength, Limit, Budget, Cap, Retries, MaxRounds, MaxMessages} \subseteq Nat
  /\ Limit > 0 /\ MaxRounds > 0 /\ Nil \notin Texts \cup Tools
  \* Clients also say what is written and whether there is a language model at all.
  /\ \A c \in Clients : c.area = "routing" => c.texts \subseteq Texts /\ c.configured \in BOOLEAN

VARIABLES
  messages,  \* AIChatMessage, in the order of creation; an answer's text is Nil
  pending    \* whether AIChatSession.pending_confirmation asks for input or consent, or Nil

vars == <<messages, pending, job, clients>>

-----------------------------------------------------------------------------
(* What a model is sent.                                                   *)

Smaller(a, b) == IF a < b THEN a ELSE b
Cost(m) == Smaller(Cap, IF m.role = "user" THEN Length[m.text] ELSE AnswerLength) + 1

\* Mutation of RecentHistory: what does not fit is left out, and older messages tried.
RecentHistorySkipping(seen) ==
  LET start == IF Len(seen) > Limit THEN Len(seen) - Limit ELSE 0
      Add(kept, n) ==
        LET m == seen[Len(seen) + 1 - n] IN
          IF kept.used + Cost(m) > Budget /\ kept.items # <<>> THEN kept
          ELSE [kept EXCEPT !.items = <<m>> \o @, !.used = @ + Cost(m)]
  IN FoldLeft(Add, [items |-> <<>>, used |-> 0, full |-> FALSE],
              [n \in 1..(Len(seen) - start) |-> n]).items

\* recent_history: the newest messages, until one does not fit.
RecentHistory(seen) ==
  LET start == IF Len(seen) > Limit THEN Len(seen) - Limit ELSE 0
      Add(kept, n) ==
        LET m == seen[Len(seen) + 1 - n] IN
          IF kept.full \/ (kept.used + Cost(m) > Budget /\ kept.items # <<>>)
          THEN [kept EXCEPT !.full = TRUE]
          ELSE [kept EXCEPT !.items = <<m>> \o @, !.used = @ + Cost(m)]
  IN FoldLeft(Add, [items |-> <<>>, used |-> 0, full |-> FALSE],
              [n \in 1..(Len(seen) - start) |-> n]).items

\* Mutation of Prompt: the user's message is sent twice.
PromptTwice(text) == RecentHistory(messages) \o <<[role |-> "user", text |-> text]>>

\* invoke_subagent: a trailing message that is the current one is dropped, since the
\* current one follows.
Prompt(text) ==
  LET own == [role |-> "user", text |-> text]
      history == RecentHistory(messages)
  IN (IF Last(history) = own THEN Front(history) ELSE history) \o <<own>>

-----------------------------------------------------------------------------
(* A turn.  Its row has the text, the calls of models so far, the attempts *)
(* of the orchestrator and the tries of one, the rounds of the agent, and  *)
(* whether it has staged something and the agent failed.                   *)

NewTurn(text, tool) ==
  [text |-> text, tool |-> tool, calls |-> 0, attempt |-> 1, tries |-> 0, rounds |-> 0,
   prompt |-> <<>>, staged |-> FALSE, failed |-> FALSE]

Say(t) ==
  /\ Len(messages) < MaxMessages
  /\ \E text \in clients.texts :
       /\ messages' = Append(messages, [role |-> "user", text |-> text])
       /\ \/ /\ Free(t, "say")
             /\ Take(t, IF clients.configured THEN "orchestrate" ELSE "route", Nil,
                     NewTurn(text, Nil))
          \/ /\ Free(t, "tool")
             /\ \E tool \in Tools : Take(t, "route", Nil, NewTurn(text, tool))
  /\ UNCHANGED <<pending, clients>>

Called(row) == [row EXCEPT !.calls = @ + 1]

\* Mutation of RetryCall: counts only what was parsed.
RetryCallForever(t, row) == Take(t, "orchestrate", Nil, row)
\* invoke_llm_with_retry, and after the last try the router
RetryCall(t, row) ==
  IF row.tries < Retries THEN Take(t, "orchestrate", Nil, [row EXCEPT !.tries = @ + 1])
  ELSE Take(t, "route", Nil, row)

\* orchestrator_decision: the call fails, or its answer cannot be parsed, once or twice,
\* or names no module, or one.
Orchestrate(t) ==
  /\ At(t, "orchestrate")
  /\ LET row == Called(job[t].row) IN
       \/ Fault("model") /\ RetryCall(t, row)
       \/ IF row.attempt = 1
          THEN Take(t, "orchestrate", Nil, [row EXCEPT !.attempt = 2, !.tries = 0])
          ELSE Take(t, "route", Nil, row)
       \/ Take(t, "route", Nil, row)
       \/ Take(t, "agent", Nil, [row EXCEPT !.prompt = Prompt(row.text)])
  /\ UNCHANGED <<messages, pending, clients>>

\* execute_tool, not confirmed: what changes data is staged, with a form if arguments miss.
Stage == pending' \in {"input", "consent"}

Answering(t, ui, row) == Take(t, "answer", ui, row)
Failed(t, row) == Take(t, "route", Nil, [row EXCEPT !.failed = TRUE])
\* What the answer of an agent says of what is pending, its own or from an earlier turn.
AgentAnswer(t, row) == Answering(t, pending', row)

\* A round of the agent: it calls a tool, and stops with an error after the last one; it
\* answers, with a text or without; it fails, or a tool refuses.  An answer that quotes
\* the metadata of tools is replaced by what the keywords name if that changes data.
Agent(t) ==
  /\ At(t, "agent")
  /\ LET row == [Called(job[t].row) EXCEPT !.rounds = @ + 1]
         again == IF row.rounds = MaxRounds THEN Failed(t, row) ELSE Take(t, "agent", Nil, row)
         stagedAgain == IF row.rounds = MaxRounds THEN Failed(t, [row EXCEPT !.staged = TRUE])
                        ELSE Take(t, "agent", Nil, [row EXCEPT !.staged = TRUE])
     IN \/ again /\ UNCHANGED pending
        \/ Stage /\ stagedAgain
        \/ UNCHANGED pending /\ AgentAnswer(t, row)
        \/ /\ Tool[row.text] = "change" /\ Stage
           /\ AgentAnswer(t, [row EXCEPT !.staged = TRUE])
        \/ Fault("model") /\ Failed(t, row) /\ UNCHANGED pending
        \* SensitiveActionDenied: the user is asked to sign in again.
        \/ Fault("refusal") /\ UNCHANGED pending /\ AgentAnswer(t, row)
  /\ UNCHANGED <<messages, clients>>

\* Mutation of Chosen: a tool the user has named is looked up again.
ChosenAgain(row) == Tool[row.text]
\* classify_intent: the tool that was asked for, or what the keywords name.
Chosen(row) == IF row.tool # Nil THEN row.tool ELSE Tool[row.text]

\* The fallback: no tool, and help is offered; a tool that reads; one that changes and is
\* staged; or a refusal, which is the answer or ends the request without one.
Route(t) ==
  /\ At(t, "route")
  /\ LET row == job[t].row IN
       \/ Chosen(row) \in {Nil, "read"} /\ Answering(t, Nil, row) /\ UNCHANGED pending
       \/ /\ Chosen(row) = "change" /\ Stage
          /\ Answering(t, pending', [row EXCEPT !.staged = TRUE])
       \/ /\ Fault("refusal") /\ Chosen(row) # Nil
          /\ (Answering(t, Nil, row) \/ Done(t))
          /\ UNCHANGED pending
  /\ UNCHANGED <<messages, clients>>

\* The answer is stored and sent; also in the place of an unexpected error.
Answer(t) ==
  /\ At(t, "answer")
  /\ messages' = Append(messages, [role |-> "assistant", text |-> Nil])
  /\ Done(t)
  /\ UNCHANGED <<pending, clients>>

\* Ten minutes, or a confirmation by AssistantTurns.
Settle ==
  /\ AllIdle /\ pending # Nil
  /\ pending' = Nil
  /\ UNCHANGED <<messages, job, clients>>

Crash(t) ==
  /\ Fault("crash") /\ job[t] # Idle
  /\ Done(t)
  /\ UNCHANGED <<messages, pending, clients>>

-----------------------------------------------------------------------------
Start == messages = <<>> /\ pending = Nil
Init == Begin /\ Start

Next ==
  \/ Settle
  \/ \E t \in Threads :
       Say(t) \/ Orchestrate(t) \/ Agent(t) \/ Route(t) \/ Answer(t) \/ Crash(t)

Spec == Init /\ [][Next]_vars
-----------------------------------------------------------------------------
(* Properties.                                                             *)

\* Messages are a user's or the assistant's; what is pending waits for something.
TypeOK ==
  /\ messages \in Seq([role : {"user"}, text : Texts] \cup {[role |-> "assistant", text |-> Nil]})
  /\ pending \in {"input", "consent", Nil}

\* However the models fail, a turn calls them a bounded number of times, each of two
\* requests of the orchestrator with its retries, and the agent's rounds.
ModelCallsBounded ==
  \A t \in Threads : job[t].call \in {"orchestrate", "agent", "route", "answer"} =>
    job[t].row.calls <= 2 * (Retries + 1) + MaxRounds

\* What the agent is sent ends with the user's message, once; before it come the newest
\* messages there were, without a gap, no more of them than the limits allow and, unless
\* racing turns have added others since, no fewer.
PromptIsRecent ==
  \A t \in Threads : At(t, "agent") =>
    LET prompt == job[t].row.prompt
        own == [role |-> "user", text |-> job[t].row.text]
        before == Front(prompt)
        Used(s) == FoldLeft(LAMBDA n, m : n + Cost(m), 0, s)
        asked == IF prompt = <<>> THEN <<>> ELSE before \o <<own>>
        older == Len(messages) - Len(prompt)
    IN /\ prompt # <<>> /\ Last(prompt) = own
       /\ Len(prompt) <= Limit + 1
       /\ OneAtATime =>
            /\ older >= 0 /\ asked = SubSeq(messages, older + 1, Len(messages))
            /\ Len(prompt) <= Limit /\ (before # <<>> => Used(prompt) <= Budget)
            /\ older = 0 \/ Len(prompt) = Limit \/ Used(prompt) + Cost(messages[older]) > Budget

\* One turn at a time, an answer asks for input or consent only if this is pending, and
\* whatever a turn has staged is asked for unless its agent failed afterwards.
AskedIfStaged ==
  OneAtATime =>
    \A t \in Threads : At(t, "answer") =>
      /\ job[t].key \in {Nil, pending}
      /\ (job[t].row.staged /\ ~job[t].row.failed) => job[t].key = pending

\* A tool the user has named is the one that runs or is staged.
NamedToolDecides ==
  \A t \in Threads : At(t, "answer") =>
    /\ job[t].row.tool = "read" => ~job[t].row.staged
    /\ job[t].row.tool = "change" /\ "refusal" \notin clients.faults => job[t].row.staged

\* One turn at a time, the assistant speaks only when spoken to, and leaves a message
\* without an answer only if a tool refuses or the worker dies.
AnsweredOnce ==
  OneAtATime =>
    /\ \A n \in DOMAIN messages :
         messages[n].role = "assistant" => n > 1 /\ messages[n - 1].role = "user"
    /\ clients.faults \cap {"crash", "refusal"} = {} =>
         \A n \in DOMAIN messages :
           messages[n].role = "user" =>
             IF n = Len(messages) THEN ~AllIdle ELSE messages[n + 1].role = "assistant"
=============================================================================
