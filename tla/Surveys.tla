------------------------------ MODULE Surveys ------------------------------
(***************************************************************************)
(* One survey, its questions and the responses to it.  Nothing but the     *)
(* response with its answers is written in one transaction: an earlier     *)
(* response is deleted before the new one is looked at, and an edit saves  *)
(* the survey, then its questions, then deletes the others.                *)
(***************************************************************************)
EXTENDS WebThreads

CONSTANTS
  Users, Questions, Responses,  \* primary keys
  Deleted

Calls == {"submit", "edit", "questions", "close", "recall", "delete", "wait"}
Kinds == {"required", "optional"}
\* ended: the end date is past.
Rows == [status : {"draft", "active", "closed"}, anonymous : BOOLEAN, ended : BOOLEAN]
Answers == [respondent : Users \cup {Nil}, answers : SUBSET Questions]

SurveyConstants ==
  /\ {Nil, Deleted} \cap (Rows \cup Answers \cup Users \cup Kinds) = {} /\ Nil # Deleted
  \* Clients also say who answers, which questions there may be and which statuses
  \* edits send.
  /\ \A c \in Clients : c.area = "surveys" =>
       /\ c.users \subseteq Users /\ c.questions \subseteq Questions
       /\ c.statuses \subseteq {"draft", "active", "closed"}

VARIABLES
  survey,    \* Survey, or Deleted
  question,  \* Question -> whether it is required, Nil or Deleted
  response   \* Response with its Answers, or Nil

vars == <<survey, question, response, job, clients>>

-----------------------------------------------------------------------------
Live == {q \in Questions : question[q] \in Kinds}
Given == {k \in Responses : response[k] # Nil}
Unused == {q \in clients.questions : question[q] = Nil}
Required == {q \in Live : question[q] = "required"}
Exists == survey # Deleted

(* Responses.                                                              *)

Submit(t) ==
  /\ Free(t, "submit") /\ Exists
  /\ survey.status = "active" /\ ~survey.ended
  /\ \E u \in clients.users : Take(t, "clear", u, survey)
  /\ UNCHANGED <<survey, question, response, clients>>

\* Mutation of Earlier: nobody's response is replaced.
EarlierKept(u, row) == {}

\* "a second submission by the same user replaces the previous one"
Earlier(u, row) ==
  IF row.anonymous THEN {} ELSE {k \in Given : response[k].respondent = u}

\* Before anything is known of the new answers.
ClearEarlier(t) ==
  /\ At(t, "clear")
  /\ LET gone == Earlier(job[t].key, job[t].row) IN
       response' = [k \in Responses |-> IF k \in gone THEN Nil ELSE response[k]]
  /\ Take(t, "validate", job[t].key, job[t].row)
  /\ UNCHANGED <<survey, question, clients>>

\* Questions of this survey, the required ones among them; or the call is refused.
Validate(t) ==
  /\ At(t, "validate")
  /\ \/ \E A \in SUBSET Live :
          /\ A # {} /\ Required \subseteq A
          /\ Take(t, "persist", job[t].key, [anonymous |-> job[t].row.anonymous, answers |-> A])
     \/ Done(t)
  /\ UNCHANGED <<survey, question, response, clients>>

\* A survey or a question deleted meanwhile fails the transaction.
Persist(t) ==
  /\ At(t, "persist")
  /\ LET j == job[t].row IN
       IF Exists /\ j.answers \subseteq Live
       THEN \E k \in Responses \ Given :
              response' = [response EXCEPT ![k] =
                [respondent |-> IF j.anonymous THEN Nil ELSE job[t].key, answers |-> j.answers]]
       ELSE UNCHANGED response
  /\ Done(t)
  /\ UNCHANGED <<survey, question, clients>>

-----------------------------------------------------------------------------
(* The survey.                                                             *)

EditLoad(t) ==
  /\ Free(t, "edit") /\ Exists
  /\ Take(t, "edit", Nil, survey)
  /\ UNCHANGED <<survey, question, response, clients>>

\* The whole copy, which a deletion does not stop; the questions are read next.
EditSave(t) ==
  /\ At(t, "edit")
  /\ \E s \in clients.statuses, a, e \in BOOLEAN :
       survey' = [job[t].row EXCEPT !.status = s, !.anonymous = a, !.ended = e]
  /\ \/ Take(t, "upsert", Nil, Live)
     \/ Done(t)
  /\ UNCHANGED <<question, response, clients>>

\* The questions that are there keep their key.
UpsertQuestions(t) ==
  /\ At(t, "upsert")
  /\ \E keep \in SUBSET job[t].row, new \in SUBSET Unused, kind \in Kinds :
       LET kept == keep \cup new IN
       /\ IF Exists
          THEN /\ question' = [q \in Questions |-> IF q \in kept THEN kind ELSE question[q]]
               /\ Take(t, "prune", Nil, kept)
          ELSE Done(t) /\ UNCHANGED question
  /\ UNCHANGED <<survey, response, clients>>

\* Mutation of WithoutAnswers: all the questions are deleted and made anew.
WithoutAnswersAny(gone) ==
  [k \in Responses |-> IF response[k] = Nil THEN Nil ELSE [response[k] EXCEPT !.answers = {}]]

\* exclude(id__in=kept_ids).delete(); the answers go with their question.
WithoutAnswers(gone) ==
  [k \in Responses |->
     IF response[k] = Nil THEN Nil ELSE [response[k] EXCEPT !.answers = @ \ gone]]

PruneQuestions(t) ==
  /\ At(t, "prune")
  /\ LET gone == Live \ job[t].row IN
       /\ question' = [q \in Questions |-> IF q \in gone THEN Deleted ELSE question[q]]
       /\ response' = WithoutAnswers(gone)
  /\ Done(t)
  /\ UNCHANGED <<survey, clients>>

AddQuestion(t) ==
  /\ Free(t, "questions") /\ Exists
  /\ \E q \in Unused : question' = [question EXCEPT ![q] = "required"]
  /\ UNCHANGED <<survey, response, job, clients>>

Close(t) ==
  /\ Free(t, "close") /\ Exists /\ survey.status # "closed"
  /\ survey' = [survey EXCEPT !.status = "closed"]
  /\ UNCHANGED <<question, response, job, clients>>

Recall(t) ==
  /\ Free(t, "recall") /\ Exists
  /\ survey' = [survey EXCEPT !.status = "draft", !.ended = FALSE]
  /\ UNCHANGED <<question, response, job, clients>>

\* Mutation of LoadDelete: nobody looks for responses.
LoadDeleteAny(t) ==
  /\ Free(t, "delete") /\ Exists
  /\ Take(t, "delete", Nil, Nil)
  /\ UNCHANGED <<survey, question, response, clients>>

LoadDelete(t) ==
  /\ Free(t, "delete") /\ Exists /\ Given = {}
  /\ Take(t, "delete", Nil, Nil)
  /\ UNCHANGED <<survey, question, response, clients>>

\* Questions and responses go with the survey.
Delete(t) ==
  /\ At(t, "delete")
  /\ survey' = Deleted
  /\ question' = [q \in Questions |-> IF q \in Live THEN Deleted ELSE question[q]]
  /\ response' = [k \in Responses |-> Nil]
  /\ Done(t)
  /\ UNCHANGED clients

\* The end date passes.
Wait(t) ==
  /\ Free(t, "wait") /\ Exists /\ ~survey.ended
  /\ survey' = [survey EXCEPT !.ended = TRUE]
  /\ UNCHANGED <<question, response, job, clients>>

-----------------------------------------------------------------------------
Start ==
  /\ survey = [status |-> "draft", anonymous |-> FALSE, ended |-> FALSE]
  /\ question = [q \in Questions |-> Nil]
  /\ response = [k \in Responses |-> Nil]

Init == Start /\ Begin

Next ==
  \E t \in Threads :
    \/ Submit(t) \/ ClearEarlier(t) \/ Validate(t) \/ Persist(t)
    \/ EditLoad(t) \/ EditSave(t) \/ UpsertQuestions(t) \/ PruneQuestions(t) \/ AddQuestion(t)
    \/ Close(t) \/ Recall(t) \/ LoadDelete(t) \/ Delete(t) \/ Wait(t)

Spec == Init /\ [][Next]_vars

-----------------------------------------------------------------------------
(* Properties.                                                             *)

\* Every row is in its columns' range, whatever copies are saved.
TypeOK ==
  /\ survey \in Rows \cup {Deleted}
  /\ question \in [Questions -> Kinds \cup {Nil, Deleted}]
  /\ response \in [Responses -> Answers \cup {Nil}]

\* While calls come one at a time nobody has two named responses, even when the
\* survey was anonymous in between (submit_response replaces the earlier one).
OneResponseEach ==
  OneAtATime =>
    \A k, l \in Given :
      k # l /\ response[k].respondent # Nil => response[k].respondent # response[l].respondent

\* Editing a survey does not lose the answers to the questions it keeps (the
\* serializer's update, "Preserve question IDs that match incoming entries").
KeptQuestionsKeepAnswers ==
  [][\A k \in Given :
       response'[k] # Nil =>
         \A q \in response[k].answers :
           question'[q] \in Kinds => q \in response'[k].answers]_vars

\* While calls come one at a time, a response goes only when its respondent
\* submits again: a survey that has any cannot be deleted.
OnlyReplacedGo ==
  [][OneAtATime =>
       \A k \in Given :
         response'[k] = Nil =>
           \E t \in Threads : At(t, "clear") /\ job[t].key = response[k].respondent]_vars
=============================================================================
