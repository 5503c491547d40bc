---------------------------- MODULE Integrations ----------------------------
(***************************************************************************)
(* Seven components in one system: the accounts, the connections to Jira   *)
(* and Tempo, the documents and their templates, the assistant's turns and *)
(* its routing, and the access to assets.  They share no rows: a client    *)
(* works with one of them, the area of its record.                         *)
(***************************************************************************)
EXTENDS WebThreads

CONSTANTS Deleted, Accounts, Emails, Proposals, MaxRuns, Assets, Employees, Viewer, MaxAssignments,
          Texts, Length, Tool, AnswerLength, Limit, Budget, Cap, Retries, MaxRounds, MaxMessages,
          Owners, ProviderAccounts, Connections, MaxToken, DocumentKeys, FileKeys,
          TemplateKeys, TemplateNames, CopyName, FieldKeys, Author, Admin, Colleague

VARIABLES connection, state, code, mapping, issued, accepted,
          document, stored,
          pending, staged, ran, shown, agreed, over,
          account, profile,
          template, field, generated,
          messages, awaited,
          status, held, plan, permitted, team, date
oauth == <<connection, state, code, mapping, issued, accepted>>
files == <<document, stored>>
assistant == <<pending, staged, ran, shown, agreed, over>>
accounts == <<account, profile>>
templates == <<template, field, generated>>
chats == <<messages, awaited>>
custody == <<status, held, plan, permitted, team, date>>
data == <<oauth, files, assistant, accounts, templates, chats, custody, clients>>
vars == <<data, job>>

OAuth == INSTANCE OAuthConnections WITH Users <- Owners, Accounts <- ProviderAccounts
Files == INSTANCE DocumentFiles WITH Documents <- DocumentKeys, Keys <- FileKeys
Assistant == INSTANCE AssistantTurns
Signing == INSTANCE EmployeeAccounts
Writing == INSTANCE DocumentTemplates WITH
  Templates <- TemplateKeys, Names <- TemplateNames, Copy <- CopyName, Keys <- FieldKeys
Routing == INSTANCE AssistantRouting WITH pending <- awaited
Looking == INSTANCE AssetAccess WITH
  assignment <- held, rights <- permitted, today <- date


ASSUME ProvedConstants ==
  /\ Signing!AccountConstants /\ Looking!AccessConstants
  /\ Assistant!AssistantConstants /\ Routing!RoutingConstants /\ OAuth!OAuthConstants
  /\ Files!DocumentConstants /\ Writing!TemplateConstants

-----------------------------------------------------------------------------
Areas == {"oauth", "files", "assistant", "accounts", "templates", "routing", "access"}

Init ==
  Begin /\ OAuth!Start /\ Files!Start /\ Assistant!Start /\ Signing!Start /\ Writing!Start
  /\ Routing!Start /\ Looking!Start
Step ==
  \/ /\ clients.area = "oauth" /\ OAuth!Next
     /\ UNCHANGED <<files, assistant, accounts, templates, chats, custody>>
  \/ /\ clients.area = "files" /\ Files!Next
     /\ UNCHANGED <<oauth, assistant, accounts, templates, chats, custody>>
  \/ /\ clients.area = "assistant" /\ Assistant!Next
     /\ UNCHANGED <<oauth, files, accounts, templates, chats, custody>>
  \/ /\ clients.area = "accounts" /\ Signing!Next
     /\ UNCHANGED <<oauth, files, assistant, templates, chats, custody>>
  \/ /\ clients.area = "templates" /\ Writing!Next
     /\ UNCHANGED <<oauth, files, assistant, accounts, chats, custody>>
  \/ /\ clients.area = "routing" /\ Routing!Next
     /\ UNCHANGED <<oauth, files, assistant, accounts, templates, custody>>
  \/ /\ clients.area = "access" /\ Looking!Next
     /\ UNCHANGED <<oauth, files, assistant, accounts, templates, chats>>

\* What the threads do for a client of any other component.
Elsewhere == clients.area \notin Areas /\ UNCHANGED data

Next == Step \/ Elsewhere
Spec == Init /\ [][Next]_vars

-----------------------------------------------------------------------------
\* What each component promises, its type invariant among it; the parts are stated
\* and explained in its module.

\* OAuthConnections: however users, callbacks and uses of a token follow each other,
\* the refresh token that is stored is the one the provider accepts, worklogs are
\* those of the user who connected last, and no refresh brings back what was cut off.
ConnectionPromises ==
  /\ [](clients.area = "oauth" =>
          OAuth!TypeOK /\ OAuth!RefreshTokenIsCurrent /\ OAuth!MappingFollowsConnection)
  /\ OAuth!DisconnectedStays

\* DocumentFiles: every document has its file and every file its document, the rows
\* of a bulk deletion go together whatever fails, and no change that was under way
\* brings an archived document back.  DocumentTemplates: one name is one active
\* template, and a document leaves no placeholder open that its template asks for.
FilePromises ==
  /\ [](clients.area = "files" => Files!TypeOK /\ Files!FilesFollowRows)
  /\ Files!BulkDeletionIsWhole /\ Files!ArchivedUntilRestored
  /\ [](Writing!TypeOK /\ Writing!OneActiveName /\ Writing!NothingLeftOpen)

\* AssistantTurns: a proposal runs once, what runs is what the user agreed to, and
\* what was cancelled or has expired runs no more.  AssistantRouting: models are called a
\* bounded number of times, are sent the newest messages, and users get one answer,
\* which asks for what was staged.
AssistantPromises ==
  /\ [](clients.area = "assistant" =>
          Assistant!TypeOK /\ Assistant!RunOnce /\ Assistant!AskedBeforeRun)
  /\ Assistant!OverNeverRuns
  /\ [](clients.area = "routing" =>
          /\ Routing!TypeOK /\ Routing!ModelCallsBounded /\ Routing!PromptIsRecent
          /\ Routing!AskedIfStaged /\ Routing!NamedToolDecides /\ Routing!AnsweredOnce)

\* EmployeeAccounts: an address is one user's, a user and the profile are deactivated
\* together, wherever a deletion stopped, and have one address.  AssetAccess: the ways
\* in which a user gets to see assets agree, and what is offered is accepted.
AccountPromises ==
  /\ clients.area = "accounts" =>
       /\ Signing!TypeOK /\ Signing!OneAccountPerEmail
       /\ Signing!DeactivatedTogether /\ Signing!AddressFollowsAccount
  /\ clients.area = "access" =>
       /\ Looking!TypeOK /\ Looking!ListedAreOpen /\ Looking!AvailabilityAgrees
       /\ Looking!OfferedIsAccepted /\ Looking!PlansAgree
=============================================================================
