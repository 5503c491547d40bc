--------------------------- MODULE MCAnnouncements ---------------------------
(* Instances of Announcements for TLC.                                     *)
EXTENDS Announcements, TLC

CONSTANTS t1, t2, a1, a2

Client(T, K, C, F, c) ==
  [threads |-> T, keys |-> K, calls |-> C, faults |-> F, channel |-> c]

\* One client that introduces, edits and deletes; one with a Discord channel and
\* posts that are refused; two that dispatch and retry with every fault; two
\* whose edits race with dispatches.
MCClients ==
  { Client({t1}, {a1, a2}, {"edit", "delete", "intro", "profile", "due"}, {}, FALSE),
    Client({t1}, {a1}, {"create", "assistant", "delete", "channel", "due", "retry"}, {"refused"}, TRUE),
    Client({t1, t2}, {a1}, {"create", "delete", "due", "retry"}, Faults, TRUE),
    Client({t1, t2}, {a1}, {"create", "edit", "due"}, {}, FALSE),
    Client({t1, t2}, {a1, a2}, {"intro", "due"}, {"rollback"}, FALSE) }
=============================================================================
