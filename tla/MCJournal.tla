----------------------------- MODULE MCJournal -----------------------------
(* An instance of TurnJournalStore for TLC: a journal of two rows for three *)
(* chats, the last of which has two prompts.                                *)
EXTENDS TurnJournalStore

CONSTANTS c1, c2, c3, t1, t2, t3, t4

ChatOf == [t \in Turn |-> CASE t = t1 -> c1 [] t = t2 -> c2 [] OTHER -> c3]
=============================================================================
