----------------------------- MODULE TurnLedger -----------------------------
(***************************************************************************)
(* The turn ledger of the gateway fixture                                  *)
(* (tools/fake_gateway/turn_recovery_contract.py): bindings of mobile      *)
(* sessions, the turns they submitted with their numbered events, the      *)
(* index by client turn, what it means that the file can be loaded, and    *)
(* the page a reconciliation gets.                                         *)
(***************************************************************************)
EXTENDS Naturals, Sequences, FiniteSets, SequencesExt

CONSTANTS
  Mobile,       \* mobile sessions
  ClientTurn,   \* client turn ids
  Request,      \* digests of a text and its attachments
  PageSize      \* _FIXTURE_RECONCILE_PAGE_EVENTS

ASSUME LedgerAssumption ==
  IsFiniteSet(Mobile) /\ PageSize \in Nat \ {0}

Stored == 1 .. Cardinality(Mobile)
Key == Stored \X ClientTurn
NoBinding == [stored |-> 0, version |-> 0]
EmptyLedger == [bindings |-> [m \in Mobile |-> NoBinding], turns |-> <<>>,
                byClient |-> [key \in Key |-> 0], submits |-> 0,
                executions |-> 0]
Bound(ledger) == {m \in Mobile : ledger.bindings[m] # NoBinding}

Terminal == {"completed", "failed", "interrupted"}
IsOver(turn) == turn.status \in Terminal

AppendEvent(turn, kind) ==
  [turn EXCEPT !.last = @ + 1,
               !.events = Append(@, [seq |-> turn.last + 1, kind |-> kind])]

NewTurn(stored, client, request) ==
  AppendEvent([stored |-> stored, client |-> client, request |-> request,
               status |-> "accepted", last |-> 0, first |-> 1, events |-> <<>>,
               whole |-> FALSE], "accepted")

\* event_specs: what every turn of the fixture does.
Course == <<"running", "start", "delta", "delta", "delta", "complete">>
SecondDelta == 4

Advance(turn, step) ==
  LET longer == AppendEvent(turn, Course[step])
  IN CASE Course[step] = "running" -> [longer EXCEPT !.status = "running"]
       [] Course[step] = "complete" ->
            [longer EXCEPT !.status = "completed", !.whole = TRUE]
       [] OTHER -> longer

\* The whole course at once.
Finish(turn) ==
  IF IsOver(turn) THEN turn
  ELSE [turn EXCEPT
          !.status = "completed", !.whole = TRUE, !.last = @ + Len(Course),
          !.events = @ \o [i \in 1 .. Len(Course) |->
                             [seq |-> turn.last + i, kind |-> Course[i]]]]

Interrupted(turn) ==
  AppendEvent([turn EXCEPT !.status = "interrupted"], "interrupted")

\* (slip: the next event is counted among the pruned)
PrunedAtLast(turn) == [turn EXCEPT !.first = turn.last, !.events = <<>>]

Pruned(turn) == [turn EXCEPT !.first = turn.last + 1, !.events = <<>>]

\* _validate_loaded_ledger
TurnLoads(turn) ==
  /\ turn.first \in 1 .. turn.last + 1
  /\ \A i \in DOMAIN turn.events : turn.events[i].seq = turn.first + i - 1
  /\ turn.events # <<>> => turn.first + Len(turn.events) - 1 = turn.last

Loads(ledger) ==
  /\ \A m1, m2 \in Bound(ledger) :
       m1 # m2 => ledger.bindings[m1].stored # ledger.bindings[m2].stored
  /\ \A m \in Bound(ledger) : ledger.bindings[m].version > 0
  /\ \A id \in DOMAIN ledger.turns :
       /\ TurnLoads(ledger.turns[id])
       /\ \E m \in Bound(ledger) :
            ledger.bindings[m].stored = ledger.turns[id].stored
  /\ \A key \in Key :
       LET ids == {id \in DOMAIN ledger.turns :
                     <<ledger.turns[id].stored, ledger.turns[id].client>> = key}
       IN ids = IF ledger.byClient[key] = 0 THEN {} ELSE {ledger.byClient[key]}
  /\ ledger.executions = Len(ledger.turns)

\* The comprehension of turn.reconcile: the events that pass, in their order.
\* By their positions, where SelectSeq would be recursive.
Newer(events, after) ==
  LET kept == {i \in DOMAIN events : events[i].seq > after}
  IN [n \in 1 .. Cardinality(kept) |->
        events[CHOOSE i \in kept : Cardinality({j \in kept : j <= i}) = n]]

\* (slip: the cursor before the first event counts as pruned)
PageFromFirst(turn, after) ==
  IF after < turn.first
  THEN [mode |-> "pruned", events |-> <<>>, next |-> after, more |-> FALSE]
  ELSE LET newer == Newer(turn.events, after)
           page == SubSeq(newer, 1, Min({PageSize, Len(newer)}))
           next == IF page = <<>> THEN after ELSE Last(page).seq
       IN [mode |-> "events", events |-> page, next |-> next,
           more |-> next < turn.last]

\* turn.reconcile: an error, the whole answer, or the next events.
Page(turn, after) ==
  IF after < turn.first - 1
  THEN IF IsOver(turn) /\ turn.whole
       THEN [mode |-> "snapshot", events |-> <<>>, next |-> turn.last,
             more |-> FALSE]
       ELSE [mode |-> "pruned", events |-> <<>>, next |-> after, more |-> FALSE]
  ELSE LET newer == Newer(turn.events, after)
           page == SubSeq(newer, 1, Min({PageSize, Len(newer)}))
           next == IF page = <<>> THEN after ELSE Last(page).seq
       IN [mode |-> "events", events |-> page, next |-> next,
           more |-> next < turn.last]
=============================================================================
