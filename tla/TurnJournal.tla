---------------------------- MODULE TurnJournal ----------------------------
(***************************************************************************)
(* The encrypted journal of gateway_turn_journal.dart: one value in the    *)
(* device's key store that holds, for every chat (scope), the server's     *)
(* binding of the chat and an entry per submitted prompt (turn).           *)
(*                                                                         *)
(* Every operation reads the value, changes it, compacts it and writes it  *)
(* back under a lock, so it is an operator from a journal to the set of    *)
(* journals it may produce: {} when the code throws, several when the      *)
(* eviction must choose between equally old rows.                          *)
(***************************************************************************)
EXTENDS TurnRecovery

CONSTANTS MaxEntries, MaxBindings, ActiveRetention, TerminalRetention

ASSUME JournalAssumption ==
  /\ MaxEntries \in Nat \ {0}
  /\ MaxBindings \in Nat \ {0}
  /\ ActiveRetention \in Nat
  /\ TerminalRetention \in Nat

(* db.bindings: records [scope, at]; db.entries: records [scope, turn, at]  *)
(* with the fields of a reducer's state that survive a restart.             *)
EmptyJournal == [bindings |-> {}, entries |-> {}]

Entry(scope, turn, s, at) ==
  [scope |-> scope, turn |-> turn, bound |-> s.bound, status |-> s.status,
   lastSeq |-> s.lastSeq, result |-> s.result, uncertain |-> s.uncertain,
   failure |-> s.failure, at |-> at]

\* What the constructor of an entry accepts.
EntryValid(e) ==
  /\ e.result # NoResult => IsTerminal(e) /\ e.bound /\ e.lastSeq > 0
                            /\ ~e.uncertain /\ ~FailClosed(e)
  /\ e.status = "completed" => FailClosed(e) \/ e.result # NoResult
  /\ ~(FailClosed(e) /\ e.uncertain)

\* Done and certain: nothing is lost when the entry is dropped.
Settled(e) == IsTerminal(e) /\ ~e.uncertain /\ ~FailClosed(e)

-----------------------------------------------------------------------------
(* Which entry may replace which *)

JournalTransitionAllowed(from, to) ==
  \/ from = to
  \/ /\ from \notin Terminal
     /\ \/ to \in Terminal
        \/ <<from, to>> \in {<<"accepted", "running">>,
                             <<"running", "waiting_input">>,
                             <<"waiting_input", "running">>}

SameCourse(old, new) ==
  /\ <<new.bound, new.status, new.lastSeq>>
       = <<old.bound, old.status, old.lastSeq>>
  /\ <<new.result, new.uncertain>> = <<old.result, old.uncertain>>

UpdateAllowed(old, new) ==
  /\ old.bound => new.bound
  /\ old.lastSeq <= new.lastSeq
  /\ old.at <= new.at
  /\ old.result # NoResult => new.result = old.result
  /\ old.status # None => /\ new.status # None
                          /\ JournalTransitionAllowed(old.status, new.status)
  /\ FailClosed(old) => SameCourse(old, new) /\ new.failure = old.failure
  /\ IsTerminal(old) => SameCourse(old, new)

-----------------------------------------------------------------------------
(* Retention *)

\* The n oldest rows of S, whichever of equally old ones the sort puts first.
Oldest(S, n) ==
  {T \in kSubset(n, S) : \A x \in T, y \in S \ T : x.at <= y.at}

\* (slip: a quarantined entry expires like a settled one)
ExpiredDone(e, now) ==
  (Settled(e) \/ FailClosed(e)) /\ now - e.at > TerminalRetention

Expired(e, now) == Settled(e) /\ now - e.at > TerminalRetention

\* Quarantined or given up; evicted only where nothing settled is left.
LastResort(e, now) == FailClosed(e) \/ now - e.at > ActiveRetention

\* (slips: settled entries alone make room; any entry does)
EvictSettledOnly(entries, now) ==
  LET settled == {e \in entries : Settled(e)}
      excess == Cardinality(entries) - MaxEntries
  IN IF excess <= 0 THEN {entries}
     ELSE {entries \ T : T \in Oldest(settled, excess)}

EvictAnyone(entries, now) ==
  LET excess == Cardinality(entries) - MaxEntries
  IN IF excess <= 0 THEN {entries}
     ELSE {entries \ T : T \in Oldest(entries, excess)}

\* The sets of entries that remain; none when too many are pending.
Evict(entries, now) ==
  LET settled == {e \in entries : Settled(e)}
      stale == {e \in entries \ settled : LastResort(e, now)}
      excess == Cardinality(entries) - MaxEntries
  IN IF excess <= 0 THEN {entries}
     ELSE IF excess <= Cardinality(settled)
     THEN {entries \ T : T \in Oldest(settled, excess)}
     ELSE {entries \ (settled \cup T) :
             T \in Oldest(stale, excess - Cardinality(settled))}

\* (slip: a binding is evicted although entries refer to it)
EvictAnyBinding(bindings, entries, protected) ==
  LET excess == Cardinality(bindings) - MaxBindings
  IN IF excess <= 0 THEN {bindings}
     ELSE {bindings \ T :
             T \in Oldest({b \in bindings : b.scope \notin protected}, excess)}

EvictBindings(bindings, entries, protected) ==
  LET removable == {b \in bindings : /\ b.scope \notin protected
                                     /\ \A e \in entries : e.scope # b.scope}
      excess == Cardinality(bindings) - MaxBindings
  IN IF excess <= 0 THEN {bindings}
     ELSE {bindings \ T : T \in Oldest(removable, excess)}

Compact(db, now, protected) ==
  LET fresh == {e \in db.entries : ~Expired(e, now)}
  IN UNION {{[bindings |-> bindings, entries |-> entries] :
               bindings \in EvictBindings(db.bindings, entries, protected)} :
             entries \in Evict(fresh, now)}

-----------------------------------------------------------------------------
(* Operations *)

BindingOf(db, scope) == {b \in db.bindings : b.scope = scope}
EntriesOf(db, scope) == {e \in db.entries : e.scope = scope}

UpsertBinding(db, scope, at, now) ==
  IF \A b \in BindingOf(db, scope) : b.at <= at
  THEN Compact([db EXCEPT !.bindings = (@ \ BindingOf(db, scope))
                                       \cup {[scope |-> scope, at |-> at]}],
               now, {scope})
  ELSE {}

Upsert(db, entry, now) ==
  LET old == {e \in EntriesOf(db, entry.scope) : e.turn = entry.turn}
  IN IF /\ EntryValid(entry)
        /\ BindingOf(db, entry.scope) # {}
        /\ \A e \in old : UpdateAllowed(e, entry)
     THEN Compact([db EXCEPT !.entries = (@ \ old) \cup {entry}], now, {})
     ELSE {}

\* Written as it is, without compaction.
Discard(db, scope, turn) ==
  [db EXCEPT !.entries = {e \in @ : e.scope # scope \/ e.turn # turn}]

-----------------------------------------------------------------------------
(* Failures that could not be written, kept in memory until the process     *)
(* ends; when there are too many, every scope counts as failed.             *)

NoPoison == [scopes |-> {}, all |-> FALSE]

Poisoned(poison, scope) == poison.all \/ scope \in poison.scopes

\* (slips: the failure is not kept; the newest one replaces the others)
RecordNoPoison(poison, scope) == poison

RecordLastPoison(poison, scope) ==
  IF Cardinality(poison.scopes) >= MaxBindings
  THEN [poison EXCEPT !.scopes = {scope}]
  ELSE [poison EXCEPT !.scopes = @ \cup {scope}]

RecordPoison(poison, scope) ==
  CASE Poisoned(poison, scope) -> poison
    [] ~Poisoned(poison, scope) ->
         IF Cardinality(poison.scopes) >= MaxBindings
         THEN [poison EXCEPT !.all = TRUE]
         ELSE [poison EXCEPT !.scopes = @ \cup {scope}]
=============================================================================
