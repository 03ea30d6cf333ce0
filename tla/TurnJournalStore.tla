-------------------------- MODULE TurnJournalStore --------------------------
(***************************************************************************)
(* One journal shared by the chats of a device, as their coordinators use  *)
(* it: a chat is bound, its prompts are written ahead, updated and, when   *)
(* the gateway refused one, removed.  The store itself is reliable here;   *)
(* failing writes belong to TurnCoordinator.                               *)
(***************************************************************************)
EXTENDS TurnJournal

CONSTANTS
  Scope,       \* chats
  Turn,        \* prompts
  ScopeOf,     \* the chat of a prompt
  MaxTime      \* bound of the clock

ASSUME StoreAssumption == ScopeOf \in [Turn -> Scope] /\ MaxTime \in Nat \ {0}

VARIABLES
  db,          \* the journal on the device
  poison,      \* failures of this process that could not be written
  now          \* the device's clock

vars == <<db, poison, now>>

\* Representative states of a prompt, in the order it passes through them.
Submitted == MarkUncertain(Initial)
Running == [Initial EXCEPT !.bound = TRUE, !.status = "running", !.lastSeq = 1]
Completed == [Running EXCEPT !.status = "completed", !.lastSeq = 2,
                             !.result = {1}]
Quarantined == Fail(Submitted, "turnUnknown")
Course == {Submitted, Running, Completed, Quarantined}

TypeOK ==
  /\ db.bindings \subseteq [scope : Scope, at : 1..MaxTime]
  /\ db.entries \subseteq {Entry(s, t, c, n) : s \in Scope, t \in Turn,
                                               c \in Course, n \in 1..MaxTime}
  /\ poison \in [scopes : SUBSET Scope, all : BOOLEAN]
  /\ now \in 1..MaxTime

Init == db = EmptyJournal /\ poison = NoPoison /\ now = 1

-----------------------------------------------------------------------------

\* (slip: a time is taken anew although the clock stands)
CausalStep(times) == 1 + CHOOSE n \in times : \A m \in times : m <= n

\* Times never run behind those already in the journal.
Causal(times) == CHOOSE n \in times : \A m \in times : m <= n

\* A fresh session.open.
Bind(scope) ==
  /\ db' \in UpsertBinding(db, scope,
               Causal({now} \cup {b.at : b \in BindingOf(db, scope)}), now)
  /\ UNCHANGED <<poison, now>>

Save(turn, state) ==
  LET scope == ScopeOf[turn]
      old == {e \in EntriesOf(db, scope) : e.turn = turn}
      at == Causal({now} \cup {e.at : e \in old})
  IN /\ old = {} => state = Submitted
     /\ db' \in Upsert(db, Entry(scope, turn, state, at), now)
     /\ UNCHANGED <<poison, now>>

Forget(turn) ==
  /\ db' = Discard(db, ScopeOf[turn], turn)
  /\ UNCHANGED <<poison, now>>

Poison(scope) ==
  /\ poison' = RecordPoison(poison, scope)
  /\ UNCHANGED <<db, now>>

Restart == poison' = NoPoison /\ UNCHANGED <<db, now>>

\* The clock runs, or is set.
ClockChange == now' \in 1..MaxTime /\ UNCHANGED <<db, poison>>

Next ==
  \/ \E scope \in Scope : Bind(scope) \/ Poison(scope)
  \/ \E turn \in Turn : Forget(turn) \/ \E state \in Course : Save(turn, state)
  \/ Restart
  \/ ClockChange

Spec == Init /\ [][Next]_vars

-----------------------------------------------------------------------------
(* Properties *)

\* A prompt whose fate is open, not yet older than the retention of such.
Pending(e) == ~Settled(e) /\ ~LastResort(e, now)

\* The journal that was written can be read again: _readData throws for every
\* chat when there are too many rows or an entry names no binding.
Readable ==
  /\ Cardinality(db.entries) <= MaxEntries
  /\ Cardinality(db.bindings) <= MaxBindings
  /\ \A e \in db.entries : BindingOf(db, e.scope) # {}
  /\ \A e, f \in db.entries : e.scope = f.scope /\ e.turn = f.turn => e = f
  /\ \A b, c \in db.bindings : b.scope = c.scope => b = c

\* Making room never forgets a prompt whose fate is open: it leaves the journal
\* only by the removal of that prompt (_compact, GatewayTurnJournal.remove).
PendingIsKept ==
  [][\A e \in db.entries :
       Pending(e) => \/ \E f \in db'.entries : f.turn = e.turn
                     \/ Forget(e.turn)]_vars

\* A new prompt of a bound chat is refused only while the journal is full of
\* prompts whose fate is open: neither quarantined nor stale entries lock the
\* device out of its chats (the comment in _compact).
NoLockout ==
  \A turn \in Turn :
    \/ BindingOf(db, ScopeOf[turn]) = {}
    \/ \E e \in db.entries : e.turn = turn
    \/ Upsert(db, Entry(ScopeOf[turn], turn, Submitted, now), now) # {}
    \/ Cardinality({e \in db.entries : Pending(e)}) >= MaxEntries

\* A failure that could not be written stops its chat until the process ends,
\* however many chats fail after it (recordProcessPoison never evicts).
PoisonAbsorbs ==
  [][\A scope \in Scope :
       /\ Poisoned(poison, scope) => Poisoned(poison', scope) \/ Restart
       /\ Poison(scope) => Poisoned(poison', scope)]_vars
=============================================================================
