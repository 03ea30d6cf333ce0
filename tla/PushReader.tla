----------------------------- MODULE PushReader -----------------------------
(***************************************************************************)
(* A phone that reads its events page by page                              *)
(* (server/mobile-push/mobile_push/api.py, GET /events; Store.events)      *)
(* while the server of PushServer goes on: events are committed, pruned    *)
(* and cancelled, its registration is renewed, and the operator edits the  *)
(* policy between two pages and inside one.                                *)
(***************************************************************************)
EXTENDS PushServer

CONSTANTS
  Reader,       \* the principal that reads
  PageLimit     \* limit of its queries

ASSUME ReaderAssumption == Reader \in Principal /\ PageLimit \in Nat \ {0}

\* binding: what the queries name; cursor: next_cursor of the last page.  seen and refused are history: what the
\* pages held, and what they passed over as not permitted.  upto is how far the
\* phone believes it has read: beyond the cursor when the last page was the last.
VARIABLE reader

Unbound == [installation |-> None, generation |-> 0]
Bindings == {Unbound} \cup [installation : Installation, generation : Nat \ {0}]

Reading ==
  [binding : Bindings, cursor : Nat, seen : SUBSET Nat, refused : SUBSET Nat,
   upto : Nat]

NoReader ==
  [binding |-> Unbound, cursor |-> 0, seen |-> {}, refused |-> {},
   upto |-> 0]

\* Bound to a generation that is not active, or to somebody else's: 409, 404.
BindingHolds(d, binding) ==
  LET row == d.reg[binding.installation]
  IN  binding # Unbound =>
        /\ row.owner = Reader
        /\ row.status = "active"
        /\ row.generation = binding.generation

EventPermitted(d, binding, e, pol, sessions) ==
  IF binding = Unbound
  THEN \/ e.kind = "challenge"
       \/ Allowed(pol, Reader, e.session) /\ e.session \in sessions
  ELSE LET row == d.reg[binding.installation]
       IN  /\ e.kind \in row.kinds
           /\ ScopeAllows(row.scope, Reader, e.session, pol)
           /\ e.session \in sessions

\* The rows after a cursor; the table holds no more than the query's LIMIT.
Unread(d, after, time) ==
  {e \in d.events : /\ e.owner = Reader /\ e.cursor > after
                    /\ e.expires > time /\ ~ e.cancelled}

\* (slip: the row that did not fit moves the cursor)
PassedOnce(rows, visible, permitted) ==
  {e \in rows : Cardinality({f \in permitted \ visible : f.cursor < e.cursor}) = 0}

\* The rows a page deals with: those before the first that did not fit.
Passed(rows, visible, permitted) ==
  {e \in rows : \A f \in permitted \ visible : e.cursor < f.cursor}

EventPage(d, binding, after, pol, sessions, time) ==
  LET rows == Unread(d, after, time)
      permitted == {e \in rows : EventPermitted(d, binding, e, pol, sessions)}
      visible == {e \in permitted :
                    Cardinality({f \in permitted : f.cursor < e.cursor}) < PageLimit}
      passed == Passed(rows, visible, permitted)
  IN  [visible |-> {e.cursor : e \in visible},
       refused |-> {e.cursor : e \in passed \ permitted},
       next |-> IF passed = {} THEN after ELSE Top({e.cursor : e \in passed}),
       more |-> visible # permitted]

\* From the start, with the binding the phone knows now (else 422).
ReadAnew(binding) ==
  /\ binding \in Bindings
  /\ reader' = [NoReader EXCEPT !.binding = binding]
  /\ reader' # reader
  /\ UNCHANGED vars

\* One query.  Store() writes, so it waits for a send; registration and events
\* are of one snapshot.  The policy was read before the store was opened and the
\* durable sessions are looked up after: both may be of another time.
ReadPage(pol, sessions) ==
  LET page == EventPage(db, reader.binding, reader.cursor, pol, sessions, now)
  IN  /\ pol.readable /\ pol.enabled /\ Admitted(pol, Reader)
      /\ Opened /\ ~ Locked
      /\ BindingHolds(db, reader.binding)
      /\ reader' = [reader EXCEPT
                      !.cursor = page.next,
                      !.seen = @ \cup page.visible,
                      !.refused = @ \cup page.refused,
                      !.upto = IF page.more THEN page.next ELSE db.cursor]
      /\ UNCHANGED vars

ReadStep ==
  \/ \E binding \in {Unbound} \cup
                    {[installation |-> i, generation |-> db.reg[i].generation] :
                       i \in {j \in Installation : db.reg[j].status = "active"}} :
       ReadAnew(binding)
  \/ \E pol \in Policies, sessions \in DurableSets : ReadPage(pol, sessions)

ReaderInit == Init /\ reader = NoReader

ReaderNext == ReadStep \/ (Next /\ UNCHANGED reader)

ReaderSpec == ReaderInit /\ [][ReaderNext]_<<vars, reader>>

-----------------------------------------------------------------------------

\* No page skips an event, whatever is committed, cancelled or pruned between
\* two pages: an event that can still be read was shown, or was refused by the
\* policy of the page that passed it, once the phone has read beyond it - and
\* beyond everything there was when a page said that it was the last one
\* (docs/mobile-push-server.md:402, "follow has_more until false").
NothingIsSkipped ==
  \A e \in Unread(db, 0, now) :
    e.cursor <= reader.upto => e.cursor \in reader.seen \cup reader.refused

\* With what the phone has read up to, the inductive invariant of the proof.
ReadInv ==
  /\ reader \in Reading
  /\ reader.cursor <= reader.upto
  /\ reader.upto <= db.cursor
  /\ NothingIsSkipped

=============================================================================
