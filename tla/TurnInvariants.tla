--------------------------- MODULE TurnInvariants ---------------------------
(***************************************************************************)
(* The inductive invariants behind the properties of TurnSystem: what the  *)
(* gateway's ledger, the coordinator's maps, the journal and the call at   *)
(* work agree upon between two steps.  Each part is a predicate of the     *)
(* values it relates, g a turn of the ledger, G the ledger, m the maps, d  *)
(* the journal, o the call, and so on, so that it can be told of a state   *)
(* that is only being computed.                                            *)
(***************************************************************************)
EXTENDS TurnSystem

\* Whichever prompt is written next, what has not expired of the others leaves
\* it a place, so that nothing is evicted for it.
RoomIn(d, time) ==
  /\ IsFiniteSet(d.entries)
  /\ \A t \in Turn :
       Cardinality({e \in d.entries : e.turn # t /\ ~Expired(e, time)}) < MaxEntries

Roomy == RoomIn(db, now)

-----------------------------------------------------------------------------
(* The gateway *)

\* The events of a turn are numbered and follow the course of a turn: only a
\* running one speaks, nothing follows its end, it completes with its text.
LedgerOK(g) ==
  /\ g \in [known : BOOLEAN, log : Seq(Event(MaxLog)), first : 1..(MaxLog + 1)]
  /\ Len(g.log) <= MaxLog
  /\ ~g.known => g.log = <<>>
  /\ Running(g) => Len(g.log) < MaxLog
  /\ \A i \in 1..Len(g.log) :
       /\ g.log[i].seq = i
       /\ StatusAt(g.log, i) \in Status
       /\ StatusAt(g.log, i) \in Terminal => i = Len(g.log)
       /\ g.log[i].kind = "delta" => StatusAt(g.log, i - 1) = "running"
       /\ StatusAt(g.log, i) = "completed" =>
            g.log[i].kind = "complete" /\ g.log[i].text = WholeText(g.log)

\* h is the same turn, now or later.
Extends(g, h) ==
  /\ g.known => h.known
  /\ Len(g.log) <= Len(h.log)
  /\ \A i \in 1..Len(g.log) : h.log[i] = g.log[i]
  /\ LedgerStatus(g) \in Terminal => h.log = g.log

\* A frame shows an event of the ledger.
Shows(G, frame) ==
  LET g == G[frame.turn]
  IN g.known /\ frame.event.seq <= Len(g.log)
     /\ frame.event = g.log[frame.event.seq]

\* W: the submissions that the gateway has not read, U: the ids given out.
TrafficOK(G, W, U, L) ==
  /\ W \subseteq U /\ U \subseteq Turn
  /\ \A t \in Turn : G[t].known => t \in U \ W
  /\ L \in Seq([turn : Turn, event : Event(MaxLog)]) /\ Len(L) <= MaxLive
  /\ \A i \in 1..Len(L) : Shows(G, L[i])

-----------------------------------------------------------------------------
(* What the phone holds of a turn *)

\* Agrees, of any turn of a ledger.
Mirrors(g, s) ==
  /\ s.bound => g.known
  /\ s.lastSeq <= Len(g.log)
  /\ ~FailClosed(s) /\ s.status # None => s.status = StatusAt(g.log, s.lastSeq)
  /\ ~FailClosed(s) /\ s.status = "completed" => s.result = WholeText(g.log)

\* A state of the reducer; it also holds in the middle of a page.
ReducerOK(g, s) ==
  /\ s \in State(MaxLog)
  /\ Mirrors(g, s)
  /\ \A e \in s.held : e.seq <= Len(g.log) /\ e = g.log[e.seq]
  /\ ~s.bound => s.status = None
  /\ s.status = None => s.lastSeq = 0
  /\ s.result # NoResult => IsTerminal(s)
  /\ FailClosed(s) \/ IsTerminal(s) => ~s.uncertain /\ ~s.pending

\* What is not known of a turn is known to be unknown.
StateOK(g, s) ==
  /\ ReducerOK(g, s)
  /\ ~FailClosed(s) /\ (~s.bound \/ s.status = None) => s.uncertain

EntryType ==
  [scope : {Chat}, turn : Turn, bound : BOOLEAN, status : Status \cup {None},
   lastSeq : 0..MaxLog, result : SUBSET (0..MaxLog), uncertain : BOOLEAN,
   failure : Failure \cup {None}, at : 1..MaxTime]

EntryOK(G, e) ==
  /\ e \in EntryType
  /\ Rehydratable(e) /\ EntryValid(e)
  /\ Mirrors(G[e.turn], e)

JournalOK(G, U, d) ==
  /\ d = [bindings |-> d.bindings, entries |-> d.entries]
  /\ \A e \in d.entries : EntryOK(G, e) /\ e.turn \in U
  /\ \A e, f \in d.entries : e.turn = f.turn => e = f

MemoryOK(G, U, m) ==
  /\ m = [states |-> m.states, tombs |-> m.tombs, floors |-> m.floors,
          settles |-> m.settles]
  /\ DOMAIN m.states \cup DOMAIN m.tombs \subseteq U
  /\ \A t \in DOMAIN m.states : StateOK(G[t], m.states[t])
  /\ \A t \in DOMAIN m.tombs : ReducerOK(G[t], m.tombs[t])
  /\ \A t \in DOMAIN m.floors : t \in Turn /\ m.floors[t] \in 1..MaxTime

-----------------------------------------------------------------------------
(* The call the coordinator is working on *)

Modes == {"ensure", "bare", "pending"}

TodoOK(G, U, todo) ==
  /\ \A e \in todo : EntryOK(G, e) /\ e.turn \in U
  /\ \A e, f \in todo : e.turn = f.turn => e = f

\* The answer to a submission tells what the ledger was.
ReplyOK(G, W, t, reply) ==
  \/ reply = NoReply
  \/ reply = Rejection /\ ~G[t].known /\ t \notin W
  \/ /\ reply = [kind |-> "ack", status |-> reply.status, lastSeq |-> reply.lastSeq]
     /\ G[t].known
     /\ reply.lastSeq \in 0..Len(G[t].log)
     /\ reply.status = StatusAt(G[t].log, reply.lastSeq)

\* The turn of a call is one that memory still has to reconcile.
CallOK(m, o) ==
  o.kind \in {"armed", "sent", "interrupting", "reconcile"} =>
    /\ o.turn \in DOMAIN m.states /\ MustReconcile(m.states[o.turn])
    /\ o.kind \in {"armed", "sent"} => o.turn \notin DOMAIN m.tombs

ContextOK(G, U, t, context) ==
  /\ context = [kind |-> context.kind, todo |-> context.todo,
                mode |-> context.mode]
  /\ context.mode \in Modes
  /\ TodoOK(G, U, context.todo)
  /\ \A e \in context.todo : e.turn # t

OpOK(G, W, U, m, o) ==
  /\ o.kind \in {"idle", "armed", "sent", "interrupting", "reconcile",
                 "recover", "sever"}
  /\ CallOK(m, o)
  /\ o.kind = "idle" => o = Idle
  /\ o.kind = "armed" => /\ o = Armed(o.turn)
                         /\ ~G[o.turn].known /\ o.turn \notin W
  /\ o.kind = "sent" => o = Sent(o.turn, o.reply) /\ ReplyOK(G, W, o.turn, o.reply)
  /\ o.kind = "interrupting" => o = Interrupting(o.turn)
  /\ o.kind = "recover" => /\ o = Recovering(o.todo, o.mode)
                           /\ o.mode \in Modes /\ TodoOK(G, U, o.todo)
  /\ o.kind = "reconcile" =>
       /\ o = Reconciling(o.turn, o.cursor, o.durable, o.context)
       /\ {o.cursor, o.durable} \subseteq 0..Len(G[o.turn].log)
       /\ ContextOK(G, U, o.turn, o.context)

\* Between two calls everything in memory is open; a connection that is given
\* up still has to be told of `bad` and `rest`.
SeverOK(m, k, o) ==
  /\ o.kind # "sever" => \A t \in DOMAIN m.states : Unsettled(m.states[t])
  /\ o.kind = "sever" =>
       /\ o = [kind |-> "sever", bad |-> o.bad, rest |-> o.rest,
               again |-> o.again, release |-> o.release]
       /\ k = "down"
       /\ \A t \in o.bad \cup o.rest : /\ t \in DOMAIN m.states
                                       /\ Unsettled(m.states[t])
       /\ o.bad \cap o.rest = {}
       /\ o.again \subseteq DOMAIN m.states \cup DOMAIN m.tombs

\* A failure that could not be written stops the chat.
QuietOK(k, o, p) ==
  /\ p \in [scopes : SUBSET {Chat}, all : BOOLEAN]
  /\ Poisoned(p, Chat) => k = "down" /\ o.kind \in {"idle", "sever"}

TurnInv ==
  /\ gw = [t \in Turn |-> gw[t]] /\ \A t \in Turn : LedgerOK(gw[t])
  /\ TrafficOK(gw, wire \cup stray, used, live)
  /\ subs \subseteq Turn /\ sock \in {"down", "up", "lost"}
  /\ now \in 1..MaxTime /\ faults \in 0..MaxFaults
  /\ JournalOK(gw, used, db)
  /\ MemoryOK(gw, used, mem)
  /\ OpOK(gw, wire \cup stray, used, mem, op)
  /\ SeverOK(mem, sock, op)
  /\ QuietOK(sock, op, poison)

-----------------------------------------------------------------------------
(* What is in the journal, when it has room *)

Of(d, t) == {e \in d.entries : e.turn = t}
Final(e) == Settled(e) \/ FailClosed(e)

\* A prompt that may run, or runs, has an entry.
RecordedOK(G, W, d, o) ==
  \A t \in Turn :
    t \in W \/ Running(G[t]) \/ o = Armed(t) => Of(d, t) # {}

\* A failure in memory is in the journal, unless the chat is stopped.
SealedOK(d, m, p) ==
  Poisoned(p, Chat) \/
    /\ \A t \in DOMAIN m.states :
         FailClosed(m.states[t]) => \E e \in Of(d, t) : FailClosed(e)
    /\ \A t \in DOMAIN m.tombs :
         FailClosed(m.tombs[t]) => \E e \in Of(d, t) : FailClosed(e)

\* What is open in memory is open in the journal.
FreshOK(d, m) ==
  \A t \in DOMAIN m.states :
    Unsettled(m.states[t]) => \A e \in Of(d, t) : ~Final(e)

\* The journal has not overtaken what is still to be recovered.
TodoFresh(d, todo) ==
  \A e \in todo : /\ FailClosed(e) => \E f \in Of(d, e.turn) : FailClosed(f)
                  /\ ~Final(e) => \A f \in Of(d, e.turn) : ~Final(f)

AheadOK(d, o) ==
  /\ o.kind = "recover" => TodoFresh(d, o.todo)
  /\ o.kind = "reconcile" => TodoFresh(d, o.context.todo)

RecordInv ==
  /\ RecordedOK(gw, wire \cup stray, db, op)
  /\ SealedOK(db, mem, poison)
  /\ FreshOK(db, mem)
  /\ AheadOK(db, op)
=============================================================================
