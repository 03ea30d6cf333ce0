----------------------------- MODULE TurnState -----------------------------
(***************************************************************************)
(* What the turn recovery of one chat is made of: the phone's coordinator  *)
(* and its journal, one connection at a time, and the gateway's ledger of  *)
(* turns.  TurnGateway and TurnCoordinator act on it.                      *)
(***************************************************************************)
EXTENDS TurnJournal

CONSTANTS
  Turn,        \* prompts the user may send
  Chat,        \* the one scope of the journal that is looked at
  Faults,      \* the kinds of trouble that occur in a run, see FaultKind
  MaxFaults,   \* bound of the trouble in a run
  MaxLog,      \* bound of the events of a turn
  MaxLive,     \* bound of the frames waiting at the phone
  PageSize,    \* events in a reconcile page
  MaxTime      \* bound of the clock

FaultKind == {"socket",    \* the connection breaks
              "crash",     \* the app is killed
              "storage",   \* a journal write throws, written or not
              "timeout",   \* an answer does not come in time
              "garble",    \* a frame cannot be understood
              "miss",      \* an event is not delivered live
              "prune",     \* the gateway drops the events of a turn
              "overtake"}  \* a call queued before the connection broke

ASSUME TurnAssumption ==
  /\ Faults \subseteq FaultKind
  /\ MaxFaults \in Nat
  /\ MaxLog \in Nat \ {0, 1}   \* an event of acceptance, and an end
  /\ MaxLive \in Nat \ {0}
  /\ PageSize \in Nat \ {0} /\ MaxTime \in Nat \ {0}

VARIABLES
  gw,        \* the gateway's ledger: [known, log, first] of each turn
  wire,      \* submit frames the gateway has not read, of this connection
  stray,     \* the same of earlier connections
  subs,      \* turns whose events the gateway sends down this connection
  live,      \* their frames in the coordinator's queue
  sock,      \* the coordinator's socket: "down", "up" or, closed under it
             \* but not yet noticed, "lost"
  mem,       \* the coordinator's maps: [states, tombs, floors, settles]
  op,        \* the call the coordinator is working on
  db,        \* the journal
  poison,    \* failures of this process that could not be written
  now,       \* the phone's clock, which may be set back
  used,      \* turns submitted so far: their ids are random UUIDs
  faults     \* trouble so far

gatewayVars == <<gw, stray>>
connectionVars == <<wire, subs, live, sock>>
phoneVars == <<mem, op, db, poison>>
vars == <<gatewayVars, connectionVars, phoneVars, now, used, faults>>

-----------------------------------------------------------------------------
(* The gateway's ledger *)

NoTurn == [known |-> FALSE, log |-> <<>>, first |-> 1]

\* The status of a turn whose first n events are given.
StatusAt(log, n) ==
  LET told == {i \in 1..n : log[i].kind # "delta"}
  IN IF told = {} THEN "accepted"
     ELSE StatusOf(log[CHOOSE i \in told : \A j \in told : j <= i], None)

LedgerStatus(ledger) == StatusAt(ledger.log, Len(ledger.log))
Running(ledger) == ledger.known /\ LedgerStatus(ledger) \notin Terminal

\* What the deltas of a log say.
WholeText(log) == {i \in 1..Len(log) : log[i].kind = "delta"}

Message(n, kind) ==
  [seq |-> n, kind |-> kind, status |-> None, text |-> {}]
StatusEvent(n, status) ==
  [seq |-> n, kind |-> "status", status |-> status, text |-> {}]
CompleteEvent(n, text) ==
  [seq |-> n, kind |-> "complete", status |-> "completed", text |-> text]

-----------------------------------------------------------------------------
(* The coordinator's maps, partial functions of the turns *)

NoMemory == [states |-> <<>>, tombs |-> <<>>, floors |-> <<>>,
             settles |-> [t \in Turn |-> 0]]

With(f, t, v) ==
  [u \in DOMAIN f \cup {t} |-> IF u = t THEN v ELSE f[u]]
Without(f, t) == Restrict(f, DOMAIN f \ {t})
Active == DOMAIN mem.states

\* _remember: the state is current, whatever was settled before.
Remember(m, t, s) ==
  [states |-> With(m.states, t, s), floors |-> m.floors,
   tombs |-> Without(m.tombs, t), settles |-> m.settles]

\* A state that memory takes up together with the time of its entry.
Tracked(m, t, s, at) ==
  [states |-> With(m.states, t, s), floors |-> With(m.floors, t, at),
   tombs |-> m.tombs, settles |-> m.settles]

\* _settleState: kept for late frames only; told to the application, which
\* is counted up to two.
Settle(m, t, s) ==
  [states |-> Without(m.states, t), floors |-> Without(m.floors, t),
   tombs |-> With(m.tombs, t, ReleasePayloads(s)),
   settles |-> [m.settles EXCEPT ![t] = IF @ < 2 THEN @ + 1 ELSE 2]]

Discarded(m, t) ==
  [states |-> Without(m.states, t), floors |-> Without(m.floors, t),
   tombs |-> m.tombs, settles |-> m.settles]

Unsettled(s) == ~FailClosed(s) /\ ~IsTerminal(s)
Done(s) == FailClosed(s) \/ (IsTerminal(s) /\ ~MustReconcile(s))
SettleIfDone(m, t, s) == IF Done(s) THEN Settle(m, t, s) ELSE m

-----------------------------------------------------------------------------
(* The calls of a coordinator run one after another *)

Idle == [kind |-> "idle"]
Armed(t) == [kind |-> "armed", turn |-> t]             \* written ahead
Sent(t, reply) == [kind |-> "sent", turn |-> t, reply |-> reply]
Interrupting(t) == [kind |-> "interrupting", turn |-> t]

\* Entries still to be recovered, for a call that closes the coordinator when
\* that fails ("ensure"), only its new socket ("bare") or nothing ("pending").
Recovering(todo, mode) ==
  IF todo = {} THEN Idle
  ELSE [kind |-> "recover", todo |-> todo, mode |-> mode]

\* The state is not written before it has passed `durable`.  context: what
\* the call was about; of a recovery, the rest of it.
Reconciling(t, cursor, durable, context) ==
  [kind |-> "reconcile", turn |-> t, cursor |-> cursor, durable |-> durable,
   context |-> context]

\* A connection is given up: `bad` turns are quarantined, `rest` turns become
\* uncertain, `again` are settled once more by the caller, and `release` says
\* when the coordinator forgets everything: "never", "always" or "unpoisoned".
Severing(m, bad, again, release) ==
  LET open == {t \in DOMAIN m.states : Unsettled(m.states[t])}
  IN [kind |-> "sever", bad |-> bad \cap open, rest |-> open \ bad,
      again |-> again, release |-> release]

\* The client is closed; what it wrote may still arrive.
Disconnect ==
  /\ sock' = "down"
  /\ wire' = {} /\ stray' = stray \cup wire
  /\ subs' = {} /\ live' = <<>>

-----------------------------------------------------------------------------
(* Trouble and the journal *)

CanFail(kind) == kind \in Faults /\ faults < MaxFaults
Fails(kind) == CanFail(kind) /\ faults' = faults + 1

Later(a, b) == IF a > b THEN a ELSE b
Since(m, t) == IF t \in DOMAIN m.floors THEN Later(m.floors[t], now) ELSE now

\* What becomes of writing s: written, refused by the journal, or a failure
\* of the store that may have left either content.
Writes(t, s) ==
  LET at == Since(mem, t)
      written == Upsert(db, Entry(Chat, t, s, at), now)
  IN [ok : {TRUE}, db : written, at : {at}, cost : {0}]
     \cup [ok : {FALSE}, at : {at},
           db : IF written = {} THEN {db} ELSE {}, cost : {0}]
     \cup [ok : {FALSE}, at : {at}, cost : {1},
           db : IF CanFail("storage") /\ written # {}
                THEN written \cup {db} ELSE {}]

\* _persistAndNotify, of a state already remembered.
Persist(t, s, w) ==
  LET m == Remember(mem, t, s)
  IN /\ w \in Writes(t, s)
     /\ db' = w.db
     /\ faults' = faults + w.cost
     /\ poison' = IF ~w.ok /\ FailClosed(s) THEN RecordPoison(poison, Chat)
                  ELSE poison
     /\ mem' = IF w.ok
               THEN SettleIfDone([m EXCEPT !.floors = With(@, t, w.at)], t, s)
               ELSE m
=============================================================================
