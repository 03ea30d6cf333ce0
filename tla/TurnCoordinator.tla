-------------------------- MODULE TurnCoordinator --------------------------
(***************************************************************************)
(* The coordinator of one chat (gateway_turn_coordinator.dart).  Its calls *)
(* and the events of its socket run one after another; an action is what   *)
(* happens between two awaits of a call, so that the connection may break, *)
(* the gateway go on or the app be killed between them.                    *)
(***************************************************************************)
EXTENDS TurnGateway

world == <<gw, now, used>>
connection == <<connectionVars, stray>>

Operational == op = Idle /\ ~Poisoned(poison, Chat)
Connected == sock = "up"

-----------------------------------------------------------------------------
(* Giving a connection up *)

\* (slip: the turn is quarantined, the connection stays)
CloseNothing(t, s, release) ==
  /\ op' = Severing(mem', {t}, IF Done(s) THEN {t} ELSE {}, release)
  /\ UNCHANGED <<stray, connectionVars>>

\* A write of s failed in the middle of a call: the connection is closed, and
\* the turn is quarantined unless it is done.
CloseAfter(t, s, release) ==
  /\ Disconnect
  /\ op' = Severing(mem', {t}, IF Done(s) THEN {t} ELSE {}, release)

TransportLost ==
  /\ op = Idle /\ sock = "lost" /\ live = <<>>
  /\ Disconnect
  /\ op' = Severing(mem, {}, {}, "never")
  /\ UNCHANGED <<world, mem, db, poison, faults>>

\* The chat is left, or opening it failed.
Close ==
  /\ op = Idle /\ (sock # "down" \/ mem # NoMemory)
  /\ Disconnect
  /\ op' = Severing(mem, {}, {}, "always")
  /\ UNCHANGED <<world, mem, db, poison, faults>>

\* Settled once when it was written, and once more in any case.
QuarantineStep(t) ==
  LET failed == Fail(mem.states[t], "protocolViolation")
      m == [mem EXCEPT !.states[t] = failed]
  IN /\ op.kind = "sever" /\ t \in op.bad
     /\ \E w \in Writes(t, failed) :
          /\ db' = w.db
          /\ faults' = faults + w.cost
          /\ poison' = IF w.ok THEN poison ELSE RecordPoison(poison, Chat)
          /\ mem' = Settle(IF w.ok THEN Settle(m, t, failed) ELSE m, t, failed)
     /\ op' = [op EXCEPT !.bad = @ \ {t}]
     /\ UNCHANGED <<world, connection>>

\* A turn of a lost connection is uncertain; failing to write that stops
\* nothing.
UncertainStep(t) ==
  LET uncertain == MarkUncertain(mem.states[t])
  IN /\ op.kind = "sever" /\ op.bad = {} /\ t \in op.rest
     /\ IF uncertain = mem.states[t]
        THEN UNCHANGED <<mem, db, poison, faults>>
        ELSE \E w \in Writes(t, uncertain) : Persist(t, uncertain, w)
     /\ op' = [op EXCEPT !.rest = @ \ {t}]
     /\ UNCHANGED <<world, connection>>

Current(m, t) == IF t \in DOMAIN m.states THEN m.states[t] ELSE m.tombs[t]
\* Settle, of several turns.
SettleEach(m, turns) ==
  [states |-> Restrict(m.states, DOMAIN m.states \ turns),
   floors |-> Restrict(m.floors, DOMAIN m.floors \ turns),
   tombs |-> [t \in DOMAIN m.tombs \cup turns |->
                IF t \in turns THEN ReleasePayloads(Current(m, t))
                ELSE m.tombs[t]],
   settles |-> [t \in Turn |-> IF t \in turns /\ m.settles[t] < 2
                               THEN m.settles[t] + 1 ELSE m.settles[t]]]

Severed ==
  LET forget == \/ op.release = "always"
                \/ op.release = "unpoisoned" /\ ~Poisoned(poison, Chat)
      over == {t \in Active : ~Unsettled(mem.states[t])}
  IN /\ op.kind = "sever" /\ op.bad = {} /\ op.rest = {}
     /\ mem' = IF forget THEN NoMemory
               ELSE SettleEach(SettleEach(mem, over), op.again)
     /\ op' = Idle
     /\ UNCHANGED <<world, connection, db, poison, faults>>

Sever == \/ Severed
         \/ \E t \in Turn : QuarantineStep(t) \/ UncertainStep(t)

-----------------------------------------------------------------------------
(* A recovery that fails, and a call that waited for a reconcile *)

RecoverFails(mode, subscribed) ==
  CASE mode = "pending" ->
         op' = Idle /\ subs' = subscribed /\ UNCHANGED <<wire, live, sock, stray>>
    [] mode = "bare" -> op' = Idle /\ Disconnect
    [] mode = "ensure" -> /\ Disconnect
                          /\ op' = Severing(mem', {}, {}, "always")

About(kind) == [kind |-> kind, todo |-> {}, mode |-> "pending"]

\* The exception reaches whoever asked: a live event quarantines its turn and
\* closes the connection, the others pass it on.
CallFails(t, context, subscribed) ==
  IF context.kind = "live"
  THEN Disconnect /\ op' = Severing(mem', {t}, {}, "never")
  ELSE RecoverFails(context.mode, subscribed)

ReleaseOf(context) == IF context.mode = "ensure" THEN "unpoisoned" ELSE "never"

\* _persistWireStateOrClose, then the state's health, then the call goes on.
Conclude(t, s, context, subscribed, next) ==
  \E w \in Writes(t, s) :
    /\ Persist(t, s, w)
    /\ CASE ~w.ok -> CloseAfter(t, s, ReleaseOf(context))
         [] w.ok /\ FailClosed(s) -> CallFails(t, context, subscribed)
         [] w.ok /\ ~FailClosed(s) ->
              op' = next /\ subs' = subscribed
              /\ UNCHANGED <<wire, live, sock, stray>>

-----------------------------------------------------------------------------
(* turn.reconcile *)

\* What a page, bound once, means for the call.
ReconcileApplied(t, page, next) ==
  LET subscribed == IF page.mode = "events" THEN subs \cup {t} ELSE subs
  IN \E s \in {ApplyPage(mem.states[t], page)} :
       LET written == s.lastSeq >= op.durable
           step == IF page.more
                   THEN Reconciling(t, page.next,
                          IF written THEN 0 ELSE op.durable, op.context)
                   ELSE next
       IN IF FailClosed(s) \/ written
          THEN Conclude(t, s, op.context, subscribed, step)
          ELSE /\ mem' = Remember(mem, t, s)
               /\ op' = step /\ subs' = subscribed
               /\ UNCHANGED <<wire, live, sock, stray, db, poison, faults>>

\* The gateway reads a connection in order, submits first.
ReconcileAnswered ==
  LET t == op.turn
      next == Recovering(op.context.todo, op.context.mode)
  IN /\ op.kind = "reconcile" /\ Connected /\ wire = {}
     /\ \E reply \in {ReplyTo(gw[t], op.cursor)} :
          IF reply.error = None THEN ReconcileApplied(t, reply, next)
          ELSE Conclude(t, Fail(mem.states[t], reply.error), op.context, subs,
                        next)
     /\ UNCHANGED world

\* A page that breaks the contract.
ReconcileGarbled ==
  /\ op.kind = "reconcile" /\ Connected /\ "garble" \in Faults
  /\ Conclude(op.turn, Fail(mem.states[op.turn], "protocolViolation"),
              op.context, subs, Idle)
  /\ UNCHANGED world

\* No answer: the state stays as it is, unless a live event was the reason.
ReconcileUnanswered ==
  /\ op.kind = "reconcile"
  /\ \/ sock = "lost" /\ UNCHANGED faults
     \/ Connected /\ Fails("timeout")
  /\ UNCHANGED mem
  /\ \E subscribed \in {subs, IF gw[op.turn].known /\ Connected
                              THEN subs \cup {op.turn} ELSE subs} :
       CallFails(op.turn, op.context, subscribed)
  /\ UNCHANGED <<world, db, poison>>

Reconcile == ReconcileAnswered \/ ReconcileGarbled \/ ReconcileUnanswered

-----------------------------------------------------------------------------
(* Opening a connection and recovering what the journal holds *)

Open(mode) ==
  /\ Operational
  /\ sock = "down" \/ (sock = "lost" /\ "overtake" \in Faults)
  /\ \E at \in {b.at : b \in BindingOf(db, Chat)} \cup {now} :
       /\ \A b \in BindingOf(db, Chat) : b.at <= at
       /\ now <= at
       /\ db' \in UpsertBinding(db, Chat, at, now)
  /\ sock' = "up" /\ wire' = {} /\ stray' = stray \cup wire
  /\ subs' = {} /\ live' = <<>>
  /\ op' = Recovering(EntriesOf(db', Chat), mode)
  /\ UNCHANGED <<world, mem, poison, faults>>

RecoverPending ==
  /\ Operational /\ Connected /\ EntriesOf(db, Chat) # {}
  /\ op' = Recovering(EntriesOf(db, Chat), "pending")
  /\ UNCHANGED <<world, connection, mem, db, poison, faults>>

\* The newest entry first.  A quarantined one stops the recovery; what memory
\* holds as certain is believed.
RecoverStep(e) ==
  LET t == e.turn
      s == IF t \in Active THEN mem.states[t] ELSE Rehydrate(e)
      m == Tracked(mem, t, s, e.at)
      rest == op.todo \ {e}
  IN /\ op.kind = "recover" /\ e \in op.todo
     /\ \A f \in op.todo : f.at <= e.at
     /\ mem' = SettleIfDone(m, t, s)
     /\ CASE FailClosed(s) -> RecoverFails(op.mode, subs)
          [] ~FailClosed(s) /\ ~MustReconcile(s) ->
               op' = Recovering(rest, op.mode) /\ UNCHANGED connection
          [] MustReconcile(s) ->
               /\ op' = Reconciling(t, e.lastSeq, e.lastSeq,
                          [kind |-> "recover", todo |-> rest, mode |-> op.mode])
               /\ UNCHANGED connection
     /\ UNCHANGED <<world, db, poison, faults>>

Recover == op.kind = "recover" /\ \E e \in op.todo : RecoverStep(e)

-----------------------------------------------------------------------------
(* prompt.submit *)

\* The intent is written before the prompt is sent, or it is given up.
SubmitBegin(t) ==
  LET s == MarkUncertain(Initial)
  IN /\ Operational /\ Connected /\ t \notin used
     /\ used' = used \cup {t}
     /\ \E w \in Writes(t, s) :
          /\ db' = w.db
          /\ faults' = faults + w.cost
          /\ op' = IF w.ok THEN Armed(t) ELSE Idle
          /\ mem' = IF w.ok THEN Tracked(mem, t, s, w.at) ELSE mem
     /\ UNCHANGED <<gw, now, connection, poison>>

\* Removing an entry, which may fail either way.
Removal(t, removed) ==
  \/ removed /\ db' = Discard(db, Chat, t) /\ UNCHANGED faults
  \/ ~removed /\ Fails("storage") /\ db' \in {db, Discard(db, Chat, t)}

\* The application changed its mind while the intent was written.
Revoke ==
  /\ op.kind = "armed"
  /\ \E removed \in BOOLEAN :
       /\ Removal(op.turn, removed)
       /\ mem' = IF removed THEN Discarded(mem, op.turn) ELSE mem
  /\ op' = Idle
  /\ UNCHANGED <<world, connection, poison>>

Send ==
  /\ op.kind = "armed" /\ Connected
  /\ wire' = wire \cup {op.turn}
  /\ op' = Sent(op.turn, NoReply)
  /\ UNCHANGED <<world, stray, subs, live, sock, mem, db, poison, faults>>

\* The socket closed while the intent was written.
SendBroken ==
  /\ op.kind = "armed" /\ sock = "lost"
  /\ Conclude(op.turn, Fail(mem.states[op.turn], "protocolViolation"),
              About("submit"), subs, Idle)
  /\ UNCHANGED world

Acknowledged ==
  LET t == op.turn
      s == ApplyAck(mem.states[t], op.reply)
      next == IF MustReconcile(s)
              THEN Reconciling(t, s.lastSeq, 0, About("submit")) ELSE Idle
  IN /\ op.kind = "sent" /\ op.reply.kind = "ack"
     /\ Conclude(t, s, About("submit"), subs, next)
     /\ UNCHANGED world

\* An acknowledgement of something else.
AckMismatched ==
  /\ op.kind = "sent" /\ op.reply.kind = "ack" /\ "garble" \in Faults
  /\ Conclude(op.turn, Fail(mem.states[op.turn], "protocolViolation"),
              About("submit"), subs, Idle)
  /\ UNCHANGED world

\* (slip: a missing answer is taken for a refusal)
AckMissingRefused ==
  /\ op.kind = "sent" /\ op.reply = NoReply /\ sock = "lost"
  /\ db' = Discard(db, Chat, op.turn)
  /\ mem' = Discarded(mem, op.turn)
  /\ op' = Idle
  /\ UNCHANGED <<world, connection, poison, faults>>

\* No acknowledgement, or an unreadable one.
AckMissing ==
  /\ op.kind = "sent"
  /\ \/ op.reply = NoReply /\ sock = "lost" /\ UNCHANGED faults
     \/ op.reply = NoReply /\ Connected /\ Fails("timeout")
     \/ op.reply.kind = "ack" /\ "garble" \in Faults /\ UNCHANGED faults
  /\ op' = IF Connected
           THEN Reconciling(op.turn, mem.states[op.turn].lastSeq, 0,
                            About("submit"))
           ELSE Idle
  /\ UNCHANGED <<world, connection, mem, db, poison>>

\* The entry of a refused prompt is removed; if that fails the turn does.
Rejected ==
  LET t == op.turn
      s == Fail(mem.states[t], "protocolViolation")
  IN /\ op.kind = "sent" /\ op.reply = Rejection
     /\ \E removed \in BOOLEAN :
          /\ Removal(t, removed)
          /\ IF removed
             THEN /\ mem' = Discarded(mem, t)
                  /\ op' = Idle
                  /\ UNCHANGED <<connection, poison>>
             ELSE /\ mem' = Remember(mem, t, s)
                  /\ poison' = RecordPoison(poison, Chat)
                  /\ Disconnect
                  /\ op' = Severing(mem', {}, {}, "never")
     /\ UNCHANGED world

Submit ==
  \/ \E t \in Turn : SubmitBegin(t)
  \/ Revoke \/ Send \/ SendBroken
  \/ Acknowledged \/ AckMismatched \/ AckMissing \/ Rejected

-----------------------------------------------------------------------------
(* turn.interrupt *)

InterruptBegin(t) ==
  /\ Operational /\ Connected
  /\ t \in Active /\ Unsettled(mem.states[t])
  /\ LET s == MarkUncertain(mem.states[t])
     IN \E w \in Writes(t, s) :
          Persist(t, s, w) /\ op' = IF w.ok THEN Interrupting(t) ELSE Idle
  /\ UNCHANGED <<world, connection>>

\* Whatever the gateway answers, its ledger is asked.
InterruptAsked ==
  LET t == op.turn
  IN /\ op.kind = "interrupting"
     /\ \/ /\ Connected /\ wire = {}
           /\ gw' = [gw EXCEPT ![t] = Interrupted(@)]
           /\ UNCHANGED faults
        \/ /\ Connected /\ Fails("timeout")
           /\ gw' \in {gw, [gw EXCEPT ![t] = Interrupted(@)]}
        \/ sock = "lost" /\ gw' \in {gw, [gw EXCEPT ![t] = Interrupted(@)]}
           /\ UNCHANGED faults
     /\ op' = IF Connected
              THEN Reconciling(t, mem.states[t].lastSeq, 0, About("interrupt"))
              ELSE Idle
     /\ UNCHANGED <<connection, mem, db, poison, now, used>>

Interrupt == InterruptAsked \/ \E t \in Turn : InterruptBegin(t)

-----------------------------------------------------------------------------
(* Live events *)

\* The chat's turn that a frame belongs to, if memory knows its gateway id.
Correlated(t) == \/ t \in Active /\ mem.states[t].bound
                 \/ t \in DOMAIN mem.tombs /\ mem.tombs[t].bound

LiveApplied ==
  LET t == Head(live).turn
  IN /\ op = Idle /\ live # <<>> /\ sock # "down"
     /\ t \in Active /\ Correlated(t)
     /\ \E s \in {ApplyEvent(mem.states[t], Head(live).event)} :
        \E w \in Writes(t, s) :
          /\ Persist(t, s, w)
          /\ IF ~w.ok \/ FailClosed(s)
             THEN CloseAfter(t, s, "never")
             ELSE /\ live' = Tail(live)
                  /\ op' = IF MustReconcile(s)
                           THEN Reconciling(t, s.lastSeq, 0, About("live"))
                           ELSE Idle
                  /\ UNCHANGED <<wire, subs, sock, stray>>
     /\ UNCHANGED world

\* A frame of no turn that is running here: of a settled turn, or of one
\* whose id memory does not know, which is held against all.
LiveRefused ==
  LET t == Head(live).turn
  IN /\ op = Idle /\ live # <<>> /\ sock # "down"
     /\ ~(t \in Active /\ Correlated(t))
     /\ Disconnect
     /\ op' = Severing(mem, IF Correlated(t) THEN {} ELSE Turn, {}, "never")
     /\ UNCHANGED <<world, mem, db, poison, faults>>

\* An unreadable frame, whose turn can or cannot be made out.
LiveGarbled ==
  LET t == Head(live).turn
  IN /\ op = Idle /\ live # <<>> /\ sock # "down" /\ "garble" \in Faults
     /\ Disconnect
     /\ op' \in {Severing(mem, IF Correlated(t) THEN {t} ELSE Turn, {}, "never"),
                 Severing(mem, Turn, {}, "never")}
     /\ UNCHANGED <<world, mem, db, poison, faults>>

Live == LiveApplied \/ LiveRefused \/ LiveGarbled

-----------------------------------------------------------------------------
(* The world around the coordinator *)

SocketCloses ==
  /\ Connected /\ Fails("socket")
  /\ sock' = "lost" /\ wire' = {} /\ stray' = stray \cup wire /\ subs' = {}
  /\ UNCHANGED <<world, live, phoneVars>>

Crash ==
  /\ Fails("crash")
  /\ Disconnect
  /\ mem' = NoMemory /\ op' = Idle /\ poison' = NoPoison
  /\ UNCHANGED <<world, db>>

ClockChange ==
  /\ now' \in 1..MaxTime \ {now}
  /\ UNCHANGED <<gw, used, connection, phoneVars, faults>>

CoordinatorStep ==
  \/ \E mode \in {"ensure", "bare", "pending"} : Open(mode)
  \/ RecoverPending \/ Recover \/ Reconcile \/ Submit \/ Interrupt \/ Live
  \/ TransportLost \/ Close \/ Sever
=============================================================================
