---------------------------- MODULE TurnGateway ----------------------------
(***************************************************************************)
(* The gateway, as the repository's fake of it keeps the contract          *)
(* (tools/fake_gateway/turn_recovery_contract.py): an idempotent submit, a *)
(* ledger of events per turn and a subscription per connection.            *)
(***************************************************************************)
EXTENDS TurnState

NoReply == [kind |-> "none", status |-> None, lastSeq |-> 0]
Rejection == [NoReply EXCEPT !.kind = "rejected"]
Ack(ledger) == [kind |-> "ack", status |-> LedgerStatus(ledger),
                lastSeq |-> Len(ledger.log)]

\* The phone hears the answer if it still waits for it.
Answer(t, reply) ==
  op' = IF t \in wire /\ op = Sent(t, NoReply) THEN Sent(t, reply) ELSE op

Read(t) == wire' = wire \ {t} /\ stray' = stray \ {t}

\* The turn is durable before it is acknowledged; its first event may be
\* there already.
Accept(t) ==
  \E log \in {<<>>, <<StatusEvent(1, "accepted")>>} :
    /\ t \in wire \cup stray
    /\ ~gw[t].known
    /\ gw' = [gw EXCEPT ![t] = [known |-> TRUE, log |-> log, first |-> 1]]
    /\ Read(t)
    /\ subs' = IF t \in wire THEN subs \cup {t} ELSE subs
    /\ Answer(t, Ack(gw'[t]))
    /\ UNCHANGED <<live, sock, mem, db, poison, now, used, faults>>

\* A closed schema, a text that is too long, a session that is gone.
Refuse(t) ==
  /\ t \in wire \cup stray
  /\ ~gw[t].known
  /\ Read(t)
  /\ Answer(t, Rejection)
  /\ UNCHANGED <<gw, subs, live, sock, mem, db, poison, now, used, faults>>

\* The events that may follow; the last place of the bounded log is kept for
\* a terminal one.
NextEvents(log) ==
  LET n == Len(log) + 1
      status == StatusAt(log, Len(log))
      going == CASE status = "accepted" ->
                      {StatusEvent(n, "running"), Message(n, "start")}
                 [] status = "running" ->
                      {Message(n, "delta"), StatusEvent(n, "waiting_input")}
                 [] status = "waiting_input" -> {StatusEvent(n, "running")}
      ends == {StatusEvent(n, "failed")}
              \cup IF status = "running"
                   THEN {CompleteEvent(n, WholeText(log))} ELSE {}
  IN IF n < MaxLog THEN going \cup ends ELSE ends

Delivered(t, event) ==
  live' = IF t \in subs THEN Append(live, [turn |-> t, event |-> event])
          ELSE live

\* The turn goes on, whether the phone is there or not.
Progress(t) ==
  /\ Running(gw[t])
  /\ Len(live) < MaxLive
  /\ \E event \in NextEvents(gw[t].log) :
       /\ gw' = [gw EXCEPT ![t].log = Append(@, event)]
       /\ \/ Delivered(t, event) /\ UNCHANGED faults
          \/ t \in subs /\ Fails("miss") /\ UNCHANGED live
  /\ UNCHANGED <<stray, wire, subs, sock, phoneVars, now, used>>

\* (slip: the stop takes the number of the last event)
InterruptedInPlace(ledger) ==
  IF Running(ledger)
  THEN [ledger EXCEPT !.log = Append(@, StatusEvent(Len(@), "interrupted"))]
  ELSE ledger

\* The stop of a turn is not sent to its subscribers.
Interrupted(ledger) ==
  IF Running(ledger)
  THEN [ledger EXCEPT !.log = Append(@, StatusEvent(Len(@) + 1, "interrupted"))]
  ELSE ledger

Prune(t) ==
  /\ gw[t].known
  /\ gw[t].first <= Len(gw[t].log)
  /\ Fails("prune")
  /\ gw' = [gw EXCEPT ![t].first = Len(gw[t].log) + 1]
  /\ UNCHANGED <<stray, connectionVars, phoneVars, now, used>>

GatewayStep == \E t \in Turn : Accept(t) \/ Refuse(t) \/ Progress(t) \/ Prune(t)

-----------------------------------------------------------------------------
(* turn.reconcile *)

Pruned(ledger, cursor) == cursor < ledger.first - 1

\* An error, or a page: a snapshot where the events are gone and the text is
\* known, else the events after the cursor.
ReplyTo(ledger, cursor) ==
  LET last == Len(ledger.log)
      status == LedgerStatus(ledger)
      complete == status = "completed" /\ WholeText(ledger.log) # {}
      end == IF cursor + PageSize < last THEN cursor + PageSize ELSE last
      events == SubSeq(ledger.log, cursor + 1, end)
  IN CASE ~ledger.known -> [error |-> "turnUnknown"]
       [] ledger.known /\ Pruned(ledger, cursor) /\ ~complete ->
            [error |-> "replayPruned"]
       [] ledger.known /\ Pruned(ledger, cursor) /\ complete ->
            [error |-> None, mode |-> "snapshot", status |-> status,
             last |-> last, next |-> last, more |-> FALSE,
             text |-> WholeText(ledger.log), events |-> <<>>]
       [] ledger.known /\ ~Pruned(ledger, cursor) ->
            [error |-> None, mode |-> "events", status |-> status,
             last |-> last, next |-> end, more |-> end < last,
             text |-> {}, events |-> events]
=============================================================================
