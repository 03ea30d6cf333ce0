-------------------------- MODULE TurnLedgerServer --------------------------
(***************************************************************************)
(* The process that serves the ledger (tools/fake_gateway/                 *)
(* turn_recovery_contract.py, called by fake_gateway.py).  One event loop  *)
(* serves many connections; each takes its requests one after another, and *)
(* its handler lets the others run wherever it awaits its socket.  The     *)
(* ledger is written to its file as a whole, before the answer; a write    *)
(* that fails ends the handler, and what is in memory stays.               *)
(***************************************************************************)
EXTENDS TurnLedger

CONSTANTS
  Conn,         \* connections
  Faults,       \* the faults a client may order before its next prompt
  MaxOpens,     \* bound: openings of all mobile sessions
  MaxSubmits,   \* bound: submissions
  PruneUpTo,    \* bound: the number up to which events are pruned again
  MaxTrouble,   \* bound: crashes, lost connections and failed writes
  None

FaultNames == {"before_ack", "before_first_delta", "mid_stream",
               "after_completion"}

ASSUME ServerAssumption ==
  /\ Faults \subseteq FaultNames /\ None \notin FaultNames
  /\ MaxOpens \in Nat /\ MaxSubmits \in Nat /\ PruneUpTo \in Nat
  /\ MaxTrouble \in Nat

VARIABLES
  durable,   \* the ledger in memory
  saved,     \* the ledger in its file
  link,      \* a connection: open, or gone and its handler unaware
  runtime,   \* the binding of the runtime a connection opened last
  task,      \* where the handler of a connection waits
  told,      \* history: the bindings and the turns that were acknowledged
  trouble    \* history: how often something went wrong

connVars == <<link, runtime, task>>
vars == <<durable, saved, connVars, told, trouble>>

NoRuntime == 0
Idle == [at |-> "idle", turn |-> 0, step |-> 0, fault |-> None]
Serves(c, id) == task[c].turn = id /\ task[c].at # "idle"

\* (slip: the answer is given before the ledger is written)
WriteLater(ledger) == durable' = ledger /\ UNCHANGED <<saved, trouble>>

\* Memory and file; a file that could not be written is the old one.
Write(ledger) ==
  durable' = ledger /\ saved' = ledger /\ UNCHANGED trouble
Goes == trouble < MaxTrouble /\ trouble' = trouble + 1
WriteFails(ledger) == durable' = ledger /\ UNCHANGED saved /\ Goes

\* The handler ends and its connection with it; the next one takes its place.
Release(c) ==
  /\ link' = [link EXCEPT ![c] = "open"]
  /\ runtime' = [runtime EXCEPT ![c] = NoRuntime]
  /\ task' = [task EXCEPT ![c] = Idle]

Waits(c, at, id, step, ordered) ==
  task' = [task EXCEPT ![c] = [at |-> at, turn |-> id, step |-> step,
                               fault |-> ordered]]

Ready(c) == link[c] = "open" /\ task[c] = Idle

Init ==
  /\ durable = EmptyLedger /\ saved = EmptyLedger
  /\ link = [c \in Conn |-> "open"] /\ runtime = [c \in Conn |-> NoRuntime]
  /\ task = [c \in Conn |-> Idle]
  /\ told = [bindings |-> [m \in Mobile |-> NoBinding], turns |-> {}]
  /\ trouble = 0

-----------------------------------------------------------------------------
(* Connections and the process *)

\* The client leaves while nothing is served: detach.
Disconnect(c) ==
  /\ task[c] = Idle
  /\ Release(c)
  /\ UNCHANGED <<durable, saved, told, trouble>>

\* The client is gone while its prompt is served.
Lose(c) ==
  /\ link[c] = "open" /\ task[c].at \in {"ack", "emit"}
  /\ Goes
  /\ link' = [link EXCEPT ![c] = "gone"]
  /\ UNCHANGED <<durable, saved, runtime, task, told>>

\* Nothing is detached when a send raises, but the key of the connection
\* is never used again.
SendFails(c) ==
  /\ link[c] = "gone" /\ task[c].at \in {"ack", "emit"}
  /\ Release(c)
  /\ UNCHANGED <<durable, saved, told, trouble>>

Restart ==
  /\ Goes
  /\ Loads(saved)
  /\ durable' = saved
  /\ link' = [c \in Conn |-> "open"] /\ runtime' = [c \in Conn |-> NoRuntime]
  /\ task' = [c \in Conn |-> Idle]
  /\ UNCHANGED <<saved, told>>

\* fixture.turn.restart clears the runtimes; handlers go on.
ForgetRuntimes(c) ==
  /\ Ready(c)
  /\ runtime' = [d \in Conn |-> NoRuntime]
  /\ UNCHANGED <<durable, saved, link, task, told, trouble>>

-----------------------------------------------------------------------------
(* session.open *)

\* (slip: a session that is opened again gets a new identity)
OpenedAfresh(m) ==
  [stored |-> Cardinality(Bound(durable)) + 1,
   version |-> durable.bindings[m].version + 1]

Opened(m) ==
  LET binding == durable.bindings[m]
      stored == IF m \in Bound(durable) THEN binding.stored
                ELSE Cardinality(Bound(durable)) + 1
  IN [stored |-> stored, version |-> binding.version + 1]

Openings(ledger) ==
  FoldFunction(LAMBDA binding, n : n + binding.version, 0, ledger.bindings)

SessionOpen(c, m) ==
  LET ledger == [durable EXCEPT !.bindings[m] = Opened(m)]
  IN /\ Ready(c)
     /\ Openings(durable) < MaxOpens
     /\ \/ /\ Write(ledger)
           /\ runtime' = [runtime EXCEPT ![c] = Opened(m).stored]
           /\ told' = [told EXCEPT !.bindings[m] = Opened(m)]
           /\ UNCHANGED <<link, task>>
        \/ WriteFails(ledger) /\ Release(c) /\ UNCHANGED told

-----------------------------------------------------------------------------
(* prompt.submit *)

Acknowledge(id) ==
  LET key == <<durable.turns[id].stored, durable.turns[id].client>>
  IN told' = [told EXCEPT !.turns = @ \cup {[key |-> key, turn |-> id]}]

Counted == [durable EXCEPT !.submits = @ + 1]

Asked(c, client) ==
  /\ Ready(c) /\ runtime[c] # NoRuntime
  /\ durable.submits < MaxSubmits

Known(c, client) == durable.byClient[<<runtime[c], client>>]

\* The turn exists: the same answer again, or a conflict.
SubmitAgain(c, client, request) ==
  LET id == Known(c, client)
  IN /\ Asked(c, client) /\ id # 0
     /\ \/ /\ Write(Counted)
           /\ IF durable.turns[id].request = request
              THEN Acknowledge(id) ELSE UNCHANGED told
           /\ UNCHANGED connVars
        \/ WriteFails(Counted) /\ Release(c) /\ UNCHANGED told

Committed(c, client, request) ==
  LET stored == runtime[c]
  IN [Counted EXCEPT
        !.executions = @ + 1,
        !.turns = Append(@, NewTurn(stored, client, request)),
        !.byClient[<<stored, client>>] = Len(durable.turns) + 1]

Finished(ledger, id) == [ledger EXCEPT !.turns[id] = Finish(@)]

\* A new turn is committed, and takes the fault that fixture.turn.next_fault
\* ordered on this connection, if any: nothing else reads it.  Under before_ack
\* it runs and the connection is closed before the answer.
Submit(c, client, request, fault) ==
  LET ledger == Committed(c, client, request)
      id == Len(ledger.turns)
  IN /\ Asked(c, client) /\ Known(c, client) = 0
     /\ UNCHANGED told
     /\ \/ WriteFails(ledger) /\ Release(c)
        \/ /\ fault = "before_ack"
           /\ durable' = Finished(ledger, id) /\ saved' = ledger
           /\ Goes /\ Release(c)
        \/ /\ Write(IF fault = "before_ack" THEN Finished(ledger, id)
                     ELSE ledger)
           /\ Waits(c, IF fault = "before_ack" THEN "close" ELSE "ack",
                    id, 0, fault)
           /\ UNCHANGED <<link, runtime>>

-----------------------------------------------------------------------------
(* The handler of a prompt between its awaits *)

\* The next event of the course is written and then sent.
Emit(c, step) ==
  LET id == task[c].turn
      ledger == [durable EXCEPT !.turns[id] = Advance(@, step)]
  IN \/ /\ Write(ledger)
        /\ Waits(c, "emit", id, step, task[c].fault)
        /\ UNCHANGED <<link, runtime>>
     \/ WriteFails(ledger) /\ Release(c)

\* The prompt is served; the connection takes its next request.
Served(c) ==
  /\ task' = [task EXCEPT ![c] = Idle]
  /\ UNCHANGED <<durable, saved, link, runtime, trouble>>

Closing(c) ==
  /\ Waits(c, "close", task[c].turn, task[c].step, task[c].fault)
  /\ UNCHANGED <<link, runtime>>

\* The acknowledgement is out.
AckSent(c) ==
  LET id == task[c].turn
      turn == durable.turns[id]
      ledger == Finished(durable, id)
  IN /\ task[c].at = "ack"
     /\ Acknowledge(id)
     /\ \/ /\ task[c].fault = "before_first_delta"
           /\ \/ IsOver(turn) /\ Closing(c) /\ UNCHANGED <<durable, saved, trouble>>
              \/ ~IsOver(turn) /\ Write(ledger) /\ Closing(c)
              \/ ~IsOver(turn) /\ WriteFails(ledger) /\ Release(c)
        \/ task[c].fault # "before_first_delta" /\ IsOver(turn) /\ Served(c)
        \/ task[c].fault # "before_first_delta" /\ ~IsOver(turn) /\ Emit(c, 1)

\* An event is out.
EventSent(c) ==
  LET step == task[c].step
      closes == \/ step = SecondDelta /\ task[c].fault = "mid_stream"
                \/ step = Len(Course) /\ task[c].fault = "after_completion"
  IN /\ task[c].at = "emit"
     /\ UNCHANGED told
     /\ \/ closes /\ Closing(c) /\ UNCHANGED <<durable, saved, trouble>>
        \/ ~closes /\ step = Len(Course) /\ Served(c)
        \/ ~closes /\ step < Len(Course) /\ Emit(c, step + 1)

\* (slip: the turn ends with its connection)
ClosedAbandoning(c) ==
  /\ task[c].at = "close"
  /\ Release(c)
  /\ UNCHANGED <<durable, saved, told, trouble>>

\* The close handshake is over.  The turn runs to its end without its
\* connection, an event and a write at a time, whoever stopped it meanwhile.
Closed(c) ==
  LET id == task[c].turn
      next == [durable EXCEPT !.turns[id] = Advance(@, SecondDelta + 1)]
      ended == [next EXCEPT !.turns[id] = Advance(@, SecondDelta + 2)]
  IN /\ task[c].at = "close"
     /\ Release(c)
     /\ UNCHANGED told
     /\ IF task[c].fault = "mid_stream"
        THEN \/ Write(ended)
             \/ WriteFails(next)
             \/ durable' = ended /\ saved' = next /\ Goes
        ELSE UNCHANGED <<durable, saved, trouble>>

-----------------------------------------------------------------------------
(* turn.interrupt and the orders of a test *)

\* _find_turn: by its id or by the client's, within the own session.
Found(c, id) ==
  /\ Ready(c) /\ runtime[c] # NoRuntime
  /\ id \in DOMAIN durable.turns
  /\ durable.turns[id].stored = runtime[c]

Change(c, id, turn) ==
  LET ledger == [durable EXCEPT !.turns[id] = turn]
  IN /\ UNCHANGED told
     /\ \/ Write(ledger) /\ UNCHANGED connVars
        \/ WriteFails(ledger) /\ Release(c)

\* (slip: a turn that is over is interrupted as well)
InterruptAnyway(c, id) ==
  /\ Found(c, id) /\ durable.turns[id].status # "interrupted"
  /\ Change(c, id, Interrupted(durable.turns[id]))

Interrupt(c, id) ==
  /\ Found(c, id)
  /\ ~IsOver(durable.turns[id])
  /\ Change(c, id, Interrupted(durable.turns[id]))

Prune(c, id) ==
  /\ Found(c, id)
  /\ durable.turns[id].first <= PruneUpTo
  /\ Change(c, id, Pruned(durable.turns[id]))

HandlerStep(c) == AckSent(c) \/ EventSent(c) \/ Closed(c) \/ SendFails(c)

RequestStep(c) ==
  \/ \E m \in Mobile : SessionOpen(c, m)
  \/ \E client \in ClientTurn, request \in Request :
       \/ \E fault \in Faults \cup {None} : Submit(c, client, request, fault)
       \/ SubmitAgain(c, client, request)
  \/ \E id \in DOMAIN durable.turns : Interrupt(c, id) \/ Prune(c, id)
  \/ ForgetRuntimes(c)

Next ==
  \/ \E c \in Conn : \/ Disconnect(c) \/ Lose(c)
                     \/ RequestStep(c) \/ HandlerStep(c)
  \/ Restart

Spec == Init /\ [][Next]_vars

-----------------------------------------------------------------------------
(* What the ledger is for *)

TypeOK ==
  /\ \A ledger \in {durable, saved} :
       /\ ledger.bindings \in [Mobile -> [stored : Stored \cup {0},
                                         version : Nat]]
       /\ ledger.byClient \in [Key -> 0 .. Len(ledger.turns)]
       /\ ledger.submits \in 0 .. MaxSubmits
       /\ \A id \in DOMAIN ledger.turns :
            /\ ledger.turns[id].stored \in Stored
            /\ ledger.turns[id].client \in ClientTurn
            /\ ledger.turns[id].request \in Request
            /\ ledger.turns[id].status \in {"accepted", "running"} \cup Terminal
            /\ ledger.turns[id].last \in 1 .. Len(Course) + 2
            /\ ledger.turns[id].whole \in BOOLEAN
  /\ link \in [Conn -> {"open", "gone"}]
  /\ runtime \in [Conn -> Stored \cup {NoRuntime}]
  /\ task \in [Conn -> [at : {"idle", "ack", "emit", "close"},
                        turn : 0 .. MaxSubmits, step : 0 .. Len(Course),
                        fault : Faults \cup {None}]]
  /\ trouble \in 0 .. MaxTrouble

\* The file can be loaded whenever the process ends, and what is in memory
\* could be written: _validate_loaded_ledger accepts both.
LedgerLoads == Loads(saved) /\ Loads(durable)

\* Once a phone was given a binding or an acknowledgement, no crash and no
\* failed write takes it back or gives it another identity or an older version.
AcksAreKept ==
  /\ \A m \in Mobile :
       /\ saved.bindings[m].version >= told.bindings[m].version
       /\ told.bindings[m] # NoBinding =>
            saved.bindings[m].stored = told.bindings[m].stored
  /\ \A ack \in told.turns : saved.byClient[ack.key] = ack.turn

\* Whatever was pruned, a phone that asks for the events after its cursor gets
\* the very next ones, is told that there are more exactly when there are, or
\* is told that they are gone.
PagesAreContiguous ==
  \A id \in DOMAIN durable.turns :
    LET turn == durable.turns[id]
    IN \A after \in 0 .. turn.last :
         LET page == Page(turn, after)
         IN /\ page.mode = "events" =>
                 /\ \A i \in DOMAIN page.events : page.events[i].seq = after + i
                 /\ page.next = after + Len(page.events)
                 /\ after < turn.last => page.events # <<>>
            /\ page.more <=> page.mode = "events" /\ page.next < turn.last
            /\ page.mode # "events" <=> after + 1 < turn.first

\* A turn is run by one handler at most: a prompt that is sent again on another
\* connection starts nothing.  And a turn that is not over has the handler that
\* will end it, whatever fault a test ordered, unless something failed in
\* earnest.
TurnsAreServedOnce ==
  \A id \in DOMAIN durable.turns :
    LET handlers == {c \in Conn : Serves(c, id)}
    IN /\ Cardinality(handlers) <= 1
       /\ ~IsOver(durable.turns[id]) /\ trouble = 0 => handlers # {}

\* The file keeps the promises of TurnBook across crashes and failed writes.
EntryOf(ledger, key) ==
  LET id == ledger.byClient[key]
      turn == ledger.turns[id]
  IN IF id = 0 THEN [id |-> 0]
     ELSE [id |-> id, last |-> turn.last, whole |-> turn.whole,
           kinds |-> [n \in turn.first .. turn.last |->
                        turn.events[n - turn.first + 1].kind]]
Book == INSTANCE TurnBook WITH book <- [key \in Key |-> EntryOf(saved, key)]
ImplementsBook == Book!Spec
=============================================================================
