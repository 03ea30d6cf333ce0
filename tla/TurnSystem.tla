----------------------------- MODULE TurnSystem -----------------------------
(***************************************************************************)
(* One chat's prompts between the phone and the gateway: the coordinator,  *)
(* its journal, the connection and the gateway together.                   *)
(***************************************************************************)
EXTENDS TurnCoordinator

TypeOK ==
  /\ \A t \in Turn : /\ gw[t].known \in BOOLEAN
                     /\ Len(gw[t].log) <= MaxLog
                     /\ \A i \in 1..Len(gw[t].log) : /\ gw[t].log[i] \in Event(MaxLog)
                                                    /\ gw[t].log[i].seq = i
                     /\ gw[t].first \in 1..(MaxLog + 1)
  /\ wire \cup stray \cup subs \cup used \subseteq Turn
  /\ Len(live) <= MaxLive
  /\ sock \in {"down", "up", "lost"}
  /\ \A t \in Active : t \in Turn /\ mem.states[t] \in State(MaxLog)
  /\ \A t \in DOMAIN mem.tombs : t \in Turn /\ mem.tombs[t] \in State(MaxLog)
  /\ \A t \in DOMAIN mem.floors : t \in Turn /\ mem.floors[t] \in 1..MaxTime
  /\ \A e \in db.entries : e.scope = Chat /\ e.turn \in Turn
  /\ poison \in [scopes : SUBSET {Chat}, all : BOOLEAN]
  /\ now \in 1..MaxTime /\ faults \in 0..MaxFaults

Init ==
  /\ gw = [t \in Turn |-> NoTurn]
  /\ wire = {} /\ stray = {} /\ subs = {} /\ live = <<>>
  /\ sock = "down" /\ mem = NoMemory /\ op = Idle
  /\ db = EmptyJournal /\ poison = NoPoison
  /\ now = 1 /\ used = {} /\ faults = 0

Next ==
  \/ GatewayStep
  \/ CoordinatorStep
  \/ SocketCloses \/ Crash \/ ClockChange

Spec == Init /\ [][Next]_vars

\* A call that was begun takes its next step.
CallStep == \/ Recover \/ Reconcile \/ Sever \/ InterruptAsked
            \/ Revoke \/ Send \/ SendBroken
            \/ Acknowledged \/ AckMismatched \/ AckMissing \/ Rejected

\* The gateway reads what it is sent, and its turns go on to their end.
GatewayRuns == \E t \in Turn : \/ t \in wire /\ (Accept(t) \/ Refuse(t))
                              \/ Progress(t)

(* The events of a socket are queued with the calls, first come first        *)
(* served; the user returns to the chat, which opens it again.               *)
FairSpec == /\ Spec
            /\ WF_vars(CallStep)
            /\ WF_vars(GatewayRuns)
            /\ SF_vars(Live \/ TransportLost)
            /\ SF_vars(Open("ensure"))

-----------------------------------------------------------------------------
(* Properties *)

EntryOf(t) == {e \in db.entries : e.turn = t}

\* A prompt that may run, or runs, on the gateway is in the journal, so that a
\* restart finds it again (the write-ahead of submit).
PromptsAreRecorded ==
  \A t \in Turn :
    t \in wire \cup stray \/ Running(gw[t]) => EntryOf(t) # {}

\* What is known of a turn agrees with the gateway's log up to its cursor; a
\* completed turn shows its whole text.
Agrees(t, s) ==
  LET log == gw[t].log
  IN /\ s.bound => gw[t].known
     /\ s.lastSeq <= Len(log)
     /\ ~FailClosed(s) /\ s.status # None => s.status = StatusAt(log, s.lastSeq)
     /\ ~FailClosed(s) /\ s.status = "completed" => s.result = WholeText(log)

\* Neither live events, acknowledgements, pages, snapshots nor a restart put
\* memory or journal ahead of the gateway or beside it.
MirrorsGateway ==
  /\ \A t \in Active : Agrees(t, mem.states[t])
  /\ \A t \in DOMAIN mem.tombs : Agrees(t, mem.tombs[t])
  /\ \A e \in db.entries : Agrees(e.turn, e)

\* A failure shown to the user is in the journal, or the chat is stopped until
\* the process ends (_poisonIfUnpersistedFailure).
FailuresAreSealed ==
  \A t \in DOMAIN mem.tombs :
    FailClosed(mem.tombs[t]) =>
      Poisoned(poison, Chat) \/ \E e \in EntryOf(t) : FailClosed(e)

\* Every entry the coordinator writes is one a restart can make a state of.
EntriesAreReadable == \A e \in db.entries : Rehydratable(e) /\ EntryValid(e)

\* A poisoned chat has no connection left that could act on it.
PoisonSilences == Poisoned(poison, Chat) /\ op = Idle => sock = "down"

\* The outcome of a turn, once in the journal, stays what it is; it leaves the
\* journal only when it is settled and old.
OutcomesAreFinal ==
  [][\A e \in db.entries :
       Settled(e) \/ FailClosed(e) =>
         \/ \E f \in db'.entries : SameCourse(e, f) /\ e.turn = f.turn
                                   /\ e.failure = f.failure
         \/ /\ IsTerminal(e) /\ ~FailClosed(e)
            /\ now - e.at > TerminalRetention]_vars

\* A turn the gateway has ends in the journal, completed or quarantined.
TurnsAreResolved ==
  \A t \in Turn :
    gw[t].known ~> \E e \in EntryOf(t) : Settled(e) \/ FailClosed(e)

-----------------------------------------------------------------------------
(* What the comments of the code promise *)

\* gateway_turn_coordinator.dart:1465-1467: the other turns reconcile later.
OthersReconcile ==
  \A t \in Turn :
    Running(gw[t]) ~> \E e \in EntryOf(t) : Settled(e) \/ FailClosed(e)

\* gateway_turn_recovery.dart:291-293: the missing range is recovered, so that
\* only a store that fails can stop the chat.
PoisonNeedsAFault == ~Poisoned(poison, Chat)
=============================================================================
