---------------------------- MODULE TurnRecovery ----------------------------
(***************************************************************************)
(* The phone's view of one prompt it sent to a gateway: a reducer without  *)
(* transport (gateway_turn_recovery.dart).  A turn is first an intent with *)
(* a client turn id; the gateway's own id, a status and a contiguous       *)
(* prefix of the gateway's events arrive by acknowledgement, live event or *)
(* reconcile page.  There is no operation that submits again.              *)
(*                                                                         *)
(* A text is the set of the numbers of the deltas it was put together      *)
(* from.  Payload sizes and UI-only receipt times are left out.            *)
(***************************************************************************)
EXTENDS Integers, FiniteSets, SequencesExt

None == "none"

Terminal == {"completed", "failed", "interrupted"}
Status == {"accepted", "running", "waiting_input"} \cup Terminal
Failure == {"turnUnknown", "replayPruned", "sequenceGap", "duplicateConflict",
            "invalidTransition", "protocolViolation"}
EventKind == {"start", "delta", "complete", "status"}

\* A wire event; "complete" and "status" carry a status, "complete" a text.
Event(MaxSeq) ==
  [seq : 1..MaxSeq, kind : EventKind, status : Status \cup {None},
   text : SUBSET (1..MaxSeq)]

(* bound: the gateway's turn id is known.  result: the text retained once   *)
(* the turn is terminal, NoResult before.  held: the events kept in memory.   *)
State(MaxSeq) ==
  [bound : BOOLEAN, status : Status \cup {None}, lastSeq : 0..MaxSeq,
   result : SUBSET (0..MaxSeq), held : SUBSET Event(MaxSeq),
   uncertain : BOOLEAN, pending : BOOLEAN, failure : Failure \cup {None}]

\* No delta has the number 0.
NoResult == {0}

Initial ==
  [bound |-> FALSE, status |-> None, lastSeq |-> 0, result |-> NoResult,
   held |-> {}, uncertain |-> FALSE, pending |-> FALSE, failure |-> None]

IsTerminal(s) == s.status \in Terminal
FailClosed(s) == s.failure # None
MustReconcile(s) == ~FailClosed(s) /\ (s.uncertain \/ s.pending)

-----------------------------------------------------------------------------
(* Legal changes of status *)

TransitionAllowed(from, to) ==
  \/ from = to
  \/ from = "accepted" /\ to \in {"running", "failed", "interrupted"}
  \/ from = "running" /\ to \in {"waiting_input"} \cup Terminal
  \/ from = "waiting_input" /\ to \in {"running", "failed", "interrupted"}

\* A snapshot may skip the states between, never leave a terminal one.
SnapshotTransitionAllowed(from, to) ==
  from = to \/ (from \notin Terminal /\ to \in Terminal)

-----------------------------------------------------------------------------
(* Operations *)

Fail(s, reason) ==
  IF FailClosed(s) THEN s
  ELSE [s EXCEPT !.failure = reason, !.uncertain = FALSE, !.pending = FALSE]

\* (slip: the turn is only asked to reconcile in this process)
MarkPendingOnly(s) ==
  IF FailClosed(s) \/ IsTerminal(s) THEN s ELSE [s EXCEPT !.pending = TRUE]

\* A submission was started, or the transport was lost under the turn.
MarkUncertain(s) ==
  IF FailClosed(s) \/ IsTerminal(s) THEN s
  ELSE [s EXCEPT !.uncertain = TRUE, !.pending = FALSE]

ReleasePayloads(s) == [s EXCEPT !.held = {}]

\* A completed turn needs a text to show.
CompletedHasText(s) ==
  IF s.status = "completed" /\ s.result = NoResult
  THEN Fail(s, "protocolViolation") ELSE s

ApplyAck(s, ack) ==
  LET immaterial == ack.status = "completed" /\ s.result = NoResult
  IN CASE FailClosed(s) -> s
       [] ~FailClosed(s) /\ ack.lastSeq < s.lastSeq ->
            Fail(s, "protocolViolation")
       [] ~FailClosed(s) /\ ack.lastSeq > s.lastSeq ->
            [s EXCEPT !.bound = TRUE, !.uncertain = TRUE, !.pending = FALSE]
       [] ~FailClosed(s) /\ ack.lastSeq = s.lastSeq ->
            IF s.status # None /\ ~TransitionAllowed(s.status, ack.status)
            THEN Fail(s, "invalidTransition")
            ELSE [s EXCEPT !.bound = TRUE,
                           !.status = IF immaterial THEN @ ELSE ack.status,
                           !.uncertain = immaterial, !.pending = immaterial]

\* The text of the events in memory: of the last complete one, else of the
\* deltas; NoResult when none of them belongs to a message.
TextOf(held) ==
  LET completes == {e \in held : e.kind = "complete"}
  IN IF \A e \in held : e.kind = "status" THEN NoResult
     ELSE IF completes # {}
     THEN (CHOOSE e \in completes : \A f \in completes : f.seq <= e.seq).text
     ELSE {e.seq : e \in {d \in held : d.kind = "delta"}}

StatusOf(event, old) ==
  CASE event.kind = "start" -> "running"
    [] event.kind = "delta" -> old
    [] event.kind \in {"complete", "status"} -> event.status

\* The next event in order.
Advance(s, event) ==
  LET status == StatusOf(event, s.status)
      held == s.held \cup {event}
  IN IF s.status # None /\ ~TransitionAllowed(s.status, status)
     THEN Fail(s, "invalidTransition")
     ELSE CompletedHasText(
            [s EXCEPT !.bound = TRUE, !.status = status, !.lastSeq = event.seq,
                      !.held = held, !.uncertain = FALSE, !.pending = FALSE,
                      !.result = IF status \in Terminal /\ @ = NoResult
                                 THEN TextOf(held) ELSE @])

\* (slip: a gap is skipped)
ApplyEventPastGap(s, event) ==
  CASE FailClosed(s) \/ event.seq <= s.lastSeq -> s
    [] ~FailClosed(s) /\ event.seq > s.lastSeq -> Advance(s, event)

ApplyEvent(s, event) ==
  LET same == {e \in s.held : e.seq = event.seq}
  IN CASE FailClosed(s) -> s
       [] ~FailClosed(s) /\ same # {} ->
            IF event \in same THEN s ELSE Fail(s, "duplicateConflict")
       [] ~FailClosed(s) /\ same = {} /\ IsTerminal(s) ->
            Fail(s, "invalidTransition")
       [] ~FailClosed(s) /\ same = {} /\ ~IsTerminal(s) ->
            CASE event.seq <= s.lastSeq -> s       \* covered already
              [] event.seq > s.lastSeq + 1 -> [s EXCEPT !.pending = TRUE]
              [] event.seq = s.lastSeq + 1 -> Advance(s, event)

ApplySnapshot(s, page) ==
  IF \/ page.last < s.lastSeq
     \/ s.status # None /\ ~SnapshotTransitionAllowed(s.status, page.status)
  THEN Fail(s, "protocolViolation")
  ELSE [s EXCEPT !.bound = TRUE, !.status = page.status,
                 !.lastSeq = page.last, !.result = page.text, !.held = {},
                 !.uncertain = FALSE, !.pending = FALSE]

\* The events of a page one after another.
ApplyAll(s, events) ==
  LET after[n \in 0..Len(events)] ==
        IF n = 0 THEN s ELSE ApplyEvent(after[n - 1], events[n])
  IN after[Len(events)]

ApplyEvents(s, page) ==
  LET start == [s EXCEPT !.bound = TRUE, !.uncertain = FALSE,
                         !.pending = FALSE]
      next == ApplyAll(start, page.events)
  IN CASE FailClosed(next) -> next
       [] ~FailClosed(next) /\ next.lastSeq # page.next ->
            Fail(next, "protocolViolation")
       [] ~FailClosed(next) /\ next.lastSeq = page.next /\ page.more ->
            [next EXCEPT !.pending = TRUE]
       [] ~FailClosed(next) /\ next.lastSeq = page.next /\ ~page.more ->
            CASE page.last # next.lastSeq -> Fail(next, "protocolViolation")
              [] page.last = next.lastSeq /\ next.status # None
                   /\ ~TransitionAllowed(next.status, page.status) ->
                   Fail(next, "invalidTransition")
              [] OTHER -> CompletedHasText(
                            [next EXCEPT !.status = page.status,
                                         !.pending = FALSE])

ApplyPage(s, page) ==
  CASE FailClosed(s) -> s
    [] ~FailClosed(s) /\ page.mode = "snapshot" -> ApplySnapshot(s, page)
    [] ~FailClosed(s) /\ page.mode = "events" -> ApplyEvents(s, page)

\* The reducer's state after a restart, from what the journal kept.
Rehydratable(e) ==
  /\ e.result # NoResult => IsTerminal(e) /\ e.bound /\ e.lastSeq > 0
                            /\ ~FailClosed(e)
  /\ e.status = "completed" => FailClosed(e) \/ e.result # NoResult
  /\ ~e.bound => e.status = None /\ e.lastSeq = 0
  /\ e.status = None => e.lastSeq = 0
  /\ ~(FailClosed(e) /\ e.uncertain)
  /\ \/ FailClosed(e)
     \/ /\ e.bound \/ e.uncertain
        /\ e.status # None \/ e.uncertain
        /\ ~(IsTerminal(e) /\ e.uncertain)

\* (slip: a certain entry is believed after a restart)
RehydrateCertain(e) ==
  [bound |-> e.bound, status |-> e.status, lastSeq |-> e.lastSeq,
   result |-> e.result, held |-> {}, uncertain |-> e.uncertain,
   pending |-> FALSE, failure |-> e.failure]

Rehydrate(e) ==
  IF ~Rehydratable(e) THEN Fail(Initial, "protocolViolation")
  ELSE [bound |-> e.bound, status |-> e.status, lastSeq |-> e.lastSeq,
        result |-> e.result, held |-> {}, uncertain |-> e.uncertain,
        pending |-> ~FailClosed(e) /\ ~IsTerminal(e), failure |-> e.failure]
=============================================================================
