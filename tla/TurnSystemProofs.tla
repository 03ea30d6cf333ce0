--------------------------- MODULE TurnSystemProofs ---------------------------
(***************************************************************************)
(* The turn recovery of one chat, for every number of prompts, events,     *)
(* entries and faults: what the phone holds of a turn, in memory and in    *)
(* the journal, agrees with the gateway's ledger, a restart can read it,   *)
(* and a chat whose failure could not be written is silent; while the      *)
(* journal has room for the next prompt, none of them is forgotten, no     *)
(* failure is unsealed and no outcome changes.                             *)
(*                                                                         *)
(* The ledger only grows.  A reducer's state, an entry, an answer and a    *)
(* cursor are about a prefix of it and stay true as it grows; every        *)
(* operation of the reducer takes such a state to another one.  What the   *)
(* coordinator does with them is three writes: a state is persisted,       *)
(* settled, or both.                                                       *)
(***************************************************************************)
EXTENDS TurnInvariants, FiniteSetTheorems, WellFoundedInduction, TLAPS

-----------------------------------------------------------------------------
(* Numbers *)
\* A set of numbers has a least one.
LEMMA LeastNumber ==
  ASSUME NEW S, S \subseteq Nat, S # {}
  PROVE  \E n \in S : \A m \in S : n <= m
<1> DEFINE R == OpToRel(<, Nat)
<1>1. IsWellFoundedOn(R, Nat)
  BY NatLessThanWellFounded
<1>2. \A m, n \in Nat : m < n => <<m, n>> \in R
  BY DEF OpToRel
<1>3. PICK n \in S : \A m \in S : ~ (<<m, n>> \in R)
  <2> HIDE DEF R
  <2> QED  BY <1>1, WFMin
<1>4. ASSUME NEW m \in S  PROVE  n <= m
  <2>1. m \in Nat /\ n \in Nat
    OBVIOUS
  <2>2. ~ (m < n)
    <3> HIDE DEF R
    <3> QED  BY <1>2, <1>3, <2>1
  <2> QED  BY <2>1, <2>2
<1> QED  BY <1>4

\* The last of some places of a sequence.
LEMMA LastPlace ==
  ASSUME NEW n \in Nat, NEW S, S \subseteq 1..n, S # {}
  PROVE  /\ \E i \in S : \A j \in S : j <= i
         /\ (CHOOSE i \in S : \A j \in S : j <= i) \in S
<1> DEFINE K == {k \in Nat : \A j \in S : j <= k}
<1>1. n \in K
  OBVIOUS
<1>2. PICK k \in K : \A l \in K : k <= l
  <2> HIDE DEF K
  <2>1. K \subseteq Nat
    BY DEF K
  <2> QED  BY <1>1, <2>1, LeastNumber
<1>3. k \in S
  <2>1. PICK i \in S : TRUE
    OBVIOUS
  <2>2. k \in Nat /\ k >= 1
    BY <2>1
  <2>3. CASE k \notin S
    <3>1. \A j \in S : j <= k - 1
      BY <2>2, <2>3
    <3>2. k - 1 \in K
      BY <2>2, <3>1
    <3>3. k <= k - 1
      BY <1>2, <3>2
    <3> QED  BY <2>2, <3>3
  <2> QED  BY <2>3
<1>4. \E i \in S : \A j \in S : j <= i
  BY <1>2, <1>3
<1> QED  BY <1>4

-----------------------------------------------------------------------------
(* The status of a prefix of a log *)

Told(log, n) == {i \in 1..n : log[i].kind # "delta"}

StatusFrom(log, told) ==
  IF told = {} THEN "accepted"
  ELSE StatusOf(log[CHOOSE i \in told : \A j \in told : j <= i], None)

LEMMA StatusToldBy ==
  ASSUME NEW log, NEW n  PROVE  StatusAt(log, n) = StatusFrom(log, Told(log, n))
BY DEF StatusAt, StatusFrom, Told

LEMMA StatusBefore == ASSUME NEW log  PROVE  StatusAt(log, 0) = "accepted"
BY DEF StatusAt

LEMMA StatusAfter ==
  ASSUME NEW log, NEW n \in Nat
  PROVE  StatusAt(log, n + 1) = IF log[n + 1].kind = "delta" THEN StatusAt(log, n)
                                ELSE StatusOf(log[n + 1], None)
<1>1. CASE log[n + 1].kind = "delta"
  <2>1. Told(log, n + 1) = Told(log, n)
    BY <1>1 DEF Told
  <2> QED  BY <1>1, <2>1, StatusToldBy
<1>2. CASE log[n + 1].kind # "delta"
  <2>1. n + 1 \in Told(log, n + 1)
    BY <1>2 DEF Told
  <2>2. \A j \in Told(log, n + 1) : j <= n + 1
    BY DEF Told
  <2>3. \A i \in Told(log, n + 1) :
          (\A j \in Told(log, n + 1) : j <= i) => i = n + 1
    BY <2>1 DEF Told
  <2>4. (CHOOSE i \in Told(log, n + 1) : \A j \in Told(log, n + 1) : j <= i) = n + 1
    BY <2>1, <2>2, <2>3
  <2> QED  BY <1>2, <2>1, <2>4 DEF StatusAt, Told
<1> QED  BY <1>1, <1>2

\* Only the first n events count.
LEMMA StatusOfPrefix ==
  ASSUME NEW log, NEW more, NEW n \in Nat, \A i \in 1..n : more[i] = log[i]
  PROVE  StatusAt(more, n) = StatusAt(log, n)
<1>1. Told(more, n) = Told(log, n)
  BY DEF Told
<1>2. CASE Told(log, n) = {}
  BY <1>1, <1>2 DEF StatusAt, Told
<1>3. CASE Told(log, n) # {}
  <2> DEFINE last == CHOOSE i \in Told(log, n) : \A j \in Told(log, n) : j <= i
  <2>1. last \in Told(log, n)
    <3>1. Told(log, n) \subseteq 1..n
      BY DEF Told
    <3> QED  BY <1>3, <3>1, LastPlace
  <2>2. more[last] = log[last]
    BY <2>1 DEF Told
  <2>3. StatusAt(log, n) = StatusOf(log[last], None)
    BY <1>3 DEF StatusAt, Told
  <2>4. StatusAt(more, n) = StatusOf(more[last], None)
    BY <1>1, <1>3 DEF StatusAt, Told
  <2> QED  BY <2>2, <2>3, <2>4
<1> QED  BY <1>2, <1>3
-----------------------------------------------------------------------------
(* The ledger *)

LEMMA StatusSets ==
  /\ "accepted" \in Status /\ "accepted" \notin Terminal
  /\ None \notin Status /\ "completed" \in Terminal /\ Terminal \subseteq Status
BY DEF Status, Terminal, None

\* Every prefix has a status, a final one only the whole of the log.
LEMMA LogStatus ==
  ASSUME NEW g, LedgerOK(g), NEW n \in 0..Len(g.log)
  PROVE  /\ Len(g.log) \in Nat
         /\ StatusAt(g.log, n) \in Status
         /\ StatusAt(g.log, n) \in Terminal => n = Len(g.log) /\ n > 0
<1>1. g.log \in Seq(Event(MaxLog)) /\ Len(g.log) \in Nat
  BY DEF LedgerOK
<1>2. CASE n = 0
  BY <1>1, <1>2, StatusBefore, StatusSets
<1>3. CASE n # 0
  <2>1. n \in 1..Len(g.log)
    BY <1>1, <1>3
  <2> QED  BY <1>1, <2>1 DEF LedgerOK
<1> QED  BY <1>2, <1>3

LEMMA ExtendsSelf == ASSUME NEW g  PROVE  Extends(g, g)
BY DEF Extends

LEMMA ExtendsStatus ==
  ASSUME NEW g, NEW h, LedgerOK(g), Extends(g, h), NEW n \in 0..Len(g.log)
  PROVE  StatusAt(h.log, n) = StatusAt(g.log, n)
<1>1. g.log \in Seq(Event(MaxLog)) /\ Len(g.log) \in Nat /\ n \in Nat
  BY DEF LedgerOK
<1>2. \A i \in 1..n : h.log[i] = g.log[i]
  BY <1>1 DEF Extends
<1> QED  BY <1>1, <1>2, StatusOfPrefix

\* A log that has come to its end does not change.
LEMMA EndStays ==
  ASSUME NEW g, NEW h, LedgerOK(g), Extends(g, h), NEW n \in 0..Len(g.log),
         StatusAt(g.log, n) \in Terminal
  PROVE  h.log = g.log
<1>1. n = Len(g.log)
  BY LogStatus
<1> QED  BY <1>1 DEF Extends, LedgerStatus

LEMMA AppendedLog ==
  ASSUME NEW log \in Seq(Event(MaxLog)), NEW event \in Event(MaxLog)
  PROVE  /\ Append(log, event) \in Seq(Event(MaxLog))
         /\ Len(log) \in Nat
         /\ Len(Append(log, event)) = Len(log) + 1
         /\ \A i \in 1..Len(log) : Append(log, event)[i] = log[i]
         /\ Append(log, event)[Len(log) + 1] = event
OBVIOUS

\* A running turn goes on with an event that its status allows.
LEMMA NextEventKeeps ==
  ASSUME NEW g, LedgerOK(g), Running(g), NEW event \in Event(MaxLog),
         event.seq = Len(g.log) + 1,
         event.kind = "delta" => LedgerStatus(g) = "running",
         event.kind # "delta" => StatusOf(event, None) \in Status,
         event.kind # "delta" /\ StatusOf(event, None) = "completed" =>
           event.kind = "complete" /\ event.text = WholeText(g.log),
         \/ event.kind # "delta" /\ StatusOf(event, None) \in Terminal
         \/ Len(g.log) + 1 < MaxLog
  PROVE  LET h == [g EXCEPT !.log = Append(@, event)]
         IN LedgerOK(h) /\ Extends(g, h)
<1> DEFINE h == [g EXCEPT !.log = Append(@, event)]
           log == Append(g.log, event)
           n == Len(g.log)
<1>1. /\ g \in [known : BOOLEAN, log : Seq(Event(MaxLog)), first : 1..(MaxLog + 1)]
      /\ g.log \in Seq(Event(MaxLog)) /\ g.known /\ n < MaxLog
  BY DEF LedgerOK, Running
<1>2. /\ h \in [known : BOOLEAN, log : Seq(Event(MaxLog)), first : 1..(MaxLog + 1)]
      /\ h.log = log /\ h.known
  BY <1>1, AppendedLog
<1>3. /\ log \in Seq(Event(MaxLog)) /\ n \in Nat /\ Len(log) = n + 1
      /\ \A i \in 1..n : log[i] = g.log[i]
      /\ log[n + 1] = event
  BY <1>1, AppendedLog
<1> HIDE DEF log, n, h
<1>4. ASSUME NEW i \in 0..n  PROVE  StatusAt(log, i) = StatusAt(g.log, i)
  <2>1. i \in Nat /\ \A j \in 1..i : log[j] = g.log[j]
    BY <1>3
  <2> QED  BY <2>1, StatusOfPrefix
<1>5. StatusAt(log, n + 1) = IF event.kind = "delta" THEN LedgerStatus(g)
                             ELSE StatusOf(event, None)
  <2>1. StatusAt(log, n) = LedgerStatus(g)
    BY <1>3, <1>4 DEF LedgerStatus, n
  <2> QED  BY <1>3, <2>1, StatusAfter
<1>6. LedgerStatus(g) \notin Terminal
  BY DEF Running
<1>7. \A i \in 1..n : StatusAt(log, i) \notin Terminal
  <2> TAKE i \in 1..n
  <2>1. StatusAt(log, i) = StatusAt(g.log, i) /\ i \in 0..n
    BY <1>3, <1>4
  <2>2. StatusAt(g.log, i) \in Terminal => i = n
    BY <1>3, <2>1, LogStatus DEF n
  <2> QED  BY <1>6, <2>1, <2>2 DEF LedgerStatus, n
<1>8. event.kind # "delta" => WholeText(log) = WholeText(g.log)
  BY <1>3 DEF WholeText, n
<1>9. ASSUME NEW i \in 1..n
      PROVE  /\ log[i].seq = i /\ StatusAt(log, i) \in Status
             /\ log[i].kind = "delta" => StatusAt(log, i - 1) = "running"
  <2>1. /\ g.log[i].seq = i /\ StatusAt(g.log, i) \in Status
        /\ g.log[i].kind = "delta" => StatusAt(g.log, i - 1) = "running"
    BY DEF LedgerOK, n
  <2>2. i \in 0..n /\ i - 1 \in 0..n
    BY <1>3
  <2>3. StatusAt(log, i) = StatusAt(g.log, i)
        /\ StatusAt(log, i - 1) = StatusAt(g.log, i - 1)
    BY <1>4, <2>2
  <2> QED  BY <1>3, <2>1, <2>3
<1>10. StatusAt(log, n + 1) \in Status
  <2>1. LedgerStatus(g) \in Status
    BY <1>3, LogStatus DEF LedgerStatus, n
  <2> QED  BY <1>5, <2>1
<1>11. event.kind = "delta" => StatusAt(log, n) = "running"
  BY <1>3, <1>4 DEF LedgerStatus, n
<1>12. Running(h) => Len(h.log) < MaxLog
  <2>1. LedgerStatus(h) = StatusAt(log, n + 1)
    BY <1>2, <1>3 DEF LedgerStatus
  <2> QED  BY <1>2, <1>3, <1>5, <2>1 DEF Running, n
<1>13. Len(log) <= MaxLog
  BY <1>1, <1>3, TurnAssumption DEF n
<1>14. ASSUME NEW i \in 1..Len(log)
       PROVE  /\ log[i].seq = i
              /\ StatusAt(log, i) \in Status
              /\ StatusAt(log, i) \in Terminal => i = Len(log)
              /\ log[i].kind = "delta" => StatusAt(log, i - 1) = "running"
              /\ StatusAt(log, i) = "completed" =>
                   log[i].kind = "complete" /\ log[i].text = WholeText(log)
  <2>1. CASE i \in 1..n
    BY <1>7, <1>9, <2>1, StatusSets
  <2>2. CASE i = n + 1
    <3>1. i - 1 = n /\ log[i] = event
      BY <1>3, <2>2
    <3>2. event.seq = n + 1
      BY DEF n
    <3>3. StatusAt(log, i) = "completed" => event.kind # "delta"
      BY <1>5, <1>6, <2>2, StatusSets
    <3> QED  BY <1>3, <1>5, <1>8, <1>10, <1>11, <2>2, <3>1, <3>2, <3>3
  <2> QED  BY <1>3, <2>1, <2>2
<1>15. LedgerOK(h)
  BY <1>2, <1>12, <1>13, <1>14 DEF LedgerOK
<1>16. Extends(g, h)
  BY <1>2, <1>3, <1>6 DEF Extends, n
<1> QED  BY <1>15, <1>16 DEF h

-----------------------------------------------------------------------------
(* What the gateway does to a turn *)

LEMMA EventTypes ==
  ASSUME NEW n \in 1..MaxLog
  PROVE  /\ \A kind \in EventKind :
              Message(n, kind) \in Event(MaxLog) /\ Message(n, kind).seq = n
         /\ \A status \in Status :
              /\ StatusEvent(n, status) \in Event(MaxLog)
              /\ StatusEvent(n, status).seq = n
              /\ StatusOf(StatusEvent(n, status), None) = status
         /\ \A text \in SUBSET (1..MaxLog) :
              /\ CompleteEvent(n, text) \in Event(MaxLog)
              /\ CompleteEvent(n, text).seq = n
<1>1. /\ "status" \in EventKind /\ "complete" \in EventKind
      /\ "completed" \in Status
  BY DEF EventKind, Status, Terminal
<1> QED  BY <1>1 DEF Event, Message, StatusEvent, CompleteEvent, StatusOf

LEMMA ProgressGrows ==
  ASSUME NEW g, LedgerOK(g), Running(g), NEW event \in NextEvents(g.log)
  PROVE  LET h == [g EXCEPT !.log = Append(@, event)]
         IN /\ LedgerOK(h) /\ Extends(g, h)
            /\ event \in Event(MaxLog) /\ event.seq = Len(g.log) + 1
<1> DEFINE n == Len(g.log) + 1
           status == LedgerStatus(g)
<1>1. /\ g.log \in Seq(Event(MaxLog)) /\ Len(g.log) \in Nat
      /\ n \in 1..MaxLog
      /\ MaxLog \in Nat
  BY TurnAssumption DEF LedgerOK, Running
<1>2. status \in {"accepted", "running", "waiting_input"}
  <2>1. status \in Status
    BY <1>1, LogStatus DEF LedgerStatus
  <2> QED  BY <2>1 DEF Running, Status
<1>3. WholeText(g.log) \in SUBSET (1..MaxLog)
  BY <1>1 DEF WholeText
<1> DEFINE going ==
             CASE status = "accepted" ->
                    {StatusEvent(n, "running"), Message(n, "start")}
               [] status = "running" ->
                    {Message(n, "delta"), StatusEvent(n, "waiting_input")}
               [] status = "waiting_input" -> {StatusEvent(n, "running")}
           ends == {StatusEvent(n, "failed")}
                   \cup IF status = "running"
                        THEN {CompleteEvent(n, WholeText(g.log))} ELSE {}
<1>4. event \in ends \/ (n < MaxLog /\ event \in going)
  BY DEF NextEvents, LedgerStatus
<1>5. ASSUME NEW st \in Status, event = StatusEvent(n, st), n < MaxLog \/ st \in Terminal,
             st # "completed"
      PROVE  LET h == [g EXCEPT !.log = Append(@, event)]
             IN /\ LedgerOK(h) /\ Extends(g, h)
                /\ event \in Event(MaxLog) /\ event.seq = Len(g.log) + 1
  <2>1. /\ event \in Event(MaxLog) /\ event.seq = n /\ StatusOf(event, None) = st
        /\ event.kind = "status"
    BY <1>1, <1>5, EventTypes DEF StatusEvent
  <2> QED  BY <1>5, <2>1, NextEventKeeps
<1>6. ASSUME NEW kind \in {"start", "delta"}, event = Message(n, kind), n < MaxLog,
             kind = "delta" => status = "running"
      PROVE  LET h == [g EXCEPT !.log = Append(@, event)]
             IN /\ LedgerOK(h) /\ Extends(g, h)
                /\ event \in Event(MaxLog) /\ event.seq = Len(g.log) + 1
  <2>1. kind \in EventKind
    BY DEF EventKind
  <2>2. event \in Event(MaxLog) /\ event.seq = n /\ event.kind = kind
    BY <1>1, <1>6, <2>1, EventTypes DEF Message
  <2>3. event.kind # "delta" => StatusOf(event, None) = "running"
    BY <2>2 DEF StatusOf
  <2>4. "running" \in Status
    BY DEF Status
  <2> QED  BY <1>6, <2>2, <2>3, <2>4, NextEventKeeps
<1>7. CASE status = "running" /\ event = CompleteEvent(n, WholeText(g.log))
  <2>1. /\ event \in Event(MaxLog) /\ event.seq = n /\ event.kind = "complete"
        /\ event.text = WholeText(g.log) /\ StatusOf(event, None) = "completed"
    BY <1>1, <1>3, <1>7, EventTypes DEF CompleteEvent, StatusOf
  <2> QED  BY <2>1, StatusSets, NextEventKeeps
<1>8. "failed" \in Terminal /\ {"failed", "running", "waiting_input"} \subseteq Status
  BY DEF Terminal, Status
<1>9. CASE event \in ends
  BY <1>5, <1>7, <1>8, <1>9
<1>10. CASE n < MaxLog /\ event \in going
  BY <1>2, <1>5, <1>6, <1>8, <1>10
<1> QED  BY <1>4, <1>9, <1>10

LEMMA InterruptedGrows ==
  ASSUME NEW g, LedgerOK(g)
  PROVE  /\ LedgerOK(Interrupted(g)) /\ Extends(g, Interrupted(g))
         /\ Interrupted(g).known = g.known
         /\ Running(Interrupted(g)) => Running(g)
<1>1. CASE Running(g)
  <2> DEFINE event == StatusEvent(Len(g.log) + 1, "interrupted")
  <2>1. /\ g \in [known : BOOLEAN, log : Seq(Event(MaxLog)), first : 1..(MaxLog + 1)]
        /\ Len(g.log) \in Nat /\ Len(g.log) + 1 \in 1..MaxLog
    BY <1>1, TurnAssumption DEF LedgerOK
  <2>2. "interrupted" \in Terminal /\ "interrupted" \in Status
    BY DEF Terminal, Status
  <2>3. /\ event \in Event(MaxLog) /\ event.seq = Len(g.log) + 1
        /\ event.kind = "status" /\ StatusOf(event, None) = "interrupted"
    BY <2>1, <2>2, EventTypes DEF StatusEvent
  <2> HIDE DEF event
  <2>4. LET h == [g EXCEPT !.log = Append(@, event)]
        IN LedgerOK(h) /\ Extends(g, h) /\ h.known = g.known
    BY <1>1, <2>1, <2>2, <2>3, NextEventKeeps
  <2> QED  BY <1>1, <2>4 DEF Interrupted, event
<1>2. CASE ~ Running(g)
  BY <1>2, ExtendsSelf DEF Interrupted
<1> QED  BY <1>1, <1>2

LEMMA AcceptedGrows ==
  ASSUME NEW g, LedgerOK(g), ~ g.known,
         NEW log \in {<<>>, <<StatusEvent(1, "accepted")>>}
  PROVE  LET h == [known |-> TRUE, log |-> log, first |-> 1]
         IN LedgerOK(h) /\ Extends(g, h) /\ h.known /\ h.log = log
<1> DEFINE h == [known |-> TRUE, log |-> log, first |-> 1]
           event == StatusEvent(1, "accepted")
<1>1. h = [known |-> TRUE, log |-> log, first |-> 1]
  OBVIOUS
<1>2. MaxLog \in Nat /\ MaxLog > 1
  BY TurnAssumption
<1>3. /\ event \in Event(MaxLog) /\ event.seq = 1 /\ event.kind = "status"
      /\ StatusOf(event, None) = "accepted"
  BY <1>2, StatusSets, EventTypes DEF StatusEvent
<1> HIDE DEF event
<1>4. log \in Seq(Event(MaxLog)) /\ Len(log) \in 0..1
      /\ \A i \in 1..Len(log) : i = 1 /\ log[i] = event
  <2>1. log = <<>> \/ log = <<event>>
    BY DEF event
  <2>2. CASE log = <<>>
    BY <2>2
  <2>3. CASE log = <<event>>
    <3>1. Len(log) = 1 /\ log[1] = event
      BY <2>3
    <3>2. log \in Seq(Event(MaxLog))
      BY <1>3, <2>3
    <3> QED  BY <3>1, <3>2
  <2> QED  BY <2>1, <2>2, <2>3
<1>5. \A i \in 0..Len(log) : StatusAt(log, i) = "accepted"
  <2>1. StatusAt(log, 0) = "accepted"
    BY StatusBefore
  <2>2. ASSUME Len(log) = 1  PROVE  StatusAt(log, 0 + 1) = "accepted"
    <3>1. log[0 + 1] = event
      BY <1>4, <2>2
    <3> QED  BY <1>3, <3>1, StatusAfter
  <2> QED  BY <1>4, <2>1, <2>2
<1>6. g.log = <<>>
  BY DEF LedgerOK
<1>7. LedgerOK(h)
  <2>1. /\ h.known /\ h.log = log
        /\ h \in [known : BOOLEAN, log : Seq(Event(MaxLog)), first : 1..(MaxLog + 1)]
    <3>1. 1 \in 1..(MaxLog + 1) /\ log \in Seq(Event(MaxLog))
      BY <1>2, <1>4
    <3> HIDE DEF h
    <3> QED  BY <1>1, <3>1
  <2>2. Len(log) < MaxLog
    BY <1>2, <1>4
  <2>3. \A i \in 1..Len(log) : /\ log[i].seq = i /\ log[i].kind # "delta"
                               /\ StatusAt(log, i) = "accepted"
    BY <1>3, <1>4, <1>5
  <2> HIDE DEF h
  <2> QED  BY <1>2, <1>4, <2>1, <2>2, <2>3, StatusSets DEF LedgerOK
<1>8. Extends(g, h)
  <2>1. LedgerStatus(g) = "accepted"
    BY <1>6, StatusBefore DEF LedgerStatus
  <2> QED  BY <1>1, <1>4, <1>6, <2>1, StatusSets DEF Extends
<1> QED  BY <1>1, <1>7, <1>8

LEMMA PrunedGrows ==
  ASSUME NEW g, LedgerOK(g)
  PROVE  LET h == [g EXCEPT !.first = Len(g.log) + 1]
         IN /\ LedgerOK(h) /\ Extends(g, h) /\ h.known = g.known
            /\ Running(h) => Running(g)
<1> DEFINE h == [g EXCEPT !.first = Len(g.log) + 1]
<1>1. /\ g \in [known : BOOLEAN, log : Seq(Event(MaxLog)), first : 1..(MaxLog + 1)]
      /\ Len(g.log) \in Nat /\ Len(g.log) <= MaxLog /\ MaxLog \in Nat
  BY TurnAssumption DEF LedgerOK
<1>2. h = [known |-> g.known, log |-> g.log, first |-> Len(g.log) + 1]
  BY <1>1
<1>3. h \in [known : BOOLEAN, log : Seq(Event(MaxLog)), first : 1..(MaxLog + 1)]
  BY <1>1, <1>2
<1> HIDE DEF h
<1>4. Running(h) <=> Running(g)
  BY <1>2 DEF Running, LedgerStatus
<1>5. LedgerOK(h)
  BY <1>2, <1>3, <1>4 DEF LedgerOK
<1>6. Extends(g, h)
  BY <1>2 DEF Extends
<1> QED  BY <1>2, <1>4, <1>5, <1>6 DEF h

-----------------------------------------------------------------------------
(* What is known of a turn stays true as its ledger grows *)

LEMMA StateFields ==
  ASSUME NEW s \in State(MaxLog)
  PROVE  /\ s.bound \in BOOLEAN /\ s.status \in Status \cup {None}
         /\ s.lastSeq \in Nat /\ s.lastSeq \in 0..MaxLog
         /\ s.result \in SUBSET (0..MaxLog) /\ s.held \in SUBSET Event(MaxLog)
         /\ s.uncertain \in BOOLEAN /\ s.pending \in BOOLEAN
         /\ s.failure \in Failure \cup {None}
BY TurnAssumption DEF State

LEMMA MirrorsStays ==
  ASSUME NEW g, NEW h, LedgerOK(g), LedgerOK(h), Extends(g, h), NEW s,
         s.lastSeq \in Nat, Mirrors(g, s)
  PROVE  Mirrors(h, s)
<1>1. s.lastSeq \in 0..Len(g.log) /\ Len(g.log) \in Nat /\ Len(h.log) \in Nat
  BY DEF Mirrors, LedgerOK
<1>2. StatusAt(h.log, s.lastSeq) = StatusAt(g.log, s.lastSeq)
  BY <1>1, ExtendsStatus
<1>3. s.lastSeq <= Len(h.log)
  BY <1>1 DEF Extends
<1>4. s.bound => h.known
  BY DEF Mirrors, Extends
<1>5. ~FailClosed(s) /\ s.status = "completed" => s.result = WholeText(h.log)
  <2> SUFFICES ASSUME ~FailClosed(s), s.status = "completed"
               PROVE  s.result = WholeText(h.log)
    OBVIOUS
  <2>1. StatusAt(g.log, s.lastSeq) = "completed"
    BY StatusSets DEF Mirrors
  <2>2. h.log = g.log
    BY <1>1, <2>1, StatusSets, EndStays
  <2> QED  BY <2>2 DEF Mirrors
<1> QED  BY <1>2, <1>3, <1>4, <1>5 DEF Mirrors

LEMMA ReducerStays ==
  ASSUME NEW g, NEW h, LedgerOK(g), LedgerOK(h), Extends(g, h), NEW s,
         ReducerOK(g, s)
  PROVE  ReducerOK(h, s)
<1>1. s \in State(MaxLog) /\ s.lastSeq \in Nat
  BY StateFields DEF ReducerOK
<1>2. Mirrors(h, s)
  BY <1>1, MirrorsStays DEF ReducerOK
<1>3. ASSUME NEW e \in s.held  PROVE  e.seq <= Len(h.log) /\ e = h.log[e.seq]
  <2>1. e \in Event(MaxLog) /\ e.seq \in Nat /\ e.seq >= 1
    BY <1>1, StateFields, TurnAssumption DEF Event
  <2>2. e.seq <= Len(g.log) /\ e = g.log[e.seq]
    BY DEF ReducerOK
  <2>3. Len(g.log) \in Nat /\ Len(h.log) \in Nat /\ Len(g.log) <= Len(h.log)
    BY DEF LedgerOK, Extends
  <2>4. e.seq \in 1..Len(g.log)
    BY <2>1, <2>2, <2>3
  <2> QED  BY <2>1, <2>2, <2>3, <2>4 DEF Extends
<1> QED  BY <1>1, <1>2, <1>3 DEF ReducerOK

LEMMA StateStays ==
  ASSUME NEW g, NEW h, LedgerOK(g), LedgerOK(h), Extends(g, h), NEW s,
         StateOK(g, s)
  PROVE  StateOK(h, s)
BY ReducerStays DEF StateOK

\* The ledger now and later; what is not known of a turn whose submission is
\* not under way stays unknown.
Grows(G, W, H, V) ==
  /\ \A t \in Turn : LedgerOK(G[t]) /\ LedgerOK(H[t]) /\ Extends(G[t], H[t])
  /\ V \subseteq W
  /\ \A t \in Turn \ W : ~G[t].known => ~H[t].known

LEMMA EntryFields ==
  ASSUME NEW e \in EntryType
  PROVE  /\ e.scope = Chat /\ e.turn \in Turn
         /\ e.lastSeq \in 0..MaxLog /\ e.lastSeq \in Nat
         /\ e.at \in 1..MaxTime /\ e.at \in Nat
         /\ e.status \in Status \cup {None} /\ e.failure \in Failure \cup {None}
         /\ e.bound \in BOOLEAN /\ e.uncertain \in BOOLEAN
         /\ e.result \in SUBSET (0..MaxLog)
BY TurnAssumption DEF EntryType

LEMMA EntryStays ==
  ASSUME NEW G, NEW W, NEW H, NEW V, Grows(G, W, H, V), NEW e, EntryOK(G, e)
  PROVE  EntryOK(H, e)
<1>1. e \in EntryType /\ e.turn \in Turn /\ e.lastSeq \in Nat
  BY EntryFields DEF EntryOK
<1>2. Mirrors(H[e.turn], e)
  BY <1>1, MirrorsStays DEF EntryOK, Grows
<1> QED  BY <1>2 DEF EntryOK

LEMMA JournalStays ==
  ASSUME NEW G, NEW W, NEW H, NEW V, Grows(G, W, H, V), NEW U, NEW d,
         JournalOK(G, U, d)
  PROVE  JournalOK(H, U, d)
BY EntryStays DEF JournalOK

LEMMA MemoryStays ==
  ASSUME NEW G, NEW W, NEW H, NEW V, Grows(G, W, H, V), NEW U, U \subseteq Turn,
         NEW m, MemoryOK(G, U, m)
  PROVE  MemoryOK(H, U, m)
<1>1. ASSUME NEW t \in DOMAIN m.states  PROVE  StateOK(H[t], m.states[t])
  <2>1. t \in Turn /\ StateOK(G[t], m.states[t])
    BY DEF MemoryOK
  <2> QED  BY <2>1, StateStays DEF Grows
<1>2. ASSUME NEW t \in DOMAIN m.tombs  PROVE  ReducerOK(H[t], m.tombs[t])
  <2>1. t \in Turn /\ ReducerOK(G[t], m.tombs[t])
    BY DEF MemoryOK
  <2> QED  BY <2>1, ReducerStays DEF Grows
<1> QED  BY <1>1, <1>2 DEF MemoryOK

LEMMA TodoStays ==
  ASSUME NEW G, NEW W, NEW H, NEW V, Grows(G, W, H, V), NEW U, NEW todo,
         TodoOK(G, U, todo)
  PROVE  TodoOK(H, U, todo)
BY EntryStays DEF TodoOK

LEMMA ReplyStays ==
  ASSUME NEW G, NEW W, NEW H, NEW V, Grows(G, W, H, V), NEW t \in Turn, NEW reply,
         ReplyOK(G, W, t, reply)
  PROVE  ReplyOK(H, V, t, reply)
<1>1. CASE reply = NoReply
  BY <1>1 DEF ReplyOK
<1>2. CASE reply = Rejection /\ ~G[t].known /\ t \notin W
  BY <1>2 DEF ReplyOK, Grows
<1>3. CASE /\ reply = [kind |-> "ack", status |-> reply.status, lastSeq |-> reply.lastSeq]
           /\ G[t].known
           /\ reply.lastSeq \in 0..Len(G[t].log)
           /\ reply.status = StatusAt(G[t].log, reply.lastSeq)
  <2>1. LedgerOK(G[t]) /\ LedgerOK(H[t]) /\ Extends(G[t], H[t])
    BY DEF Grows
  <2>2. StatusAt(H[t].log, reply.lastSeq) = StatusAt(G[t].log, reply.lastSeq)
    BY <1>3, <2>1, ExtendsStatus
  <2>3. Len(G[t].log) \in Nat /\ Len(H[t].log) \in Nat
        /\ Len(G[t].log) <= Len(H[t].log) /\ H[t].known
    BY <1>3, <2>1 DEF LedgerOK, Extends
  <2>4. reply.lastSeq \in 0..Len(H[t].log)
    BY <1>3, <2>3
  <2> QED  BY <1>3, <2>2, <2>3, <2>4 DEF ReplyOK
<1> QED  BY <1>1, <1>2, <1>3 DEF ReplyOK

\* A call that waits is not disturbed by what the gateway does.
LEMMA CallStays ==
  ASSUME NEW G, NEW W, NEW H, NEW V, Grows(G, W, H, V), NEW U, U \subseteq Turn,
         NEW m, MemoryOK(G, U, m), NEW o, OpOK(G, W, U, m, o)
  PROVE  OpOK(H, V, U, m, o)
<1>1. o.kind \in {"armed", "sent", "interrupting", "reconcile"} => o.turn \in Turn
  BY DEF OpOK, CallOK, MemoryOK
<1>2. o.kind = "armed" => ~H[o.turn].known /\ o.turn \notin V
  BY <1>1 DEF OpOK, Grows
<1>3. o.kind = "sent" => ReplyOK(H, V, o.turn, o.reply)
  BY <1>1, ReplyStays DEF OpOK
<1>4. o.kind = "recover" => TodoOK(H, U, o.todo)
  BY TodoStays DEF OpOK
<1>5. o.kind = "reconcile" =>
        /\ {o.cursor, o.durable} \subseteq 0..Len(H[o.turn].log)
        /\ ContextOK(H, U, o.turn, o.context)
  <2> SUFFICES ASSUME o.kind = "reconcile"
               PROVE  /\ {o.cursor, o.durable} \subseteq 0..Len(H[o.turn].log)
                      /\ ContextOK(H, U, o.turn, o.context)
    OBVIOUS
  <2>1. /\ {o.cursor, o.durable} \subseteq 0..Len(G[o.turn].log)
        /\ ContextOK(G, U, o.turn, o.context)
    BY DEF OpOK
  <2>2. Len(G[o.turn].log) \in Nat /\ Len(H[o.turn].log) \in Nat
        /\ Len(G[o.turn].log) <= Len(H[o.turn].log)
    BY <1>1 DEF Grows, LedgerOK, Extends
  <2>3. ContextOK(H, U, o.turn, o.context)
    BY <2>1, TodoStays DEF ContextOK
  <2>4. 0..Len(G[o.turn].log) \subseteq 0..Len(H[o.turn].log)
    BY <2>2
  <2> QED  BY <2>1, <2>3, <2>4
<1> QED  BY <1>2, <1>3, <1>4, <1>5 DEF OpOK

-----------------------------------------------------------------------------
(* The operations of the reducer *)

LEMMA FailFields ==
  ASSUME NEW s \in State(MaxLog), NEW reason \in Failure
  PROVE  LET f == Fail(s, reason)
         IN /\ f \in State(MaxLog) /\ FailClosed(f)
            /\ f.bound = s.bound /\ f.status = s.status /\ f.lastSeq = s.lastSeq
            /\ f.result = s.result /\ f.held = s.held
            /\ ~FailClosed(s) => ~f.uncertain /\ ~f.pending
<1>1. reason # None
  BY DEF Failure, None
<1> QED  BY <1>1 DEF Fail, FailClosed, State

LEMMA FailKeeps ==
  ASSUME NEW g, NEW s, ReducerOK(g, s), NEW reason \in Failure
  PROVE  StateOK(g, Fail(s, reason)) /\ FailClosed(Fail(s, reason))
<1> DEFINE f == Fail(s, reason)
<1>1. /\ f \in State(MaxLog) /\ FailClosed(f)
      /\ f.bound = s.bound /\ f.status = s.status /\ f.lastSeq = s.lastSeq
      /\ f.result = s.result /\ f.held = s.held
      /\ ~FailClosed(s) => ~f.uncertain /\ ~f.pending
  BY FailFields DEF ReducerOK
<1>2. FailClosed(s) => f = s
  BY DEF Fail
<1> HIDE DEF f
<1>3. Mirrors(g, f)
  BY <1>1 DEF ReducerOK, Mirrors
<1>4. FailClosed(f) \/ IsTerminal(f) => ~f.uncertain /\ ~f.pending
  BY <1>1, <1>2 DEF ReducerOK
<1>5. ReducerOK(g, f)
  BY <1>1, <1>3, <1>4 DEF ReducerOK, IsTerminal
<1> QED  BY <1>1, <1>5 DEF StateOK, f

\* The state of a prompt that is about to be sent.
LEMMA IntentOK ==
  ASSUME NEW g, LedgerOK(g)
  PROVE  LET s == MarkUncertain(Initial)
         IN StateOK(g, s) /\ Unsettled(s) /\ MustReconcile(s)
<1> DEFINE s == MarkUncertain(Initial)
<1>1. s = [bound |-> FALSE, status |-> None, lastSeq |-> 0, result |-> NoResult,
           held |-> {}, uncertain |-> TRUE, pending |-> FALSE, failure |-> None]
  BY StatusSets DEF MarkUncertain, Initial, FailClosed, IsTerminal, State
<1> HIDE DEF s
<1>2. 0 \in 0..MaxLog /\ Len(g.log) \in Nat
  BY TurnAssumption DEF LedgerOK
<1>3. s \in State(MaxLog)
  BY <1>1, <1>2 DEF State, NoResult
<1>4. ~FailClosed(s) /\ ~IsTerminal(s)
  BY <1>1, StatusSets DEF FailClosed, IsTerminal
<1>5. ReducerOK(g, s)
  BY <1>1, <1>2, <1>3, <1>4 DEF ReducerOK, Mirrors, None
<1> QED  BY <1>1, <1>4, <1>5 DEF StateOK, Unsettled, MustReconcile, s

LEMMA MarkKeeps ==
  ASSUME NEW g, NEW s, StateOK(g, s)
  PROVE  LET u == MarkUncertain(s)
         IN /\ StateOK(g, u)
            /\ Unsettled(s) => Unsettled(u) /\ MustReconcile(u)
            /\ u # s => Unsettled(s)
<1> DEFINE u == MarkUncertain(s)
<1>1. CASE Unsettled(s)
  <2>1. s \in State(MaxLog)
    BY DEF StateOK, ReducerOK
  <2>2. /\ u \in State(MaxLog) /\ u.uncertain /\ ~u.pending
        /\ u.bound = s.bound /\ u.status = s.status /\ u.lastSeq = s.lastSeq
        /\ u.result = s.result /\ u.held = s.held /\ u.failure = s.failure
    BY <1>1, <2>1 DEF MarkUncertain, State, Unsettled
  <2> HIDE DEF u
  <2>3. ~FailClosed(u) /\ ~IsTerminal(u)
    BY <1>1, <2>2 DEF Unsettled, FailClosed, IsTerminal
  <2>4. Mirrors(g, u)
    BY <2>2 DEF StateOK, ReducerOK, Mirrors, FailClosed
  <2>5. ReducerOK(g, u)
    BY <2>2, <2>3, <2>4 DEF StateOK, ReducerOK, IsTerminal
  <2> QED  BY <1>1, <2>2, <2>3, <2>5 DEF StateOK, Unsettled, MustReconcile, u
<1>2. CASE ~Unsettled(s)
  BY <1>2 DEF MarkUncertain, Unsettled
<1> QED  BY <1>1, <1>2

LEMMA ReleaseKeeps ==
  ASSUME NEW g, NEW s, ReducerOK(g, s)
  PROVE  /\ ReducerOK(g, ReleasePayloads(s))
         /\ FailClosed(ReleasePayloads(s)) <=> FailClosed(s)
<1> DEFINE r == ReleasePayloads(s)
<1>1. s \in State(MaxLog)
  BY DEF ReducerOK
<1>2. /\ r \in State(MaxLog) /\ r.held = {}
      /\ r.bound = s.bound /\ r.status = s.status /\ r.lastSeq = s.lastSeq
      /\ r.result = s.result /\ r.failure = s.failure
      /\ r.uncertain = s.uncertain /\ r.pending = s.pending
  BY <1>1 DEF ReleasePayloads, State
<1> HIDE DEF r
<1>3. Mirrors(g, r)
  BY <1>2 DEF ReducerOK, Mirrors, FailClosed
<1>4. ReducerOK(g, r)
  BY <1>2, <1>3 DEF ReducerOK, FailClosed, IsTerminal
<1> QED  BY <1>2, <1>4 DEF FailClosed, r

\* What the reducer believes of a turn that goes on, it believes of the prefix
\* it has seen; a final status is that of the whole log.
LEMMA BelievedStatus ==
  ASSUME NEW g, LedgerOK(g), NEW s, ReducerOK(g, s), ~FailClosed(s)
  PROVE  /\ s.lastSeq \in 0..Len(g.log) /\ Len(g.log) \in Nat
         /\ s.status # None => s.status = StatusAt(g.log, s.lastSeq)
         /\ IsTerminal(s) => s.lastSeq = Len(g.log) /\ s.lastSeq > 0
         /\ s.status = "completed" => s.result = WholeText(g.log)
<1>1. s.lastSeq \in Nat /\ s.lastSeq <= Len(g.log) /\ Len(g.log) \in Nat
  BY StateFields DEF ReducerOK, Mirrors, LedgerOK
<1>2. /\ s.status # None => s.status = StatusAt(g.log, s.lastSeq)
      /\ s.status = "completed" => s.result = WholeText(g.log)
  BY DEF ReducerOK, Mirrors
<1>3. IsTerminal(s) => s.status # None
  BY StatusSets DEF IsTerminal
<1> QED  BY <1>1, <1>2, <1>3, LogStatus DEF IsTerminal

LEMMA WholeTextIs ==
  ASSUME NEW g, LedgerOK(g)
  PROVE  /\ WholeText(g.log) # NoResult
         /\ WholeText(g.log) \in SUBSET (0..MaxLog)
<1>1. Len(g.log) \in Nat /\ Len(g.log) <= MaxLog /\ MaxLog \in Nat
  BY TurnAssumption DEF LedgerOK
<1> QED  BY <1>1 DEF WholeText, NoResult

LEMMA AckKeeps ==
  ASSUME NEW g, LedgerOK(g), NEW s, StateOK(g, s), NEW ack, g.known,
         ack.lastSeq \in 0..Len(g.log), ack.status = StatusAt(g.log, ack.lastSeq)
  PROVE  StateOK(g, ApplyAck(s, ack))
<1> DEFINE a == ApplyAck(s, ack)
           immaterial == ack.status = "completed" /\ s.result = NoResult
<1>1. ReducerOK(g, s) /\ s \in State(MaxLog)
  BY DEF StateOK, ReducerOK
<1>2. CASE FailClosed(s)
  BY <1>2 DEF ApplyAck
<1>3. CASE ~FailClosed(s)
  <2>1. /\ s.lastSeq \in 0..Len(g.log) /\ Len(g.log) \in Nat /\ s.lastSeq \in Nat
        /\ s.status # None => s.status = StatusAt(g.log, s.lastSeq)
        /\ IsTerminal(s) => s.lastSeq = Len(g.log) /\ s.lastSeq > 0
        /\ s.status = "completed" => s.result = WholeText(g.log)
    BY <1>1, <1>3, BelievedStatus
  <2>2. ack.lastSeq \in Nat /\ ack.lastSeq <= Len(g.log) /\ ack.status \in Status
        /\ (ack.status \in Terminal => ack.lastSeq = Len(g.log) /\ ack.lastSeq > 0)
    BY <2>1, LogStatus
  <2>3. {"protocolViolation", "invalidTransition"} \subseteq Failure
    BY DEF Failure
  <2>4. CASE ack.lastSeq < s.lastSeq
    <3>1. a = Fail(s, "protocolViolation")
      BY <1>3, <2>1, <2>2, <2>4 DEF ApplyAck
    <3> QED  BY <1>1, <2>3, <3>1, FailKeeps
  <2>5. CASE ack.lastSeq > s.lastSeq
    <3>1. a = [s EXCEPT !.bound = TRUE, !.uncertain = TRUE, !.pending = FALSE]
      BY <1>3, <2>1, <2>2, <2>5 DEF ApplyAck
    <3>2. /\ a \in State(MaxLog) /\ a.bound /\ a.uncertain /\ ~a.pending
          /\ a.status = s.status /\ a.lastSeq = s.lastSeq /\ a.result = s.result
          /\ a.held = s.held /\ a.failure = s.failure
      BY <1>1, <3>1 DEF State
    <3> HIDE DEF a
    <3>3. ~IsTerminal(s)
      BY <2>1, <2>2, <2>5
    <3>4. ReducerOK(g, a)
      BY <1>1, <1>3, <3>2, <3>3 DEF ReducerOK, Mirrors, FailClosed, IsTerminal
    <3> QED  BY <3>2, <3>4 DEF StateOK, a
  <2>6. CASE ack.lastSeq = s.lastSeq
    <3>1. CASE s.status # None /\ ~TransitionAllowed(s.status, ack.status)
      <4>1. a = Fail(s, "invalidTransition")
        BY <1>3, <2>6, <2>1, <3>1 DEF ApplyAck
      <4> QED  BY <1>1, <2>3, <4>1, FailKeeps
    <3>2. CASE ~(s.status # None /\ ~TransitionAllowed(s.status, ack.status))
      <4>1. a = [s EXCEPT !.bound = TRUE,
                          !.status = IF immaterial THEN @ ELSE ack.status,
                          !.uncertain = immaterial, !.pending = immaterial]
        BY <1>3, <2>6, <2>1, <3>2 DEF ApplyAck
      <4>2. /\ a \in State(MaxLog) /\ a.bound
            /\ a.uncertain = immaterial /\ a.pending = immaterial
            /\ a.status = (IF immaterial THEN s.status ELSE ack.status)
            /\ a.lastSeq = s.lastSeq /\ a.result = s.result
            /\ a.held = s.held /\ a.failure = s.failure
        BY <1>1, <2>2, <4>1 DEF State
      <4> HIDE DEF a
      <4>3. ~FailClosed(a)
        BY <1>3, <4>2 DEF FailClosed
      <4>4. CASE immaterial
        <5>1. ~IsTerminal(s)
          <6>1. IsTerminal(s) => s.status = ack.status
            BY <2>1, <2>6, StatusSets DEF IsTerminal
          <6> QED  BY <2>1, <4>4, <6>1, WholeTextIs
        <5>2. Mirrors(g, a)
          BY <1>1, <1>3, <4>2, <4>4 DEF ReducerOK, Mirrors, FailClosed
        <5>3. ReducerOK(g, a)
          BY <1>1, <4>2, <4>3, <4>4, <5>1, <5>2 DEF ReducerOK, IsTerminal
        <5> QED  BY <4>2, <4>4, <5>3 DEF StateOK, a
      <4>5. CASE ~immaterial
        <5>1. ack.status = "completed" => s.result = WholeText(g.log)
          <6>1. s.result # NoResult => IsTerminal(s)
            BY <1>1 DEF ReducerOK
          <6>2. IsTerminal(s) => s.status = ack.status
            BY <2>1, <2>6, StatusSets DEF IsTerminal
          <6> QED  BY <2>1, <4>5, <6>1, <6>2
        <5>2. Mirrors(g, a)
          BY <2>1, <2>2, <2>6, <4>2, <4>5, <5>1 DEF Mirrors
        <5>3. s.result # NoResult => ack.status \in Terminal
          <6>1. s.result # NoResult => IsTerminal(s)
            BY <1>1 DEF ReducerOK
          <6> QED  BY <2>1, <2>6, <6>1, StatusSets DEF IsTerminal
        <5>4. a.status # None
          BY <2>2, <4>2, <4>5, StatusSets
        <5>5. ReducerOK(g, a)
          BY <1>1, <4>2, <4>3, <4>5, <5>2, <5>3, <5>4 DEF ReducerOK, IsTerminal
        <5> QED  BY <4>2, <5>4, <5>5 DEF StateOK, a
      <4> QED  BY <4>4, <4>5
    <3> QED  BY <3>1, <3>2
  <2> QED  BY <2>1, <2>2, <2>4, <2>5, <2>6
<1> QED  BY <1>2, <1>3

\* The text of some events of a log: of the last complete one, or the deltas.
LEMMA TextIs ==
  ASSUME NEW held, held \subseteq Event(MaxLog)
  PROVE  /\ TextOf(held) \in SUBSET (0..MaxLog)
         /\ \A e \in held :
              (/\ e.kind = "complete" /\ \A f \in held : f.seq <= e.seq
               /\ \A f \in held : f.seq = e.seq => f = e)
              => TextOf(held) = e.text
<1> DEFINE completes == {e \in held : e.kind = "complete"}
           last == CHOOSE e \in completes : \A f \in completes : f.seq <= e.seq
           seqs == {e.seq : e \in completes}
<1>1. \A e \in held : /\ e.seq \in 1..MaxLog /\ e.text \in SUBSET (0..MaxLog)
                      /\ e.seq \in 0..MaxLog
  BY TurnAssumption DEF Event
<1>2. ASSUME completes # {}
      PROVE  last \in completes /\ \A f \in completes : f.seq <= last.seq
  <2>1. seqs \subseteq 1..MaxLog /\ seqs # {}
    BY <1>1, <1>2
  <2>2. PICK n \in seqs : \A k \in seqs : k <= n
    <3> HIDE DEF seqs
    <3> QED  BY <2>1, TurnAssumption, LastPlace
  <2>3. PICK e \in completes : e.seq = n
    BY <2>2
  <2>4. \A f \in completes : f.seq <= e.seq
    BY <2>2, <2>3
  <2> QED  BY <2>4
<1>3. TextOf(held) \in SUBSET (0..MaxLog)
  <2>1. CASE \A e \in held : e.kind = "status"
    BY <2>1, TurnAssumption DEF TextOf, NoResult
  <2>2. CASE ~(\A e \in held : e.kind = "status") /\ completes # {}
    <3>1. TextOf(held) = last.text
      BY <2>2 DEF TextOf
    <3> QED  BY <1>1, <1>2, <2>2, <3>1
  <2>3. CASE ~(\A e \in held : e.kind = "status") /\ completes = {}
    <3>1. TextOf(held) = {e.seq : e \in {d \in held : d.kind = "delta"}}
      BY <2>3 DEF TextOf
    <3> QED  BY <1>1, <3>1
  <2> QED  BY <2>1, <2>2, <2>3
<1>4. ASSUME NEW e \in held, e.kind = "complete", \A f \in held : f.seq <= e.seq,
             \A f \in held : f.seq = e.seq => f = e
      PROVE  TextOf(held) = e.text
  <2>1. e \in completes
    BY <1>4
  <2>2. last \in completes /\ e.seq <= last.seq /\ last.seq <= e.seq
    BY <1>2, <1>4, <2>1
  <2>3. last.seq = e.seq
    BY <1>1, <2>2
  <2>4. last = e
    BY <1>4, <2>2, <2>3
  <2>5. TextOf(held) = last.text
    BY <1>4, <2>1 DEF TextOf
  <2> QED  BY <2>4, <2>5
<1> QED  BY <1>3, <1>4

\* The next event of the ledger takes a state to one that has seen it.
LEMMA AdvanceKeeps ==
  ASSUME NEW g, LedgerOK(g), g.known, NEW s, ReducerOK(g, s),
         ~FailClosed(s), ~IsTerminal(s),
         NEW event \in Event(MaxLog), event.seq = s.lastSeq + 1,
         event.seq <= Len(g.log), event = g.log[event.seq]
  PROVE  /\ StateOK(g, Advance(s, event))
         /\ s.bound => Advance(s, event).bound
<1> DEFINE status == StatusOf(event, s.status)
           held == s.held \cup {event}
           result == IF status \in Terminal /\ s.result = NoResult
                     THEN TextOf(held) ELSE s.result
           u == [s EXCEPT !.bound = TRUE, !.status = status, !.lastSeq = event.seq,
                          !.held = held, !.uncertain = FALSE, !.pending = FALSE,
                          !.result = IF status \in Terminal /\ @ = NoResult
                                     THEN TextOf(held) ELSE @]
           n == s.lastSeq
<1>1. /\ s \in State(MaxLog) /\ n \in Nat /\ n \in 0..Len(g.log)
      /\ Len(g.log) \in Nat
      /\ s.status # None => s.status = StatusAt(g.log, n)
      /\ n = s.lastSeq /\ event.seq = n + 1
  BY BelievedStatus, StateFields DEF ReducerOK
<1> HIDE DEF n
<1>2. {"protocolViolation", "invalidTransition"} \subseteq Failure
  BY DEF Failure
<1>3. n + 1 \in 1..Len(g.log) /\ n + 1 - 1 = n /\ event = g.log[n + 1]
  BY <1>1
<1>4. /\ StatusAt(g.log, n + 1) \in Status
      /\ event.kind = "delta" => StatusAt(g.log, n) = "running"
      /\ StatusAt(g.log, n + 1) = "completed" =>
           event.kind = "complete" /\ event.text = WholeText(g.log)
  <2>1. g.log[n + 1].kind = "delta" => StatusAt(g.log, n) = "running"
    <3> DEFINE k == n + 1
    <3>1. k \in 1..Len(g.log) /\ k - 1 = n
      BY <1>1, <1>3
    <3> HIDE DEF k
    <3>2. g.log[k].kind = "delta" => StatusAt(g.log, k - 1) = "running"
      BY <3>1 DEF LedgerOK
    <3> QED  BY <3>1, <3>2 DEF k
  <2>2. /\ StatusAt(g.log, n + 1) \in Status
        /\ StatusAt(g.log, n + 1) = "completed" =>
             /\ g.log[n + 1].kind = "complete"
             /\ g.log[n + 1].text = WholeText(g.log)
    BY <1>3 DEF LedgerOK
  <2> QED  BY <1>3, <2>1, <2>2
<1>5. status = StatusAt(g.log, n + 1)
  <2>1. CASE event.kind = "delta"
    <3>1. s.status # None
      <4>1. s.status = None => n = 0
        BY <1>1 DEF ReducerOK
      <4>2. StatusAt(g.log, 0) = "accepted"
        BY StatusBefore
      <4> QED  BY <1>4, <2>1, <4>1, <4>2
    <3>2. StatusAt(g.log, n + 1) = StatusAt(g.log, n)
      BY <1>1, <1>3, <2>1, StatusAfter
    <3> QED  BY <1>1, <2>1, <3>1, <3>2 DEF StatusOf
  <2>2. CASE event.kind # "delta"
    <3>1. StatusAt(g.log, n + 1) = StatusOf(event, None)
      BY <1>1, <1>3, <2>2, StatusAfter
    <3>2. event.kind \in {"start", "complete", "status"}
      BY <2>2 DEF Event, EventKind
    <3> QED  BY <3>1, <3>2 DEF StatusOf
  <2> QED  BY <2>1, <2>2
<1>6. held \subseteq Event(MaxLog) /\ \A e \in held : e.seq <= Len(g.log) /\ e = g.log[e.seq]
  BY <1>1, StateFields DEF ReducerOK
<1>7. CASE s.status # None /\ ~TransitionAllowed(s.status, status)
  <2>1. Advance(s, event) = Fail(s, "invalidTransition")
    BY <1>7 DEF Advance
  <2> QED  BY <1>1, <1>2, <2>1, FailKeeps, FailFields
<1>8. CASE ~(s.status # None /\ ~TransitionAllowed(s.status, status))
  <2>1. Advance(s, event) = CompletedHasText(u)
    BY <1>8 DEF Advance
  <2>2. TextOf(held) \in SUBSET (0..MaxLog)
    BY <1>6, TextIs
  <2>3. /\ result \in SUBSET (0..MaxLog) /\ status \in Status
        /\ event.seq \in 0..MaxLog
    <3>1. s.result \in SUBSET (0..MaxLog)
      BY <1>1, StateFields
    <3>2. event.seq \in 1..MaxLog /\ MaxLog \in Nat
      BY TurnAssumption DEF Event
    <3> HIDE DEF held, status
    <3> QED  BY <1>4, <1>5, <2>2, <3>1, <3>2
  <2> HIDE DEF held, status
  <2>4. /\ u \in State(MaxLog) /\ u.bound /\ ~u.uncertain /\ ~u.pending
        /\ u.status = status /\ u.lastSeq = n + 1 /\ u.result = result
        /\ u.held = held /\ u.failure = s.failure
    BY <1>1, <1>6, <2>3 DEF State
  <2> HIDE DEF u, result
  <2>5. ~FailClosed(u) /\ u.status # None
    BY <2>3, <2>4, StatusSets DEF FailClosed
  <2>6. u.result # NoResult => IsTerminal(u)
    <3>1. s.result = NoResult
      BY DEF ReducerOK
    <3> QED  BY <2>4, <3>1 DEF IsTerminal, result
  <2>7. status = "completed" => u.result = WholeText(g.log)
    <3> SUFFICES ASSUME status = "completed"  PROVE  u.result = WholeText(g.log)
      OBVIOUS
    <3>1. event.kind = "complete" /\ event.text = WholeText(g.log)
      BY <1>4, <1>5
    <3>2. n + 1 = Len(g.log)
      BY <1>3, <1>5, StatusSets DEF LedgerOK
    <3>3. \A f \in held : f.seq <= event.seq /\ (f.seq = event.seq => f = event)
      BY <1>1, <1>3, <1>6, <3>2
    <3>4. event \in held
      BY DEF held
    <3>5. TextOf(held) = event.text
      BY <1>6, <3>1, <3>3, <3>4, TextIs
    <3>6. s.result = NoResult
      BY DEF ReducerOK
    <3> QED  BY <2>4, <3>1, <3>5, <3>6, StatusSets DEF result
  <2>8. Mirrors(g, u)
    BY <1>3, <1>5, <2>4, <2>7 DEF Mirrors
  <2>9. ReducerOK(g, u)
    BY <1>6, <2>4, <2>5, <2>6, <2>8 DEF ReducerOK
  <2>10. StateOK(g, u)
    BY <2>4, <2>5, <2>9 DEF StateOK
  <2> QED
    BY <1>2, <2>1, <2>4, <2>9, <2>10, FailKeeps, FailFields DEF CompletedHasText
<1> QED  BY <1>7, <1>8

\* An event of the ledger, whether it is the next one, an old one or comes too
\* early.
LEMMA EventKeeps ==
  ASSUME NEW g, LedgerOK(g), g.known, NEW s, ReducerOK(g, s),
         NEW event \in Event(MaxLog),
         event.seq <= Len(g.log), event = g.log[event.seq]
  PROVE  /\ ReducerOK(g, ApplyEvent(s, event))
         /\ StateOK(g, s) => StateOK(g, ApplyEvent(s, event))
         /\ s.bound => ApplyEvent(s, event).bound
<1> DEFINE a == ApplyEvent(s, event)
           same == {e \in s.held : e.seq = event.seq}
<1>1. /\ s \in State(MaxLog) /\ s.lastSeq \in Nat /\ event.seq \in Nat
  BY StateFields, TurnAssumption DEF ReducerOK, Event
<1>2. \A e \in same : e = event
  BY DEF ReducerOK
<1>3. CASE FailClosed(s) \/ same # {}
  <2>1. a = s
    BY <1>2, <1>3 DEF ApplyEvent
  <2> QED  BY <2>1
<1>4. CASE ~FailClosed(s) /\ same = {} /\ IsTerminal(s)
  <2>1. a = Fail(s, "invalidTransition")
    BY <1>4 DEF ApplyEvent
  <2>2. "invalidTransition" \in Failure
    BY DEF Failure
  <2> QED  BY <1>1, <2>1, <2>2, FailKeeps, FailFields DEF StateOK
<1>5. CASE ~FailClosed(s) /\ same = {} /\ ~IsTerminal(s)
  <2>1. CASE event.seq <= s.lastSeq
    <3>1. a = s
      BY <1>1, <1>5, <2>1 DEF ApplyEvent
    <3> QED  BY <3>1
  <2>2. CASE event.seq = s.lastSeq + 1
    <3>1. a = Advance(s, event)
      BY <1>1, <1>5, <2>2 DEF ApplyEvent
    <3> QED  BY <1>5, <2>2, <3>1, AdvanceKeeps DEF StateOK
  <2>3. CASE event.seq > s.lastSeq + 1
    <3>1. a = [s EXCEPT !.pending = TRUE]
      BY <1>1, <1>5, <2>3 DEF ApplyEvent
    <3>2. /\ a \in State(MaxLog) /\ a.uncertain = s.uncertain /\ a.bound = s.bound
          /\ a.status = s.status /\ a.lastSeq = s.lastSeq /\ a.result = s.result
          /\ a.held = s.held /\ a.failure = s.failure
      BY ZenonT(40), <1>1, <3>1 DEF State
    <3> HIDE DEF a
    <3>3. ReducerOK(g, a)
      BY <1>5, <3>2 DEF ReducerOK, Mirrors, FailClosed, IsTerminal
    <3> QED  BY <3>2, <3>3 DEF StateOK, FailClosed, a
  <2> QED  BY <1>1, <2>1, <2>2, <2>3
<1> QED  BY <1>3, <1>4, <1>5

-----------------------------------------------------------------------------
(* A page of events is a recursive function of their number: it exists,    *)
(* because there is no least number for which it does not, and what every  *)
(* event keeps it keeps.                                                   *)

LEMMA FoldExists ==
  ASSUME NEW s, NEW events, NEW n \in Nat
  PROVE  \E f : f = [i \in 0..n |-> IF i = 0 THEN s
                                    ELSE ApplyEvent(f[i - 1], events[i])]
<1> DEFINE Is(f, k) == f = [i \in 0..k |-> IF i = 0 THEN s
                                           ELSE ApplyEvent(f[i - 1], events[i])]
           K == {k \in 0..n : ~ \E f : Is(f, k)}
<1>1. CASE K = {}
  BY <1>1
<1>2. CASE K # {}
  <2>1. PICK k \in K : \A l \in K : k <= l
    <3>1. K \subseteq Nat
      OBVIOUS
    <3> HIDE DEF K
    <3> QED  BY <1>2, <3>1, LeastNumber
  <2>2. k \in 0..n /\ ~ \E f : Is(f, k)
    OBVIOUS
  <2>3. CASE k = 0
    <3>1. Is([i \in 0..0 |-> s], 0)
      OBVIOUS
    <3> QED  BY <2>2, <2>3, <3>1
  <2>4. CASE k > 0
    <3>1. k - 1 \in 0..n /\ k - 1 \notin K
      <4>1. ~(k <= k - 1)
        BY <2>2
      <4> HIDE DEF K
      <4> QED  BY <2>1, <2>2, <2>4, <4>1
    <3>2. PICK f : Is(f, k - 1)
      BY <3>1
    <3> DEFINE h == [i \in 0..k |-> IF i < k THEN f[i]
                                    ELSE ApplyEvent(f[k - 1], events[k])]
    <3>3. ASSUME NEW i \in 0..k
          PROVE  h[i] = IF i = 0 THEN s ELSE ApplyEvent(h[i - 1], events[i])
      <4>1. CASE i < k
        <5>1. i \in 0..(k - 1)
          BY <2>2, <4>1
        <5>2. f[i] = IF i = 0 THEN s ELSE ApplyEvent(f[i - 1], events[i])
          BY <3>2, <5>1
        <5>3. i # 0 => h[i - 1] = f[i - 1]
          BY <2>2, <4>1
        <5> QED  BY <4>1, <5>2, <5>3
      <4>2. CASE i = k
        <5>1. h[i - 1] = f[k - 1]
          BY <2>2, <2>4, <4>2
        <5> QED  BY <2>2, <2>4, <4>2, <5>1
      <4> QED  BY <2>2, <4>1, <4>2
    <3>4. Is(h, k)
      BY <3>3
    <3> QED  BY <2>2, <3>4
  <2> QED  BY <2>2, <2>3, <2>4
<1> QED  BY <1>1, <1>2

LEMMA FoldSteps ==
  ASSUME NEW s, NEW events, Len(events) \in Nat
  PROVE  \E f : /\ f[0] = s
                /\ \A i \in 1..Len(events) : f[i] = ApplyEvent(f[i - 1], events[i])
                /\ ApplyAll(s, events) = f[Len(events)]
<1> DEFINE n == Len(events)
           g == CHOOSE f : f = [i \in 0..n |-> IF i = 0 THEN s
                                               ELSE ApplyEvent(f[i - 1], events[i])]
<1>1. g = [i \in 0..n |-> IF i = 0 THEN s ELSE ApplyEvent(g[i - 1], events[i])]
  BY FoldExists
<1>2. ApplyAll(s, events) = g[n]
  BY DEF ApplyAll
<1> HIDE DEF g
<1>3. g[0] = s
  BY <1>1
<1>4. ASSUME NEW i \in 1..n  PROVE  g[i] = ApplyEvent(g[i - 1], events[i])
  <2>1. i \in 0..n /\ i # 0
    OBVIOUS
  <2> QED  BY <1>1, <2>1
<1> QED  BY <1>2, <1>3, <1>4

LEMMA FoldKeeps ==
  ASSUME NEW g, LedgerOK(g), g.known, NEW s, ReducerOK(g, s),
         NEW events \in Seq(Event(MaxLog)),
         \A i \in 1..Len(events) : /\ events[i].seq <= Len(g.log)
                                   /\ events[i] = g.log[events[i].seq]
  PROVE  /\ ReducerOK(g, ApplyAll(s, events))
         /\ s.bound => ApplyAll(s, events).bound
<1> DEFINE n == Len(events)
<1>1. n \in Nat
  OBVIOUS
<1>2. PICK f : /\ f[0] = s
               /\ \A i \in 1..n : f[i] = ApplyEvent(f[i - 1], events[i])
               /\ ApplyAll(s, events) = f[n]
  BY <1>1, FoldSteps
<1> DEFINE Good(k) == ReducerOK(g, f[k]) /\ (s.bound => f[k].bound)
           K == {k \in 0..n : ~Good(k)}
<1>3. CASE K = {}
  BY <1>1, <1>2, <1>3
<1>4. CASE K # {}
  <2>1. PICK k \in K : \A l \in K : k <= l
    <3>1. K \subseteq Nat
      OBVIOUS
    <3> HIDE DEF K
    <3> QED  BY <1>4, <3>1, LeastNumber
  <2>2. k \in 0..n /\ ~Good(k)
    OBVIOUS
  <2>3. k # 0
    BY <1>2, <2>2
  <2>4. k - 1 \in 0..n /\ k - 1 \notin K
    <3>1. ~(k <= k - 1) /\ k - 1 \in 0..n
      BY <1>1, <2>2, <2>3
    <3> HIDE DEF K
    <3> QED  BY <2>1, <3>1
  <2>5. Good(k - 1)
    BY <2>4
  <2>6. k \in 1..n /\ events[k] \in Event(MaxLog)
    BY <1>1, <2>2, <2>3
  <2>7. /\ ReducerOK(g, ApplyEvent(f[k - 1], events[k]))
        /\ s.bound => ApplyEvent(f[k - 1], events[k]).bound
    BY <2>5, <2>6, EventKeeps
  <2> QED  BY <1>2, <2>2, <2>6, <2>7
<1> QED  BY <1>3, <1>4

-----------------------------------------------------------------------------
(* Pages *)

\* What a page says of the ledger it is made from.
PageOK(g, page) ==
  /\ g.known
  /\ page.status = LedgerStatus(g) /\ page.last = Len(g.log)
  /\ page.next \in 0..Len(g.log)
  /\ page.more <=> page.next < Len(g.log)
  /\ page.more => page.next > 0
  /\ \/ /\ page.mode = "snapshot" /\ ~page.more
        /\ page.status = "completed" /\ page.text = WholeText(g.log)
     \/ /\ page.mode = "events"
        /\ page.events \in Seq(Event(MaxLog))
        /\ \A i \in 1..Len(page.events) :
             /\ page.events[i].seq <= Len(g.log)
             /\ page.events[i] = g.log[page.events[i].seq]

LEMMA ReplyIs ==
  ASSUME NEW g, LedgerOK(g), NEW cursor \in 0..Len(g.log)
  PROVE  LET reply == ReplyTo(g, cursor)
         IN /\ reply.error # None => reply.error \in Failure
            /\ reply.error = None => PageOK(g, reply)
<1> DEFINE last == Len(g.log)
           status == LedgerStatus(g)
           complete == status = "completed" /\ WholeText(g.log) # {}
           end == IF cursor + PageSize < last THEN cursor + PageSize ELSE last
           events == SubSeq(g.log, cursor + 1, end)
           reply == ReplyTo(g, cursor)
<1>1. /\ g.log \in Seq(Event(MaxLog)) /\ last \in Nat /\ cursor \in Nat
      /\ PageSize \in Nat /\ PageSize > 0 /\ g.known \in BOOLEAN
  BY TurnAssumption DEF LedgerOK
<1>2. {"turnUnknown", "replayPruned"} \subseteq Failure
  BY DEF Failure
<1>3. CASE ~g.known
  <2>1. reply = [error |-> "turnUnknown"]
    BY <1>3 DEF ReplyTo
  <2> QED  BY <1>2, <2>1 DEF Failure, None
<1>4. CASE g.known /\ Pruned(g, cursor) /\ ~complete
  <2>1. reply = [error |-> "replayPruned"]
    BY <1>4 DEF ReplyTo
  <2> QED  BY <1>2, <2>1 DEF Failure, None
<1>5. CASE g.known /\ Pruned(g, cursor) /\ complete
  <2>1. reply = [error |-> None, mode |-> "snapshot", status |-> status,
                 last |-> last, next |-> last, more |-> FALSE,
                 text |-> WholeText(g.log), events |-> <<>>]
    BY <1>5 DEF ReplyTo
  <2> HIDE DEF reply
  <2>2. /\ reply.error = None /\ reply.mode = "snapshot" /\ reply.status = status
        /\ reply.last = last /\ reply.next = last /\ ~reply.more
        /\ reply.text = WholeText(g.log)
    BY <2>1
  <2> QED  BY <1>1, <1>5, <2>2 DEF PageOK, reply
<1>6. CASE g.known /\ ~Pruned(g, cursor)
  <2>1. reply = [error |-> None, mode |-> "events", status |-> status,
                 last |-> last, next |-> end, more |-> end < last,
                 text |-> {}, events |-> events]
    BY <1>6 DEF ReplyTo
  <2>2. end \in 0..last /\ (end < last => end > 0)
    BY <1>1
  <2>3. /\ events \in Seq(Event(MaxLog))
        /\ \A i \in 1..Len(events) : \E j \in 1..last : events[i] = g.log[j]
    <3>1. \A i \in (cursor + 1)..end : i \in 1..last /\ g.log[i] \in Event(MaxLog)
      BY <1>1, <2>2
    <3> HIDE DEF end
    <3>2. events \in Seq(Event(MaxLog))
      BY <1>1, <2>2, <3>1
    <3>3. ASSUME NEW i \in 1..Len(events)
          PROVE  events[i] = g.log[cursor + i] /\ cursor + i \in 1..last
      BY <1>1, <2>2
    <3> QED  BY <3>2, <3>3
  <2>4. \A j \in 1..last : g.log[j].seq = j
    BY DEF LedgerOK
  <2> HIDE DEF events, end, reply
  <2>5. \A i \in 1..Len(events) : /\ events[i].seq <= last
                                  /\ events[i] = g.log[events[i].seq]
    <3> TAKE i \in 1..Len(events)
    <3>1. PICK j \in 1..last : events[i] = g.log[j]
      BY <2>3
    <3>2. events[i].seq = j
      BY <2>4, <3>1
    <3> QED  BY <1>1, <3>1, <3>2
  <2>6. /\ reply.error = None /\ reply.mode = "events" /\ reply.status = status
        /\ reply.last = last /\ reply.next = end /\ (reply.more <=> end < last)
        /\ reply.events = events
    BY <2>1
  <2> QED  BY <1>1, <1>6, <2>2, <2>3, <2>5, <2>6 DEF PageOK, reply
<1> QED  BY <1>1, <1>3, <1>4, <1>5, <1>6

\* A page takes a state to one that agrees with the ledger; unless it fails, it
\* has seen the page, and if more is to come it knows so.
LEMMA SnapshotKeeps ==
  ASSUME NEW g, LedgerOK(g), NEW s, StateOK(g, s), ~FailClosed(s),
         NEW page, PageOK(g, page), page.mode = "snapshot"
  PROVE  LET a == ApplySnapshot(s, page)
         IN StateOK(g, a) /\ (FailClosed(a) \/ a.lastSeq = page.next)
<1> DEFINE a == ApplySnapshot(s, page)
<1>1. ReducerOK(g, s) /\ s \in State(MaxLog)
  BY DEF StateOK, ReducerOK
<1>2. "protocolViolation" \in Failure
  BY DEF Failure
<1>3. CASE a = Fail(s, "protocolViolation")
  BY <1>1, <1>2, <1>3, FailKeeps
<1>4. CASE a = [s EXCEPT !.bound = TRUE, !.status = page.status,
                 !.lastSeq = page.last, !.result = page.text, !.held = {},
                 !.uncertain = FALSE, !.pending = FALSE]
  <2>1. /\ page.status = "completed" /\ page.status = StatusAt(g.log, Len(g.log))
        /\ page.last = Len(g.log) /\ page.next = Len(g.log)
        /\ page.text = WholeText(g.log) /\ g.known
    BY DEF PageOK, LedgerStatus
  <2>2. Len(g.log) \in Nat /\ Len(g.log) \in 0..MaxLog /\ Len(g.log) <= MaxLog
    BY TurnAssumption DEF LedgerOK
  <2>3. page.text \in SUBSET (0..MaxLog)
    BY <2>1, WholeTextIs
  <2>4. /\ a \in State(MaxLog) /\ a.bound /\ a.status = "completed"
        /\ a.lastSeq = Len(g.log) /\ a.result = WholeText(g.log) /\ a.held = {}
        /\ ~a.uncertain /\ ~a.pending /\ a.failure = s.failure
    <3>1. /\ page.status \in Status \cup {None} /\ page.last \in 0..MaxLog
          /\ page.text \in SUBSET (0..MaxLog)
      BY <2>1, <2>2, <2>3, StatusSets
    <3>2. /\ a \in State(MaxLog) /\ a.bound /\ a.status = page.status
          /\ a.lastSeq = page.last /\ a.result = page.text /\ a.held = {}
          /\ ~a.uncertain /\ ~a.pending /\ a.failure = s.failure
      BY <1>1, <1>4, <3>1 DEF State
    <3> HIDE DEF a
    <3> QED  BY <2>1, <3>2
  <2> HIDE DEF a
  <2>5. Mirrors(g, a)
    BY <2>1, <2>2, <2>4 DEF Mirrors
  <2>6. ReducerOK(g, a)
    BY <2>4, <2>5, StatusSets DEF ReducerOK, IsTerminal
  <2> QED  BY <2>1, <2>4, <2>6, StatusSets DEF StateOK, a
<1> QED  BY <1>3, <1>4 DEF ApplySnapshot

LEMMA PageOfEventsKeeps ==
  ASSUME NEW g, LedgerOK(g), NEW s, StateOK(g, s), ~FailClosed(s),
         NEW page, PageOK(g, page), page.mode = "events"
  PROVE  LET a == ApplyEvents(s, page)
         IN /\ StateOK(g, a)
            /\ FailClosed(a) \/ a.lastSeq = page.next
            /\ ~FailClosed(a) /\ page.more => Unsettled(a) /\ MustReconcile(a)
<1> DEFINE a == ApplyEvents(s, page)
           start == [s EXCEPT !.bound = TRUE, !.uncertain = FALSE,
                              !.pending = FALSE]
           next == ApplyAll(start, page.events)
<1>1. ReducerOK(g, s) /\ s \in State(MaxLog)
  BY DEF StateOK, ReducerOK
<1>2. {"protocolViolation", "invalidTransition"} \subseteq Failure
  BY DEF Failure
<1>3. g.known /\ page.next \in 0..Len(g.log) /\ Len(g.log) \in Nat
  BY DEF PageOK, LedgerOK
<1>4. ReducerOK(g, start)
  <2>1. /\ start \in State(MaxLog) /\ start.bound /\ ~start.uncertain
        /\ ~start.pending /\ start.status = s.status /\ start.lastSeq = s.lastSeq
        /\ start.result = s.result /\ start.held = s.held
        /\ start.failure = s.failure
    BY <1>1 DEF State
  <2> HIDE DEF start
  <2> QED  BY <1>1, <1>3, <2>1 DEF ReducerOK, Mirrors, FailClosed, IsTerminal
<1>5. ReducerOK(g, next)
  <2> HIDE DEF start
  <2> QED  BY <1>3, <1>4, FoldKeeps DEF PageOK
<1>6. next \in State(MaxLog) /\ next.lastSeq \in Nat
  BY <1>5, StateFields DEF ReducerOK
<1> HIDE DEF next
<1>7. CASE FailClosed(next)
  <2>1. a = next
    BY <1>7 DEF ApplyEvents, next
  <2> QED  BY <1>5, <1>7, <2>1 DEF StateOK
<1>8. ASSUME NEW reason \in Failure, a = Fail(next, reason)
      PROVE  StateOK(g, a) /\ FailClosed(a)
  BY <1>5, <1>8, FailKeeps
<1>9. CASE ~FailClosed(next) /\ next.lastSeq # page.next
  <2>1. a = Fail(next, "protocolViolation")
    BY <1>9 DEF ApplyEvents, next
  <2> QED  BY <1>2, <1>8, <2>1
<1>10. CASE ~FailClosed(next) /\ next.lastSeq = page.next /\ page.more
  <2>1. a = [next EXCEPT !.pending = TRUE]
    BY <1>10 DEF ApplyEvents, next
  <2>2. page.next < Len(g.log) /\ page.next > 0
    BY <1>10 DEF PageOK
  <2>3. ~IsTerminal(next)
    BY <1>3, <1>5, <1>10, <2>2, BelievedStatus
  <2>4. next.status # None
    BY <1>3, <1>5, <1>10, <2>2 DEF ReducerOK
  <2>5. /\ a \in State(MaxLog) /\ a.pending /\ a.uncertain = next.uncertain
        /\ a.bound = next.bound /\ a.status = next.status
        /\ a.lastSeq = next.lastSeq /\ a.result = next.result
        /\ a.held = next.held /\ a.failure = next.failure
    BY <1>6, <2>1 DEF State
  <2> HIDE DEF a
  <2>6. ReducerOK(g, a) /\ ~FailClosed(a) /\ ~IsTerminal(a)
    BY <1>5, <1>10, <2>3, <2>5 DEF ReducerOK, Mirrors, FailClosed, IsTerminal
  <2>7. a.bound
    BY <2>4, <2>5, <2>6 DEF ReducerOK
  <2> QED
    BY <1>10, <2>4, <2>5, <2>6, <2>7 DEF StateOK, Unsettled, MustReconcile, a
<1>11. CASE ~FailClosed(next) /\ next.lastSeq = page.next /\ ~page.more
  <2>1. page.next = Len(g.log) /\ page.last = Len(g.log)
        /\ page.status = StatusAt(g.log, Len(g.log))
    BY <1>3, <1>11 DEF PageOK, LedgerStatus
  <2>2. page.status \in Status /\ page.status # None
    BY <1>3, <2>1, LogStatus, StatusSets
  <2>3. CASE next.status # None /\ ~TransitionAllowed(next.status, page.status)
    <3>1. a = Fail(next, "invalidTransition")
      BY <1>11, <2>1, <2>3 DEF ApplyEvents, next
    <3> QED  BY <1>2, <1>8, <3>1
  <2>4. CASE ~(next.status # None /\ ~TransitionAllowed(next.status, page.status))
    <3> DEFINE u == [next EXCEPT !.status = page.status, !.pending = FALSE]
    <3>1. a = CompletedHasText(u)
      BY <1>11, <2>1, <2>4 DEF ApplyEvents, next
    <3>2. /\ u \in State(MaxLog) /\ ~u.pending /\ u.uncertain = next.uncertain
          /\ u.bound = next.bound /\ u.status = page.status
          /\ u.lastSeq = next.lastSeq /\ u.result = next.result
          /\ u.held = next.held /\ u.failure = next.failure
      BY <1>6, <2>2 DEF State
    <3> HIDE DEF u
    <3>3. next.status = None \/ next.status = page.status
      BY <1>5, <1>11, <2>1, BelievedStatus
    <3>4. next.status = None => page.status = "accepted"
      BY <1>5, <1>11, <2>1, StatusBefore DEF ReducerOK
    <3>5. u.bound
      <4>1. start.bound
        BY <1>1 DEF State
      <4> HIDE DEF start
      <4>2. next.bound
        BY <1>3, <1>4, <4>1, FoldKeeps DEF PageOK, next
      <4> QED  BY <3>2, <4>2
    <3>6. ~FailClosed(u) /\ u.status # None /\ u.status = page.status
      BY <1>11, <2>2, <3>2 DEF FailClosed
    <3>7. page.status = "completed" => u.result = WholeText(g.log)
      BY <1>5, <1>11, <3>2, <3>3, <3>4, BelievedStatus
    <3>8. Mirrors(g, u)
      BY <1>3, <1>11, <2>1, <3>2, <3>6, <3>7 DEF Mirrors
    <3>9. IsTerminal(u) => ~u.uncertain
      BY <1>5, <3>2, <3>3, <3>4, StatusSets DEF IsTerminal, ReducerOK
    <3>10. u.result # NoResult => IsTerminal(u)
      BY <1>5, <3>2, <3>3, <3>4, StatusSets DEF IsTerminal, ReducerOK
    <3>11. ReducerOK(g, u)
      BY <1>5, <3>2, <3>5, <3>6, <3>8, <3>9, <3>10 DEF ReducerOK
    <3>12. StateOK(g, u)
      BY <3>5, <3>6, <3>11 DEF StateOK
    <3>13. CASE a = u
      BY <1>11, <3>2, <3>12, <3>13
    <3>14. CASE a = Fail(u, "protocolViolation")
      BY <1>2, <1>11, <3>11, <3>14, FailKeeps
    <3> QED  BY <1>11, <3>1, <3>13, <3>14 DEF CompletedHasText
  <2> QED  BY <2>3, <2>4
<1> QED  BY <1>7, <1>9, <1>10, <1>11

LEMMA PageKeeps ==
  ASSUME NEW g, LedgerOK(g), NEW s, StateOK(g, s), NEW page, PageOK(g, page)
  PROVE  LET a == ApplyPage(s, page)
         IN /\ StateOK(g, a)
            /\ FailClosed(a) \/ a.lastSeq = page.next
            /\ ~FailClosed(a) /\ page.more => Unsettled(a) /\ MustReconcile(a)
<1>1. CASE FailClosed(s)
  BY <1>1 DEF ApplyPage
<1>2. CASE ~FailClosed(s) /\ page.mode = "snapshot"
  <2>1. ~page.more
    BY <1>2 DEF PageOK
  <2>2. ApplyPage(s, page) = ApplySnapshot(s, page)
    BY <1>2 DEF ApplyPage
  <2> QED  BY <1>2, <2>1, <2>2, SnapshotKeeps
<1>3. CASE ~FailClosed(s) /\ page.mode = "events"
  <2>1. ApplyPage(s, page) = ApplyEvents(s, page)
    BY <1>3 DEF ApplyPage
  <2> QED  BY <1>3, <2>1, PageOfEventsKeeps
<1> QED  BY <1>1, <1>2, <1>3 DEF PageOK

\* A restart makes a state of an entry, to be reconciled unless it is final.
LEMMA RehydrateKeeps ==
  ASSUME NEW G, NEW e, EntryOK(G, e)
  PROVE  LET s == Rehydrate(e)
         IN /\ StateOK(G[e.turn], s)
            /\ FailClosed(s) <=> FailClosed(e)
            /\ Unsettled(s) <=> ~Final(e)
            /\ Unsettled(s) => MustReconcile(s)
<1> DEFINE s == Rehydrate(e)
           g == G[e.turn]
<1>1. /\ Rehydratable(e) /\ e \in EntryType /\ Mirrors(g, e)
  BY DEF EntryOK
<1>2. s = [bound |-> e.bound, status |-> e.status, lastSeq |-> e.lastSeq,
           result |-> e.result, held |-> {}, uncertain |-> e.uncertain,
           pending |-> ~FailClosed(e) /\ ~IsTerminal(e), failure |-> e.failure]
  BY <1>1 DEF Rehydrate
<1> DEFINE p == ~FailClosed(e) /\ ~IsTerminal(e)
<1>4. /\ s.bound = e.bound /\ s.status = e.status /\ s.lastSeq = e.lastSeq
      /\ s.result = e.result /\ s.held = {} /\ s.uncertain = e.uncertain
      /\ s.pending = p /\ s.failure = e.failure
  <2> HIDE DEF p, s
  <2> QED  BY <1>2 DEF p
<1>5. s \in State(MaxLog)
  <2>1. p \in BOOLEAN
    OBVIOUS
  <2>2. /\ e.bound \in BOOLEAN /\ e.status \in Status \cup {None}
        /\ e.lastSeq \in 0..MaxLog /\ e.result \in SUBSET (0..MaxLog)
        /\ e.uncertain \in BOOLEAN /\ e.failure \in Failure \cup {None}
    BY <1>1, EntryFields
  <2>3. s = [bound |-> e.bound, status |-> e.status, lastSeq |-> e.lastSeq,
             result |-> e.result, held |-> {}, uncertain |-> e.uncertain,
             pending |-> p, failure |-> e.failure]
    BY <1>2
  <2> HIDE DEF p, s
  <2> QED  BY <2>1, <2>2, <2>3 DEF State
<1> HIDE DEF s, g
<1>6. /\ FailClosed(s) <=> FailClosed(e)
      /\ IsTerminal(s) <=> IsTerminal(e)
  BY <1>4 DEF FailClosed, IsTerminal
<1>7. Mirrors(g, s)
  BY <1>1, <1>4, <1>6 DEF Mirrors
<1>8. /\ e.result # NoResult => IsTerminal(e)
      /\ ~e.bound => e.status = None
      /\ e.status = None => e.lastSeq = 0
      /\ FailClosed(e) \/ IsTerminal(e) => ~e.uncertain
      /\ ~FailClosed(e) /\ (~e.bound \/ e.status = None) => e.uncertain
  BY <1>1 DEF Rehydratable
<1>9. ReducerOK(g, s)
  BY <1>4, <1>5, <1>6, <1>7, <1>8 DEF ReducerOK, p
<1>10. StateOK(g, s)
  BY <1>4, <1>6, <1>8, <1>9 DEF StateOK
<1> QED
  BY <1>4, <1>6, <1>8, <1>10 DEF Unsettled, Final, Settled, MustReconcile, p, s, g

\* The entry that is written for a state, if the journal takes it.
LEMMA EntryIs ==
  ASSUME NEW t \in Turn, NEW s \in State(MaxLog), NEW at \in 1..MaxTime
  PROVE  LET e == Entry(Chat, t, s, at)
         IN /\ e \in EntryType /\ e.turn = t /\ e.at = at /\ e.scope = Chat
            /\ e.bound = s.bound /\ e.status = s.status /\ e.lastSeq = s.lastSeq
            /\ e.result = s.result /\ e.uncertain = s.uncertain
            /\ e.failure = s.failure
            /\ FailClosed(e) <=> FailClosed(s)
            /\ IsTerminal(e) <=> IsTerminal(s)
            /\ Unsettled(s) => ~Final(e)
<1> DEFINE e == Entry(Chat, t, s, at)
<1>1. /\ e.turn = t /\ e.at = at /\ e.scope = Chat
      /\ e.bound = s.bound /\ e.status = s.status /\ e.lastSeq = s.lastSeq
      /\ e.result = s.result /\ e.uncertain = s.uncertain
      /\ e.failure = s.failure
  BY DEF Entry
<1>2. e \in EntryType
  <2>1. /\ s.bound \in BOOLEAN /\ s.status \in Status \cup {None}
        /\ s.lastSeq \in 0..MaxLog /\ s.result \in SUBSET (0..MaxLog)
        /\ s.uncertain \in BOOLEAN /\ s.failure \in Failure \cup {None}
    BY StateFields
  <2> QED  BY <2>1 DEF Entry, EntryType
<1> HIDE DEF e
<1>3. /\ FailClosed(e) <=> FailClosed(s)
      /\ IsTerminal(e) <=> IsTerminal(s)
  BY <1>1 DEF FailClosed, IsTerminal
<1> QED  BY <1>1, <1>2, <1>3 DEF Unsettled, Final, Settled, e

LEMMA WrittenEntry ==
  ASSUME NEW G, NEW t \in Turn, NEW s, StateOK(G[t], s), NEW at \in 1..MaxTime,
         EntryValid(Entry(Chat, t, s, at))
  PROVE  EntryOK(G, Entry(Chat, t, s, at))
<1> DEFINE e == Entry(Chat, t, s, at)
<1>1. s \in State(MaxLog) /\ ReducerOK(G[t], s)
  BY DEF StateOK, ReducerOK
<1>2. /\ e \in EntryType /\ e.turn = t
      /\ e.bound = s.bound /\ e.status = s.status /\ e.lastSeq = s.lastSeq
      /\ e.result = s.result /\ e.uncertain = s.uncertain
      /\ FailClosed(e) <=> FailClosed(s)
      /\ IsTerminal(e) <=> IsTerminal(s)
  BY <1>1, EntryIs
<1> HIDE DEF e
<1>3. Mirrors(G[t], e)
  BY <1>1, <1>2 DEF ReducerOK, Mirrors
<1>4. EntryValid(e)
  BY DEF e
<1>5. /\ ~e.bound => e.status = None
      /\ e.status = None => e.lastSeq = 0
      /\ FailClosed(e) \/ IsTerminal(e) => ~e.uncertain
      /\ ~FailClosed(e) /\ (~e.bound \/ e.status = None) => e.uncertain
  BY <1>1, <1>2 DEF ReducerOK, StateOK
<1>6. Rehydratable(e)
  BY <1>4, <1>5 DEF EntryValid, Rehydratable
<1> QED  BY <1>2, <1>3, <1>4, <1>6 DEF EntryOK, e

-----------------------------------------------------------------------------
(* The journal *)

LEMMA CompactShrinks ==
  ASSUME NEW d, NEW time, NEW protected, NEW f \in Compact(d, time, protected)
  PROVE  /\ f = [bindings |-> f.bindings, entries |-> f.entries]
         /\ f.entries \subseteq d.entries
         /\ \E E \in Evict({e \in d.entries : ~Expired(e, time)}, time) :
              f.entries = E
<1> DEFINE fresh == {e \in d.entries : ~Expired(e, time)}
<1>1. PICK E \in Evict(fresh, time) :
        \E B \in EvictBindings(d.bindings, E, protected) :
          f = [bindings |-> B, entries |-> E]
  BY DEF Compact
<1>2. PICK B : f = [bindings |-> B, entries |-> E]
  BY <1>1
<1>3. E \subseteq fresh
  <2> HIDE DEF fresh
  <2> QED  BY <1>1 DEF Evict
<1> QED  BY <1>1, <1>2, <1>3

\* The other entries of a written journal were there before.
LEMMA UpsertShrinks ==
  ASSUME NEW d, d = [bindings |-> d.bindings, entries |-> d.entries],
         \A e \in d.entries : e.scope = Chat,
         NEW entry, entry.scope = Chat, NEW time, NEW f \in Upsert(d, entry, time)
  PROVE  LET kept == (d.entries \ Of(d, entry.turn)) \cup {entry}
         IN /\ f = [bindings |-> f.bindings, entries |-> f.entries]
            /\ f.entries \subseteq kept
            /\ \E E \in Evict({e \in kept : ~Expired(e, time)}, time) : f.entries = E
            /\ EntryValid(entry)
            /\ \A e \in Of(d, entry.turn) : UpdateAllowed(e, entry)
<1> DEFINE old == {e \in EntriesOf(d, entry.scope) : e.turn = entry.turn}
           h == [d EXCEPT !.entries = (@ \ old) \cup {entry}]
<1>1. old = Of(d, entry.turn)
  BY DEF EntriesOf, Of
<1>2. /\ EntryValid(entry) /\ \A e \in old : UpdateAllowed(e, entry)
      /\ f \in Compact(h, time, {})
  BY DEF Upsert
<1>3. h.entries = (d.entries \ Of(d, entry.turn)) \cup {entry}
  BY <1>1
<1> HIDE DEF h, old
<1> QED  BY <1>1, <1>2, <1>3, CompactShrinks

LEMMA JournalScope ==
  ASSUME NEW G, NEW U, NEW d, JournalOK(G, U, d)
  PROVE  /\ d = [bindings |-> d.bindings, entries |-> d.entries]
         /\ \A e \in d.entries : e.scope = Chat /\ e.turn \in Turn /\ EntryOK(G, e)
BY EntryFields DEF JournalOK, EntryOK

LEMMA UpsertKeeps ==
  ASSUME NEW G, NEW U, U \subseteq Turn, NEW d, JournalOK(G, U, d), NEW t \in U,
         NEW s, StateOK(G[t], s), NEW at \in 1..MaxTime, NEW time,
         NEW f \in Upsert(d, Entry(Chat, t, s, at), time)
  PROVE  JournalOK(G, U, f)
<1> DEFINE e == Entry(Chat, t, s, at)
           kept == (d.entries \ Of(d, t)) \cup {e}
<1>1. e.turn = t /\ e.scope = Chat
  BY DEF Entry
<1>2. /\ f = [bindings |-> f.bindings, entries |-> f.entries]
      /\ f.entries \subseteq kept /\ EntryValid(e)
  <2> HIDE DEF e
  <2> QED  BY <1>1, JournalScope, UpsertShrinks DEF e
<1>3. EntryOK(G, e)
  BY <1>2, WrittenEntry
<1> HIDE DEF e
<1>4. \A x \in kept : EntryOK(G, x) /\ x.turn \in U
  BY <1>1, <1>3 DEF JournalOK
<1>5. \A x, y \in kept : x.turn = y.turn => x = y
  BY <1>1 DEF JournalOK, Of
<1> QED  BY <1>2, <1>4, <1>5 DEF JournalOK

-----------------------------------------------------------------------------
(* The maps of the coordinator *)

\* n differs from m in what it says of t.
OnlyTurn(m, n, t) ==
  \A u \in Turn \ {t} :
    /\ u \in DOMAIN n.states <=> u \in DOMAIN m.states
    /\ u \in DOMAIN m.states => n.states[u] = m.states[u]
    /\ u \in DOMAIN n.tombs <=> u \in DOMAIN m.tombs
    /\ u \in DOMAIN m.tombs => n.tombs[u] = m.tombs[u]

LEMMA RememberKeeps ==
  ASSUME NEW G, NEW U, U \subseteq Turn, NEW m, MemoryOK(G, U, m),
         NEW t \in U, NEW s, StateOK(G[t], s)
  PROVE  LET n == Remember(m, t, s)
         IN /\ MemoryOK(G, U, n) /\ OnlyTurn(m, n, t)
            /\ t \in DOMAIN n.states /\ n.states[t] = s /\ t \notin DOMAIN n.tombs
<1> DEFINE n == Remember(m, t, s)
<1>2. /\ n = [states |-> n.states, tombs |-> n.tombs, floors |-> n.floors,
              settles |-> n.settles]
      /\ n.states = With(m.states, t, s) /\ n.tombs = Without(m.tombs, t)
      /\ n.floors = m.floors
  BY DEF Remember
<1> HIDE DEF n
<1>3. /\ DOMAIN n.states = DOMAIN m.states \cup {t} /\ n.states[t] = s
      /\ \A u \in DOMAIN m.states : u # t => n.states[u] = m.states[u]
      /\ DOMAIN n.tombs = DOMAIN m.tombs \ {t}
      /\ \A u \in DOMAIN m.tombs : u # t => n.tombs[u] = m.tombs[u]
  BY <1>2 DEF With, Without, Restrict
<1>4. MemoryOK(G, U, n)
  BY <1>2, <1>3 DEF MemoryOK
<1>5. OnlyTurn(m, n, t)
  BY <1>3 DEF OnlyTurn
<1> QED  BY <1>3, <1>4, <1>5 DEF n

LEMMA FloorKeeps ==
  ASSUME NEW G, NEW U, NEW m, MemoryOK(G, U, m), NEW t \in Turn,
         NEW at \in 1..MaxTime
  PROVE  LET n == [m EXCEPT !.floors = With(@, t, at)]
         IN MemoryOK(G, U, n) /\ n.states = m.states /\ n.tombs = m.tombs
<1> DEFINE n == [m EXCEPT !.floors = With(@, t, at)]
<1>1. m = [states |-> m.states, tombs |-> m.tombs, floors |-> m.floors,
           settles |-> m.settles]
  BY DEF MemoryOK
<1>2. /\ n = [states |-> n.states, tombs |-> n.tombs, floors |-> n.floors,
              settles |-> n.settles]
      /\ n.states = m.states /\ n.tombs = m.tombs
      /\ n.floors = With(m.floors, t, at)
  BY <1>1
<1> HIDE DEF n
<1>3. /\ DOMAIN n.floors = DOMAIN m.floors \cup {t} /\ n.floors[t] = at
      /\ \A u \in DOMAIN m.floors : u # t => n.floors[u] = m.floors[u]
  BY <1>2 DEF With
<1>4. MemoryOK(G, U, n)
  BY <1>2, <1>3 DEF MemoryOK
<1> QED  BY <1>2, <1>4 DEF n

\* A turn that becomes known, or is believed, with its time.
LEMMA OpenKeeps ==
  ASSUME NEW G, NEW U, U \subseteq Turn, NEW m, MemoryOK(G, U, m),
         NEW t \in U, NEW s, StateOK(G[t], s), NEW at \in 1..MaxTime
  PROVE  LET n == Tracked(m, t, s, at)
         IN /\ MemoryOK(G, U, n) /\ OnlyTurn(m, n, t)
            /\ t \in DOMAIN n.states /\ n.states[t] = s /\ n.tombs = m.tombs
<1> DEFINE n == Tracked(m, t, s, at)
<1>1. m = [states |-> m.states, tombs |-> m.tombs, floors |-> m.floors,
           settles |-> m.settles]
  BY DEF MemoryOK
<1>2. /\ n = [states |-> n.states, tombs |-> n.tombs, floors |-> n.floors,
              settles |-> n.settles]
      /\ n.states = With(m.states, t, s) /\ n.tombs = m.tombs
      /\ n.floors = With(m.floors, t, at)
  BY DEF Tracked
<1> HIDE DEF n
<1>3. /\ DOMAIN n.states = DOMAIN m.states \cup {t} /\ n.states[t] = s
      /\ \A u \in DOMAIN m.states : u # t => n.states[u] = m.states[u]
      /\ DOMAIN n.floors = DOMAIN m.floors \cup {t} /\ n.floors[t] = at
      /\ \A u \in DOMAIN m.floors : u # t => n.floors[u] = m.floors[u]
  BY <1>2 DEF With
<1>4. MemoryOK(G, U, n)
  BY <1>2, <1>3 DEF MemoryOK
<1>5. OnlyTurn(m, n, t)
  BY <1>2, <1>3 DEF OnlyTurn
<1> QED  BY <1>2, <1>3, <1>4, <1>5 DEF n

LEMMA SettleKeeps ==
  ASSUME NEW G, NEW U, U \subseteq Turn, NEW m, MemoryOK(G, U, m),
         NEW t \in U, NEW s, ReducerOK(G[t], s)
  PROVE  LET n == Settle(m, t, s)
         IN /\ MemoryOK(G, U, n) /\ OnlyTurn(m, n, t)
            /\ t \notin DOMAIN n.states /\ t \in DOMAIN n.tombs
            /\ n.tombs[t] = ReleasePayloads(s)
<1> DEFINE n == Settle(m, t, s)
<1>1. /\ n = [states |-> n.states, tombs |-> n.tombs, floors |-> n.floors,
              settles |-> n.settles]
      /\ n.states = Without(m.states, t) /\ n.floors = Without(m.floors, t)
      /\ n.tombs = With(m.tombs, t, ReleasePayloads(s))
  BY DEF Settle
<1> HIDE DEF n
<1>2. /\ DOMAIN n.states = DOMAIN m.states \ {t}
      /\ \A u \in DOMAIN m.states : u # t => n.states[u] = m.states[u]
      /\ DOMAIN n.floors = DOMAIN m.floors \ {t}
      /\ \A u \in DOMAIN m.floors : u # t => n.floors[u] = m.floors[u]
      /\ DOMAIN n.tombs = DOMAIN m.tombs \cup {t}
      /\ n.tombs[t] = ReleasePayloads(s)
      /\ \A u \in DOMAIN m.tombs : u # t => n.tombs[u] = m.tombs[u]
  BY <1>1 DEF With, Without, Restrict
<1>3. ReducerOK(G[t], ReleasePayloads(s))
  BY ReleaseKeeps
<1>4. MemoryOK(G, U, n)
  BY <1>1, <1>2, <1>3 DEF MemoryOK
<1>5. OnlyTurn(m, n, t)
  BY <1>2 DEF OnlyTurn
<1> QED  BY <1>2, <1>4, <1>5 DEF n

LEMMA DiscardedKeeps ==
  ASSUME NEW G, NEW U, U \subseteq Turn, NEW m, MemoryOK(G, U, m), NEW t \in U
  PROVE  LET n == Discarded(m, t)
         IN /\ MemoryOK(G, U, n) /\ OnlyTurn(m, n, t)
            /\ t \notin DOMAIN n.states /\ n.tombs = m.tombs
<1> DEFINE n == Discarded(m, t)
<1>1. m = [states |-> m.states, tombs |-> m.tombs, floors |-> m.floors,
           settles |-> m.settles]
  BY DEF MemoryOK
<1>2. /\ n = [states |-> n.states, tombs |-> n.tombs, floors |-> n.floors,
              settles |-> n.settles]
      /\ n.states = Without(m.states, t) /\ n.floors = Without(m.floors, t)
      /\ n.tombs = m.tombs
  BY <1>1 DEF Discarded
<1> HIDE DEF n
<1>3. /\ DOMAIN n.states = DOMAIN m.states \ {t}
      /\ \A u \in DOMAIN m.states : u # t => n.states[u] = m.states[u]
      /\ DOMAIN n.floors = DOMAIN m.floors \ {t}
      /\ \A u \in DOMAIN m.floors : u # t => n.floors[u] = m.floors[u]
  BY <1>2 DEF Without, Restrict
<1>4. MemoryOK(G, U, n)
  BY <1>2, <1>3 DEF MemoryOK
<1>5. OnlyTurn(m, n, t)
  BY <1>2, <1>3 DEF OnlyTurn
<1> QED  BY <1>2, <1>3, <1>4, <1>5 DEF n

\* Settled turns are no longer in memory but as tombs.
LEMMA SettleEachKeeps ==
  ASSUME NEW G, NEW U, NEW m, MemoryOK(G, U, m), NEW turns,
         turns \subseteq DOMAIN m.states \cup DOMAIN m.tombs
  PROVE  LET n == SettleEach(m, turns)
         IN /\ MemoryOK(G, U, n)
            /\ DOMAIN n.states = DOMAIN m.states \ turns
            /\ \A u \in DOMAIN n.states : n.states[u] = m.states[u]
            /\ DOMAIN n.tombs = DOMAIN m.tombs \cup turns
            /\ \A u \in DOMAIN n.tombs :
                 n.tombs[u] = IF u \in turns THEN ReleasePayloads(Current(m, u))
                              ELSE m.tombs[u]
<1> DEFINE n == SettleEach(m, turns)
<1>1. /\ n = [states |-> n.states, tombs |-> n.tombs, floors |-> n.floors,
              settles |-> n.settles]
      /\ n.states = Restrict(m.states, DOMAIN m.states \ turns)
      /\ n.floors = Restrict(m.floors, DOMAIN m.floors \ turns)
      /\ n.tombs = [t \in DOMAIN m.tombs \cup turns |->
                      IF t \in turns THEN ReleasePayloads(Current(m, t))
                      ELSE m.tombs[t]]
  BY DEF SettleEach
<1> HIDE DEF n
<1>2. /\ DOMAIN n.states = DOMAIN m.states \ turns
      /\ \A u \in DOMAIN n.states : n.states[u] = m.states[u]
      /\ DOMAIN n.floors = DOMAIN m.floors \ turns
      /\ \A u \in DOMAIN n.floors : n.floors[u] = m.floors[u]
  BY <1>1 DEF Restrict
<1>3. /\ DOMAIN n.tombs = DOMAIN m.tombs \cup turns
      /\ \A u \in DOMAIN n.tombs :
           n.tombs[u] = IF u \in turns THEN ReleasePayloads(Current(m, u))
                        ELSE m.tombs[u]
  BY <1>1
<1>4. ASSUME NEW u \in turns  PROVE  ReducerOK(G[u], ReleasePayloads(Current(m, u)))
  <2>1. ReducerOK(G[u], Current(m, u))
    BY DEF MemoryOK, Current, StateOK
  <2> QED  BY <2>1, ReleaseKeeps
<1>5. MemoryOK(G, U, n)
  BY <1>1, <1>2, <1>3, <1>4 DEF MemoryOK
<1> QED  BY <1>2, <1>3, <1>5 DEF n

LEMMA NoMemoryKeeps ==
  ASSUME NEW G, NEW U
  PROVE  /\ MemoryOK(G, U, NoMemory)
         /\ DOMAIN NoMemory.states = {} /\ DOMAIN NoMemory.tombs = {}
<1>1. /\ NoMemory = [states |-> NoMemory.states, tombs |-> NoMemory.tombs,
                     floors |-> NoMemory.floors, settles |-> NoMemory.settles]
      /\ NoMemory.states = <<>> /\ NoMemory.tombs = <<>> /\ NoMemory.floors = <<>>
  BY DEF NoMemory
<1>2. DOMAIN <<>> = {}
  OBVIOUS
<1> HIDE DEF NoMemory
<1> QED  BY <1>1, <1>2 DEF MemoryOK

-----------------------------------------------------------------------------
(* A state is written *)

PoisonType == [scopes : SUBSET {Chat}, all : BOOLEAN]

LEMMA PoisonIs ==
  ASSUME NEW p \in PoisonType
  PROVE  RecordPoison(p, Chat) \in PoisonType /\ Poisoned(RecordPoison(p, Chat), Chat)
<1>1. CASE Poisoned(p, Chat)
  BY <1>1 DEF RecordPoison
<1>2. CASE ~Poisoned(p, Chat)
  <2>1. CASE Cardinality(p.scopes) >= MaxBindings
    <3>1. RecordPoison(p, Chat) = [p EXCEPT !.all = TRUE]
      BY <1>2, <2>1 DEF RecordPoison
    <3> QED  BY <3>1 DEF PoisonType, Poisoned
  <2>2. CASE ~(Cardinality(p.scopes) >= MaxBindings)
    <3>1. RecordPoison(p, Chat) = [p EXCEPT !.scopes = @ \cup {Chat}]
      BY <1>2, <2>2 DEF RecordPoison
    <3> QED  BY <3>1 DEF PoisonType, Poisoned
  <2> QED  BY <2>1, <2>2
<1> QED  BY <1>1, <1>2

\* Nothing is written before its time; what is not written is lost whole.
LEMMA WritesAre ==
  ASSUME TurnInv, NEW t \in Turn, NEW s, NEW w \in Writes(t, s)
  PROVE  /\ w.ok \in BOOLEAN /\ w.at \in 1..MaxTime /\ w.at >= now
         /\ faults + w.cost \in 0..MaxFaults
         /\ \/ w.db \in Upsert(db, Entry(Chat, t, s, w.at), now)
            \/ ~w.ok /\ w.db = db
<1> DEFINE at == Since(mem, t)
           written == Upsert(db, Entry(Chat, t, s, at), now)
<1>1. /\ now \in 1..MaxTime /\ now \in Nat /\ MaxTime \in Nat
      /\ faults \in 0..MaxFaults /\ faults \in Nat /\ MaxFaults \in Nat
  BY TurnAssumption DEF TurnInv
<1>2. at \in 1..MaxTime /\ at >= now
  <2>1. t \in DOMAIN mem.floors => mem.floors[t] \in 1..MaxTime
    BY DEF TurnInv, MemoryOK
  <2> QED  BY <1>1, <2>1 DEF Since, Later
<1> HIDE DEF at
<1>3. \/ w \in [ok : {TRUE}, db : written, at : {at}, cost : {0}]
      \/ w \in [ok : {FALSE}, at : {at}, db : IF written = {} THEN {db} ELSE {},
                cost : {0}]
      \/ w \in [ok : {FALSE}, at : {at}, cost : {1},
                db : IF CanFail("storage") /\ written # {}
                     THEN written \cup {db} ELSE {}]
  BY DEF Writes, at
<1> HIDE DEF written
<1>4. /\ w.ok \in BOOLEAN /\ w.at = at
      /\ w.cost = 0 \/ (w.cost = 1 /\ CanFail("storage"))
      /\ w.db \in written \/ (~w.ok /\ w.db = db)
  BY <1>3
<1>5. faults + w.cost \in 0..MaxFaults
  BY <1>1, <1>4 DEF CanFail
<1> QED  BY <1>2, <1>4, <1>5 DEF written

LEMMA WriteKeeps ==
  ASSUME TurnInv, NEW U, U \subseteq Turn, used \subseteq U, NEW t \in U,
         NEW s, StateOK(gw[t], s), NEW w \in Writes(t, s)
  PROVE  JournalOK(gw, U, w.db)
<1>1. JournalOK(gw, U, db)
  BY DEF TurnInv, JournalOK
<1>2. w.at \in 1..MaxTime
  BY WritesAre
<1> QED  BY <1>1, <1>2, WritesAre, UpsertKeeps

LEMMA PersistKeeps ==
  ASSUME TurnInv, NEW t \in used, NEW s, StateOK(gw[t], s), NEW w, Persist(t, s, w)
  PROVE  /\ w.ok \in BOOLEAN /\ faults' \in 0..MaxFaults
         /\ JournalOK(gw, used, db') /\ MemoryOK(gw, used, mem')
         /\ OnlyTurn(mem, mem', t)
         /\ w.ok /\ Done(s) =>
              /\ t \notin DOMAIN mem'.states /\ t \in DOMAIN mem'.tombs
              /\ mem'.tombs[t] = ReleasePayloads(s)
         /\ ~(w.ok /\ Done(s)) =>
              /\ t \in DOMAIN mem'.states /\ mem'.states[t] = s
              /\ t \notin DOMAIN mem'.tombs
         /\ poison' \in PoisonType
         /\ Poisoned(poison', Chat) <=> \/ Poisoned(poison, Chat)
                                        \/ ~w.ok /\ FailClosed(s)
<1>1. /\ used \subseteq Turn /\ MemoryOK(gw, used, mem) /\ poison \in PoisonType
      /\ JournalOK(gw, used, db)
  BY DEF TurnInv, TrafficOK, QuietOK, PoisonType
<1>2. w \in Writes(t, s) /\ t \in Turn
  BY <1>1 DEF Persist
<1>3. /\ w.ok \in BOOLEAN /\ w.at \in 1..MaxTime /\ faults + w.cost \in 0..MaxFaults
      /\ JournalOK(gw, used, w.db)
  BY <1>1, <1>2, WritesAre, WriteKeeps
<1> DEFINE m == Remember(mem, t, s)
           n == [m EXCEPT !.floors = With(@, t, w.at)]
<1>4. /\ MemoryOK(gw, used, m) /\ OnlyTurn(mem, m, t)
      /\ t \in DOMAIN m.states /\ m.states[t] = s /\ t \notin DOMAIN m.tombs
  BY <1>1, RememberKeeps
<1>5. /\ db' = w.db /\ faults' = faults + w.cost
      /\ poison' = IF ~w.ok /\ FailClosed(s) THEN RecordPoison(poison, Chat)
                   ELSE poison
      /\ mem' = IF w.ok THEN SettleIfDone(n, t, s) ELSE m
  BY DEF Persist
<1> HIDE DEF m
<1>6. MemoryOK(gw, used, n) /\ n.states = m.states /\ n.tombs = m.tombs
  BY <1>2, <1>3, <1>4, FloorKeeps
<1> HIDE DEF n
<1>7. OnlyTurn(mem, n, t)
  BY <1>4, <1>6 DEF OnlyTurn
<1>8. CASE w.ok /\ Done(s)
  <2>1. mem' = Settle(n, t, s)
    BY <1>5, <1>8 DEF SettleIfDone
  <2>2. ReducerOK(gw[t], s)
    BY DEF StateOK
  <2>3. /\ MemoryOK(gw, used, mem') /\ OnlyTurn(n, mem', t)
        /\ t \notin DOMAIN mem'.states /\ t \in DOMAIN mem'.tombs
        /\ mem'.tombs[t] = ReleasePayloads(s)
    BY <1>1, <1>6, <2>1, <2>2, SettleKeeps
  <2>4. OnlyTurn(mem, mem', t)
    BY <1>7, <2>3 DEF OnlyTurn
  <2>5. poison' = poison
    BY <1>5, <1>8
  <2> QED  BY <1>1, <1>3, <1>5, <1>8, <2>3, <2>4, <2>5
<1>9. CASE w.ok /\ ~Done(s)
  <2>1. mem' = n /\ poison' = poison
    BY <1>5, <1>9 DEF SettleIfDone
  <2> QED  BY <1>1, <1>3, <1>4, <1>5, <1>6, <1>7, <1>9, <2>1
<1>10. CASE ~w.ok
  <2>1. mem' = m
    BY <1>5, <1>10
  <2>2. /\ poison' \in PoisonType
        /\ Poisoned(poison', Chat) <=> Poisoned(poison, Chat) \/ FailClosed(s)
    BY <1>1, <1>5, <1>10, PoisonIs
  <2> QED  BY <1>1, <1>3, <1>4, <1>5, <1>10, <2>1, <2>2
<1> QED  BY <1>3, <1>8, <1>9, <1>10

-----------------------------------------------------------------------------
(* The first state, and what the gateway does *)

LEMMA TurnInit == Init => TurnInv
<1> SUFFICES ASSUME Init  PROVE TurnInv
  OBVIOUS
<1>1. /\ gw = [t \in Turn |-> NoTurn] /\ used = {} /\ wire \cup stray = {}
      /\ live = <<>> /\ subs = {} /\ sock = "down" /\ mem = NoMemory /\ op = Idle
      /\ db = EmptyJournal /\ poison = NoPoison /\ now = 1 /\ faults = 0
  BY DEF Init
<1>2. LedgerOK(NoTurn)
  <2>1. <<>> \in Seq(Event(MaxLog)) /\ Len(<<>>) = 0 /\ MaxLog \in Nat
    BY TurnAssumption
  <2>2. /\ NoTurn.known = FALSE /\ NoTurn.log = <<>> /\ NoTurn.first = 1
        /\ NoTurn \in [known : BOOLEAN, log : Seq(Event(MaxLog)),
                       first : 1..(MaxLog + 1)]
    BY <2>1 DEF NoTurn
  <2> HIDE DEF NoTurn
  <2> QED  BY <2>1, <2>2 DEF LedgerOK, Running
<1>3. TrafficOK(gw, wire \cup stray, used, live)
  <2>1. \A t \in Turn : ~gw[t].known
    BY <1>1 DEF NoTurn
  <2>2. /\ live \in Seq([turn : Turn, event : Event(MaxLog)]) /\ Len(live) = 0
        /\ MaxLive \in Nat
    BY <1>1, TurnAssumption
  <2> QED  BY <1>1, <2>1, <2>2 DEF TrafficOK
<1>4. JournalOK(gw, used, db)
  BY <1>1 DEF JournalOK, EmptyJournal
<1>5. MemoryOK(gw, used, mem) /\ DOMAIN mem.states = {}
  BY <1>1, NoMemoryKeeps
<1>6. /\ OpOK(gw, wire \cup stray, used, mem, op) /\ SeverOK(mem, sock, op)
      /\ op.kind = "idle"
  BY <1>1, <1>5 DEF OpOK, SeverOK, CallOK, Idle
<1>7. QuietOK(sock, op, poison)
  BY <1>1, <1>6 DEF QuietOK, Poisoned, NoPoison
<1>8. now \in 1..MaxTime /\ faults \in 0..MaxFaults
  BY <1>1, TurnAssumption
<1> QED  BY <1>1, <1>2, <1>3, <1>4, <1>5, <1>6, <1>7, <1>8 DEF TurnInv

LEMMA ShowsStays ==
  ASSUME NEW G, NEW H, NEW frame \in [turn : Turn, event : Event(MaxLog)],
         \A t \in Turn : /\ LedgerOK(G[t]) /\ LedgerOK(H[t])
                         /\ Extends(G[t], H[t]),
         Shows(G, frame)
  PROVE  Shows(H, frame)
<1> DEFINE t == frame.turn
           n == frame.event.seq
<1>1. t \in Turn /\ n \in 1..MaxLog /\ n \in Nat /\ n >= 1
  BY TurnAssumption DEF Event
<1>2. G[t].known /\ n <= Len(G[t].log) /\ frame.event = G[t].log[n]
  BY DEF Shows
<1>3. Len(G[t].log) \in Nat /\ Len(H[t].log) \in Nat
  BY <1>1 DEF LedgerOK
<1>4. /\ H[t].known /\ Len(G[t].log) <= Len(H[t].log)
      /\ \A i \in 1..Len(G[t].log) : H[t].log[i] = G[t].log[i]
  BY <1>1, <1>2 DEF Extends
<1>5. n <= Len(H[t].log) /\ frame.event = H[t].log[n]
  <2> HIDE DEF t, n
  <2> QED  BY <1>1, <1>2, <1>3, <1>4
<1> QED  BY <1>4, <1>5 DEF Shows

LEMMA FrameShown ==
  ASSUME NEW G, NEW W, NEW U, NEW L, TrafficOK(G, W, U, L), NEW i \in 1..Len(L)
  PROVE  L[i] \in [turn : Turn, event : Event(MaxLog)] /\ Shows(G, L[i])
<1> DEFINE F == [turn : Turn, event : Event(MaxLog)]
<1>1. L \in Seq(F) /\ Shows(G, L[i])
  BY DEF TrafficOK
<1> HIDE DEF F
<1>2. L[i] \in F
  BY <1>1
<1> QED  BY <1>1, <1>2 DEF F

\* The gateway goes on beside a phone that does nothing.
LEMMA WorldGrows ==
  ASSUME TurnInv, Grows(gw, wire \cup stray, gw', wire' \cup stray'),
         gw' = [t \in Turn |-> gw'[t]],
         TrafficOK(gw', wire' \cup stray', used, live'),
         OpOK(gw', wire' \cup stray', used, mem, op'), op'.kind = op.kind,
         op.kind = "sever" => op' = op,
         subs' \subseteq Turn, faults' \in 0..MaxFaults, sock' = sock,
         UNCHANGED <<mem, db, poison, now, used>>
  PROVE  TurnInv'
<1>1. used \subseteq Turn
  BY DEF TurnInv, TrafficOK
<1>2. JournalOK(gw', used', db') /\ MemoryOK(gw', used', mem')
  BY <1>1, JournalStays, MemoryStays DEF TurnInv
<1>3. \A t \in Turn : LedgerOK(gw'[t])
  BY DEF Grows
<1>4. SeverOK(mem', sock', op') /\ QuietOK(sock', op', poison')
  BY DEF TurnInv, SeverOK, QuietOK
<1> QED  BY <1>2, <1>3, <1>4 DEF TurnInv

LEMMA AcceptKeeps ==
  ASSUME TurnInv, NEW t \in Turn, Accept(t)
  PROVE  TurnInv'
<1>1. PICK log \in {<<>>, <<StatusEvent(1, "accepted")>>} :
        /\ t \in wire \cup stray
        /\ ~gw[t].known
        /\ gw' = [gw EXCEPT ![t] = [known |-> TRUE, log |-> log, first |-> 1]]
        /\ Read(t)
        /\ subs' = IF t \in wire THEN subs \cup {t} ELSE subs
        /\ Answer(t, Ack(gw'[t]))
        /\ UNCHANGED <<live, sock, mem, db, poison, now, used, faults>>
  BY DEF Accept
<1> DEFINE W == wire \cup stray
           V == wire' \cup stray'
           h == [known |-> TRUE, log |-> log, first |-> 1]
<1>2. /\ gw = [u \in Turn |-> gw[u]] /\ \A u \in Turn : LedgerOK(gw[u])
      /\ TrafficOK(gw, W, used, live) /\ MemoryOK(gw, used, mem)
      /\ OpOK(gw, W, used, mem, op) /\ subs \subseteq Turn /\ faults \in 0..MaxFaults
  BY DEF TurnInv
<1>3. LedgerOK(h) /\ Extends(gw[t], h) /\ h.known
  BY <1>1, <1>2, AcceptedGrows
<1>4. V = W \ {t}
  BY <1>1 DEF Read
<1>5. /\ gw' = [u \in Turn |-> gw'[u]] /\ gw'[t] = h
      /\ \A u \in Turn : u # t => gw'[u] = gw[u]
  BY <1>1, <1>2
<1> HIDE DEF h, W, V
<1>6. Grows(gw, W, gw', V)
  BY <1>1, <1>2, <1>3, <1>4, <1>5, ExtendsSelf DEF Grows, W
<1>7. TrafficOK(gw', V, used, live')
  <2>1. \A i \in 1..Len(live) : Shows(gw', live[i])
    <3>1. ASSUME NEW i \in 1..Len(live)  PROVE  Shows(gw', live[i])
      <4>1. live[i] \in [turn : Turn, event : Event(MaxLog)] /\ Shows(gw, live[i])
        BY <1>2, FrameShown
      <4> QED  BY <1>6, <4>1, ShowsStays DEF Grows
    <3> QED  BY <3>1
  <2> QED  BY <1>1, <1>2, <1>4, <1>5, <2>1 DEF TrafficOK, W
<1>8. used \subseteq Turn /\ subs' \subseteq Turn
  BY <1>1, <1>2 DEF TrafficOK
<1>9. OpOK(gw', V, used, mem, op)
  BY <1>2, <1>6, <1>8, CallStays
<1>10. CASE op' = op
  BY <1>1, <1>2, <1>5, <1>6, <1>7, <1>8, <1>9, <1>10, WorldGrows DEF W, V
<1>11. CASE op' # op
  <2>1. op = Sent(t, NoReply) /\ op' = Sent(t, Ack(h))
    BY <1>1, <1>5, <1>11 DEF Answer
  <2>2. /\ op.kind = "sent" /\ op.turn = t /\ op'.kind = "sent" /\ op'.turn = t
        /\ op'.reply = Ack(h) /\ op' = Sent(op'.turn, op'.reply)
    BY <2>1 DEF Sent
  <2>3. ReplyOK(gw', V, t, Ack(h))
    <3>1. /\ Ack(h) = [kind |-> "ack", status |-> LedgerStatus(h),
                       lastSeq |-> Len(h.log)]
          /\ Len(h.log) \in Nat
      BY <1>3 DEF Ack, LedgerOK
    <3>2. Ack(h).lastSeq = Len(h.log) /\ Ack(h).status = LedgerStatus(h)
      BY <3>1
    <3> HIDE DEF Ack
    <3> QED  BY <1>3, <1>5, <3>1, <3>2 DEF ReplyOK, LedgerStatus
  <2>4. OpOK(gw', V, used, mem, op')
    BY <1>9, <2>2, <2>3 DEF OpOK, CallOK
  <2> QED  BY <1>1, <1>2, <1>5, <1>6, <1>7, <1>8, <2>2, <2>4, WorldGrows DEF W, V
<1> QED  BY <1>10, <1>11

LEMMA RefuseKeeps ==
  ASSUME TurnInv, NEW t \in Turn, Refuse(t)
  PROVE  TurnInv'
<1>1. /\ t \in wire \cup stray /\ ~gw[t].known /\ Read(t) /\ Answer(t, Rejection)
      /\ UNCHANGED <<gw, subs, live, sock, mem, db, poison, now, used, faults>>
  BY DEF Refuse
<1> DEFINE W == wire \cup stray
           V == wire' \cup stray'
<1>2. /\ gw = [u \in Turn |-> gw[u]] /\ \A u \in Turn : LedgerOK(gw[u])
      /\ TrafficOK(gw, W, used, live) /\ MemoryOK(gw, used, mem)
      /\ OpOK(gw, W, used, mem, op) /\ subs \subseteq Turn /\ faults \in 0..MaxFaults
  BY DEF TurnInv
<1>3. V = W \ {t}
  BY <1>1 DEF Read
<1> HIDE DEF W, V
<1>4. Grows(gw, W, gw', V)
  BY <1>1, <1>2, <1>3, ExtendsSelf DEF Grows
<1>5. TrafficOK(gw', V, used, live') /\ used \subseteq Turn
  BY <1>1, <1>2, <1>3 DEF TrafficOK
<1>6. OpOK(gw', V, used, mem, op)
  BY <1>2, <1>4, <1>5, CallStays
<1>7. CASE op' = op
  BY <1>1, <1>2, <1>4, <1>5, <1>6, <1>7, WorldGrows DEF W, V
<1>8. CASE op' # op
  <2>1. op = Sent(t, NoReply) /\ op' = Sent(t, Rejection)
    BY <1>1, <1>8 DEF Answer
  <2>2. /\ op.kind = "sent" /\ op.turn = t /\ op'.kind = "sent" /\ op'.turn = t
        /\ op'.reply = Rejection /\ op' = Sent(op'.turn, op'.reply)
    BY <2>1 DEF Sent
  <2>3. ReplyOK(gw', V, t, Rejection)
    BY <1>1, <1>3 DEF ReplyOK
  <2>4. OpOK(gw', V, used, mem, op')
    BY <1>6, <2>2, <2>3 DEF OpOK, CallOK
  <2> QED  BY <1>1, <1>2, <1>4, <1>5, <2>2, <2>4, WorldGrows DEF W, V
<1> QED  BY <1>7, <1>8

\* A ledger that grows by itself.
LEMMA TurnGoesOn ==
  ASSUME TurnInv, NEW t \in Turn, NEW h, LedgerOK(h), Extends(gw[t], h),
         gw' = [gw EXCEPT ![t] = h], h.known = gw[t].known
  PROVE  /\ gw' = [u \in Turn |-> gw'[u]] /\ gw'[t] = h
         /\ \A u \in Turn : gw'[u].known = gw[u].known
         /\ Grows(gw, wire \cup stray, gw', wire \cup stray)
         /\ TrafficOK(gw', wire \cup stray, used, live)
         /\ OpOK(gw', wire \cup stray, used, mem, op)
         /\ used \subseteq Turn /\ subs \subseteq Turn /\ faults \in 0..MaxFaults
<1> DEFINE W == wire \cup stray
<1>1. /\ gw = [u \in Turn |-> gw[u]] /\ \A u \in Turn : LedgerOK(gw[u])
      /\ TrafficOK(gw, W, used, live) /\ MemoryOK(gw, used, mem)
      /\ OpOK(gw, W, used, mem, op) /\ subs \subseteq Turn /\ faults \in 0..MaxFaults
      /\ used \subseteq Turn
  BY DEF TurnInv, TrafficOK
<1>2. /\ gw' = [u \in Turn |-> gw'[u]] /\ gw'[t] = h
      /\ \A u \in Turn : u # t => gw'[u] = gw[u]
  BY <1>1
<1>3. \A u \in Turn : gw'[u].known = gw[u].known
  BY <1>2
<1> HIDE DEF W
<1>4. Grows(gw, W, gw', W)
  BY <1>1, <1>2, <1>3, ExtendsSelf DEF Grows
<1>5. TrafficOK(gw', W, used, live)
  <2>1. ASSUME NEW i \in 1..Len(live)  PROVE  Shows(gw', live[i])
    <3>1. live[i] \in [turn : Turn, event : Event(MaxLog)] /\ Shows(gw, live[i])
      BY <1>1, FrameShown
    <3> QED  BY <1>4, <3>1, ShowsStays DEF Grows
  <2> QED  BY <1>1, <1>3, <2>1 DEF TrafficOK
<1>6. OpOK(gw', W, used, mem, op)
  BY <1>1, <1>4, CallStays
<1> QED  BY <1>1, <1>2, <1>3, <1>4, <1>5, <1>6 DEF W

LEMMA ProgressKeeps ==
  ASSUME TurnInv, NEW t \in Turn, Progress(t)
  PROVE  TurnInv'
<1>1. /\ Running(gw[t]) /\ Len(live) < MaxLive
      /\ UNCHANGED <<stray, wire, subs, sock, phoneVars, now, used>>
  BY DEF Progress
<1>2. PICK event \in NextEvents(gw[t].log) :
        /\ gw' = [gw EXCEPT ![t].log = Append(@, event)]
        /\ \/ Delivered(t, event) /\ UNCHANGED faults
           \/ t \in subs /\ Fails("miss") /\ UNCHANGED live
  BY DEF Progress
<1> DEFINE h == [gw[t] EXCEPT !.log = Append(@, event)]
<1>3. LedgerOK(gw[t]) /\ gw = [u \in Turn |-> gw[u]]
  BY DEF TurnInv
<1>4. /\ LedgerOK(h) /\ Extends(gw[t], h)
      /\ event \in Event(MaxLog) /\ event.seq = Len(gw[t].log) + 1
  BY <1>1, <1>2, <1>3, ProgressGrows
<1>5. gw' = [gw EXCEPT ![t] = h] /\ h.known = gw[t].known
  BY <1>2, <1>3 DEF LedgerOK
<1>6. h.log = Append(gw[t].log, event)
  BY <1>3 DEF LedgerOK
<1> HIDE DEF h
<1>7. /\ gw' = [u \in Turn |-> gw'[u]] /\ gw'[t] = h
      /\ Grows(gw, wire \cup stray, gw', wire \cup stray)
      /\ TrafficOK(gw', wire \cup stray, used, live)
      /\ OpOK(gw', wire \cup stray, used, mem, op)
      /\ used \subseteq Turn /\ subs \subseteq Turn /\ faults \in 0..MaxFaults
  BY <1>4, <1>5, TurnGoesOn
<1>8. TrafficOK(gw', wire \cup stray, used, live')
  <2>1. CASE live' = live
    BY <1>7, <2>1
  <2>2. CASE live' # live
    <3> DEFINE frame == [turn |-> t, event |-> event]
    <3>1. live' = Append(live, frame)
      BY <1>2, <2>2 DEF Delivered
    <3>2. frame \in [turn : Turn, event : Event(MaxLog)]
      BY <1>4
    <3>3. Shows(gw', frame)
      <4>1. gw[t].known /\ gw[t].log \in Seq(Event(MaxLog))
        BY <1>1, <1>3 DEF Running, LedgerOK
      <4>2. /\ Len(h.log) = Len(gw[t].log) + 1 /\ Len(gw[t].log) \in Nat
            /\ h.log[Len(gw[t].log) + 1] = event
        BY <1>4, <1>6, <4>1, AppendedLog
      <4>3. h.known
        BY <1>4, <4>1 DEF Extends
      <4>4. event.seq <= Len(h.log) /\ event = h.log[event.seq]
        BY <1>4, <4>2
      <4> QED  BY <1>7, <4>3, <4>4 DEF Shows
    <3> HIDE DEF frame
    <3>4. /\ live \in Seq([turn : Turn, event : Event(MaxLog)])
          /\ Len(live) \in Nat /\ MaxLive \in Nat
      BY <1>7, TurnAssumption DEF TrafficOK
    <3>5. /\ live' \in Seq([turn : Turn, event : Event(MaxLog)])
          /\ Len(live') = Len(live) + 1
          /\ \A i \in 1..Len(live) : live'[i] = live[i]
          /\ live'[Len(live) + 1] = frame
      BY <3>1, <3>2, <3>4
    <3>6. \A i \in 1..Len(live') : i \in 1..Len(live) \/ i = Len(live) + 1
      BY <3>4, <3>5
    <3>7. \A i \in 1..Len(live') : Shows(gw', live'[i])
      BY <1>7, <3>3, <3>5, <3>6 DEF TrafficOK
    <3>8. Len(live') <= MaxLive
      BY <1>1, <3>4, <3>5
    <3> QED  BY <1>7, <3>5, <3>7, <3>8 DEF TrafficOK
  <2> QED  BY <2>1, <2>2
<1>9. faults' \in 0..MaxFaults
  BY <1>2, <1>7, TurnAssumption DEF Fails, CanFail
<1> QED  BY <1>1, <1>7, <1>8, <1>9, WorldGrows DEF phoneVars

LEMMA PruneKeeps ==
  ASSUME TurnInv, NEW t \in Turn, Prune(t)
  PROVE  TurnInv'
<1> DEFINE h == [gw[t] EXCEPT !.first = Len(gw[t].log) + 1]
<1>1. /\ gw' = [gw EXCEPT ![t].first = Len(gw[t].log) + 1] /\ Fails("prune")
      /\ UNCHANGED <<stray, connectionVars, phoneVars, now, used>>
  BY DEF Prune
<1>2. LedgerOK(gw[t]) /\ gw = [u \in Turn |-> gw[u]]
  BY DEF TurnInv
<1>3. LedgerOK(h) /\ Extends(gw[t], h) /\ h.known = gw[t].known
  BY <1>2, PrunedGrows
<1>4. gw' = [gw EXCEPT ![t] = h]
  BY <1>1, <1>2
<1> HIDE DEF h
<1>5. /\ gw' = [u \in Turn |-> gw'[u]]
      /\ Grows(gw, wire \cup stray, gw', wire \cup stray)
      /\ TrafficOK(gw', wire \cup stray, used, live)
      /\ OpOK(gw', wire \cup stray, used, mem, op)
      /\ used \subseteq Turn /\ subs \subseteq Turn /\ faults \in 0..MaxFaults
  BY <1>3, <1>4, TurnGoesOn
<1>6. faults' \in 0..MaxFaults
  BY <1>1, <1>5, TurnAssumption DEF Fails, CanFail
<1> QED  BY <1>1, <1>5, <1>6, WorldGrows DEF connectionVars, phoneVars

-----------------------------------------------------------------------------
(* How a call of the coordinator ends *)

LEMMA DoneIs ==
  ASSUME NEW g, NEW s, StateOK(g, s)
  PROVE  /\ Done(s) <=> ~Unsettled(s)
         /\ MustReconcile(s) => Unsettled(s)
BY DEF StateOK, ReducerOK, Done, Unsettled, MustReconcile

LEMMA CallFacts ==
  ASSUME TurnInv, op.kind \in {"armed", "sent", "interrupting", "reconcile"}
  PROVE  /\ op.turn \in used /\ op.turn \in Turn /\ op.turn \in DOMAIN mem.states
         /\ StateOK(gw[op.turn], mem.states[op.turn])
         /\ MustReconcile(mem.states[op.turn]) /\ Unsettled(mem.states[op.turn])
         /\ LedgerOK(gw[op.turn])
         /\ ~Poisoned(poison, Chat)
<1>1. op.turn \in DOMAIN mem.states /\ MustReconcile(mem.states[op.turn])
  BY DEF TurnInv, OpOK, CallOK
<1>2. op.turn \in used /\ op.turn \in Turn
  BY <1>1 DEF TurnInv, TrafficOK, MemoryOK
<1>3. /\ StateOK(gw[op.turn], mem.states[op.turn]) /\ LedgerOK(gw[op.turn])
      /\ ~Poisoned(poison, Chat)
  BY <1>1, <1>2 DEF TurnInv, MemoryOK, QuietOK
<1> QED  BY <1>1, <1>2, <1>3, DoneIs

\* A connection that is closed leaves nothing behind but what it has sent.
LEMMA DisconnectKeeps ==
  ASSUME TurnInv, Disconnect, gw' = gw, used' = used
  PROVE  /\ wire' \cup stray' = wire \cup stray
         /\ TrafficOK(gw', wire' \cup stray', used', live')
         /\ subs' \subseteq Turn /\ sock' = "down"
<1>1. wire' \cup stray' = wire \cup stray /\ live' = <<>> /\ subs' = {}
      /\ sock' = "down"
  BY DEF Disconnect
<1>2. TrafficOK(gw, wire \cup stray, used, live)
  BY DEF TurnInv
<1>3. /\ live' \in Seq([turn : Turn, event : Event(MaxLog)]) /\ Len(live') = 0
      /\ MaxLive \in Nat
  BY <1>1, TurnAssumption
<1>4. TrafficOK(gw', wire' \cup stray', used', live')
  BY <1>1, <1>2, <1>3 DEF TrafficOK
<1> QED  BY <1>1, <1>4

LEMMA SeveringIs ==
  ASSUME NEW G, NEW W, NEW U, NEW m, NEW bad, NEW again, NEW release,
         again \subseteq DOMAIN m.states \cup DOMAIN m.tombs
  PROVE  LET o == Severing(m, bad, again, release)
         IN /\ o.kind = "sever" /\ OpOK(G, W, U, m, o) /\ SeverOK(m, "down", o)
<1> DEFINE o == Severing(m, bad, again, release)
           open == {t \in DOMAIN m.states : Unsettled(m.states[t])}
<1>1. /\ o = [kind |-> "sever", bad |-> o.bad, rest |-> o.rest,
              again |-> o.again, release |-> o.release]
      /\ o.kind = "sever" /\ o.bad = bad \cap open /\ o.rest = open \ bad
      /\ o.again = again
  BY DEF Severing
<1> HIDE DEF o
<1>2. OpOK(G, W, U, m, o)
  BY <1>1 DEF OpOK, CallOK
<1>3. SeverOK(m, "down", o)
  BY <1>1 DEF SeverOK
<1> QED  BY <1>1, <1>2, <1>3 DEF o

\* The connection is given up.
LEMMA GivenUp ==
  ASSUME TurnInv, Disconnect, gw' = gw, used' = used, now' \in 1..MaxTime,
         faults' \in 0..MaxFaults, poison' \in PoisonType,
         JournalOK(gw, used, db'), MemoryOK(gw, used, mem'),
         NEW bad, NEW again, NEW release,
         again \subseteq DOMAIN mem'.states \cup DOMAIN mem'.tombs,
         op' = Severing(mem', bad, again, release)
  PROVE  TurnInv'
<1>1. /\ TrafficOK(gw', wire' \cup stray', used', live')
      /\ subs' \subseteq Turn /\ sock' = "down"
  BY DisconnectKeeps
<1>2. /\ op'.kind = "sever" /\ OpOK(gw', wire' \cup stray', used', mem', op')
      /\ SeverOK(mem', sock', op')
  BY <1>1, SeveringIs
<1>3. QuietOK(sock', op', poison')
  BY <1>1, <1>2 DEF QuietOK, PoisonType
<1> QED  BY <1>1, <1>2, <1>3 DEF TurnInv

\* The coordinator is idle again.
LEMMA IdleAgain ==
  ASSUME TurnInv, op' = Idle, gw' = gw, now' \in 1..MaxTime,
         faults' \in 0..MaxFaults, poison' \in PoisonType,
         Poisoned(poison', Chat) => sock' = "down",
         subs' \subseteq Turn, sock' \in {"down", "up", "lost"},
         TrafficOK(gw', wire' \cup stray', used', live'),
         JournalOK(gw, used', db'), MemoryOK(gw, used', mem'),
         \A t \in DOMAIN mem'.states : Unsettled(mem'.states[t])
  PROVE  TurnInv'
<1>1. op'.kind = "idle"
  BY DEF Idle
<1>2. OpOK(gw', wire' \cup stray', used', mem', op')
  BY <1>1 DEF OpOK, CallOK
<1>3. SeverOK(mem', sock', op') /\ QuietOK(sock', op', poison')
  BY <1>1 DEF SeverOK, QuietOK, PoisonType
<1> QED  BY <1>2, <1>3 DEF TurnInv

LEMMA RecoverFailsKeeps ==
  ASSUME TurnInv, NEW mode \in Modes, NEW subscribed \in SUBSET Turn,
         RecoverFails(mode, subscribed), UNCHANGED world,
         faults' \in 0..MaxFaults, poison' \in PoisonType, ~Poisoned(poison', Chat),
         JournalOK(gw, used, db'), MemoryOK(gw, used, mem'),
         \A t \in DOMAIN mem'.states : Unsettled(mem'.states[t])
  PROVE  TurnInv'
<1>1. /\ gw' = gw /\ used' = used /\ now' = now /\ now \in 1..MaxTime
      /\ sock \in {"down", "up", "lost"}
      /\ TrafficOK(gw, wire \cup stray, used, live)
  BY DEF world, TurnInv
<1>2. CASE mode = "pending"
  <2>1. op' = Idle /\ subs' = subscribed /\ UNCHANGED <<wire, live, sock, stray>>
    BY <1>2 DEF RecoverFails
  <2> QED  BY <1>1, <2>1, IdleAgain
<1>3. CASE mode = "bare"
  <2>1. op' = Idle /\ Disconnect
    BY <1>3 DEF RecoverFails
  <2>2. /\ TrafficOK(gw', wire' \cup stray', used', live')
        /\ subs' \subseteq Turn /\ sock' = "down"
    BY <1>1, <2>1, DisconnectKeeps
  <2> QED  BY <1>1, <2>1, <2>2, IdleAgain
<1>4. CASE mode = "ensure"
  <2>1. Disconnect /\ op' = Severing(mem', {}, {}, "always")
    BY <1>4 DEF RecoverFails
  <2> QED  BY <1>1, <2>1, GivenUp
<1> QED  BY <1>2, <1>3, <1>4 DEF Modes

LEMMA CallFailsKeeps ==
  ASSUME TurnInv, NEW t, NEW context, context.mode \in Modes,
         NEW subscribed \in SUBSET Turn,
         CallFails(t, context, subscribed), UNCHANGED world,
         faults' \in 0..MaxFaults, poison' \in PoisonType, ~Poisoned(poison', Chat),
         JournalOK(gw, used, db'), MemoryOK(gw, used, mem'),
         \A u \in DOMAIN mem'.states : Unsettled(mem'.states[u])
  PROVE  TurnInv'
<1>1. CASE context.kind = "live"
  <2>1. Disconnect /\ op' = Severing(mem', {t}, {}, "never")
    BY <1>1 DEF CallFails
  <2>2. gw' = gw /\ used' = used /\ now' \in 1..MaxTime
    BY DEF world, TurnInv
  <2> QED  BY <2>1, <2>2, GivenUp
<1>2. CASE context.kind # "live"
  <2>1. RecoverFails(context.mode, subscribed)
    BY <1>2 DEF CallFails
  <2> QED  BY <2>1, RecoverFailsKeeps
<1> QED  BY <1>1, <1>2

\* What a write leaves open in memory is open.
LEMMA PersistOpen ==
  ASSUME TurnInv, op.kind # "sever", NEW t \in used, NEW s, StateOK(gw[t], s),
         NEW w, Persist(t, s, w), w.ok \/ Unsettled(s)
  PROVE  \A u \in DOMAIN mem'.states : Unsettled(mem'.states[u])
<1>1. /\ OnlyTurn(mem, mem', t) /\ MemoryOK(gw, used, mem') /\ w.ok \in BOOLEAN
      /\ w.ok /\ Done(s) => t \notin DOMAIN mem'.states
      /\ ~(w.ok /\ Done(s)) => mem'.states[t] = s
  BY PersistKeeps
<1>2. \A u \in DOMAIN mem.states : Unsettled(mem.states[u])
  BY DEF TurnInv, SeverOK
<1>3. \A u \in DOMAIN mem'.states : u \in Turn
  BY <1>1 DEF TurnInv, TrafficOK, MemoryOK
<1>4. t \in DOMAIN mem'.states => Unsettled(mem'.states[t])
  BY <1>1, DoneIs
<1> QED  BY <1>1, <1>2, <1>3, <1>4 DEF OnlyTurn

LEMMA ConcludeKeeps ==
  ASSUME TurnInv, op.kind \in {"armed", "sent", "interrupting", "reconcile"},
         NEW t \in used, NEW s, StateOK(gw[t], s),
         NEW context, context.mode \in Modes, NEW subscribed \in SUBSET Turn,
         NEW next, next.kind # "sever",
         \A m : /\ MemoryOK(gw, used, m)
                /\ ~FailClosed(s)
                /\ Unsettled(s) => /\ t \in DOMAIN m.states /\ m.states[t] = s
                                   /\ t \notin DOMAIN m.tombs
                => OpOK(gw, wire \cup stray, used, m, next),
         Conclude(t, s, context, subscribed, next), UNCHANGED world
  PROVE  TurnInv'
<1>1. PICK w \in Writes(t, s) :
        /\ Persist(t, s, w)
        /\ CASE ~w.ok -> CloseAfter(t, s, ReleaseOf(context))
             [] w.ok /\ FailClosed(s) -> CallFails(t, context, subscribed)
             [] w.ok /\ ~FailClosed(s) ->
                  op' = next /\ subs' = subscribed
                  /\ UNCHANGED <<wire, live, sock, stray>>
  BY DEF Conclude
<1>2. /\ gw' = gw /\ used' = used /\ now' = now /\ now' \in 1..MaxTime
      /\ sock \in {"down", "up", "lost"}
      /\ TrafficOK(gw, wire \cup stray, used, live)
      /\ \A u \in Turn : LedgerOK(gw[u]) /\ gw = [v \in Turn |-> gw[v]]
  BY DEF world, TurnInv
<1>3. ~Poisoned(poison, Chat) /\ op.kind # "sever"
  BY CallFacts
<1>4. /\ w.ok \in BOOLEAN /\ faults' \in 0..MaxFaults
      /\ JournalOK(gw, used, db') /\ MemoryOK(gw, used, mem')
      /\ w.ok /\ Done(s) => t \notin DOMAIN mem'.states /\ t \in DOMAIN mem'.tombs
      /\ ~(w.ok /\ Done(s)) =>
           /\ t \in DOMAIN mem'.states /\ mem'.states[t] = s
           /\ t \notin DOMAIN mem'.tombs
      /\ poison' \in PoisonType
      /\ Poisoned(poison', Chat) <=> Poisoned(poison, Chat) \/ (~w.ok /\ FailClosed(s))
  BY <1>1, PersistKeeps
<1>5. CASE ~w.ok
  <2>1. CloseAfter(t, s, ReleaseOf(context))
    BY <1>1, <1>5
  <2>2. /\ Disconnect
        /\ op' = Severing(mem', {t}, IF Done(s) THEN {t} ELSE {}, ReleaseOf(context))
    BY <2>1 DEF CloseAfter
  <2> DEFINE again == IF Done(s) THEN {t} ELSE {}
  <2>3. again \subseteq DOMAIN mem'.states \cup DOMAIN mem'.tombs
    BY <1>4, <1>5
  <2> HIDE DEF again
  <2>4. op' = Severing(mem', {t}, again, ReleaseOf(context))
    BY <2>2 DEF again
  <2> QED  BY <1>2, <1>4, <2>2, <2>3, <2>4, GivenUp
<1>6. CASE w.ok
  <2>1. \A u \in DOMAIN mem'.states : Unsettled(mem'.states[u])
    BY <1>1, <1>3, <1>6, PersistOpen
  <2>2. ~Poisoned(poison', Chat)
    BY <1>3, <1>4, <1>6
  <2>3. CASE FailClosed(s)
    <3>1. CallFails(t, context, subscribed)
      BY <1>1, <1>6, <2>3
    <3> QED  BY <1>4, <2>1, <2>2, <3>1, CallFailsKeeps
  <2>4. CASE ~FailClosed(s)
    <3>1. op' = next /\ subs' = subscribed /\ UNCHANGED <<wire, live, sock, stray>>
      BY <1>1, <1>6, <2>4
    <3>2. OpOK(gw', wire' \cup stray', used', mem', op')
      BY <1>2, <1>4, <2>4, <3>1, DoneIs
    <3>3. SeverOK(mem', sock', op') /\ QuietOK(sock', op', poison')
      BY <1>4, <2>1, <2>2, <3>1 DEF SeverOK, QuietOK, PoisonType
    <3> QED  BY <1>2, <1>4, <3>1, <3>2, <3>3 DEF TurnInv
  <2> QED  BY <2>3, <2>4
<1> QED  BY <1>4, <1>5, <1>6

-----------------------------------------------------------------------------
(* turn.reconcile *)

LEMMA RecoveringIs ==
  ASSUME NEW G, NEW W, NEW U, NEW todo, TodoOK(G, U, todo), NEW mode \in Modes,
         NEW m
  PROVE  LET o == Recovering(todo, mode)
         IN o.kind \in {"idle", "recover"} /\ OpOK(G, W, U, m, o)
<1> DEFINE o == Recovering(todo, mode)
<1>1. CASE todo = {}
  <2>1. o = Idle /\ o.kind = "idle"
    BY <1>1 DEF Recovering, Idle
  <2> HIDE DEF o
  <2>2. OpOK(G, W, U, m, o)
    BY <2>1 DEF OpOK, CallOK
  <2> QED  BY <2>1, <2>2 DEF o
<1>2. CASE todo # {}
  <2>1. o.kind = "recover" /\ o.todo = todo /\ o.mode = mode
    BY <1>2 DEF Recovering
  <2>2. o = Recovering(o.todo, o.mode)
    BY <2>1
  <2> HIDE DEF o
  <2>3. OpOK(G, W, U, m, o)
    BY <2>1, <2>2 DEF OpOK, CallOK
  <2> QED  BY <2>1, <2>3 DEF o
<1> QED  BY <1>1, <1>2

LEMMA ReconcilingIs ==
  ASSUME NEW G, NEW W, NEW U, NEW m, NEW t \in DOMAIN m.states,
         MustReconcile(m.states[t]), NEW cursor \in 0..Len(G[t].log),
         NEW durable \in 0..Len(G[t].log), NEW context, ContextOK(G, U, t, context)
  PROVE  LET o == Reconciling(t, cursor, durable, context)
         IN o.kind = "reconcile" /\ OpOK(G, W, U, m, o)
<1> DEFINE o == Reconciling(t, cursor, durable, context)
<1>1. /\ o.kind = "reconcile" /\ o.turn = t /\ o.cursor = cursor
      /\ o.durable = durable /\ o.context = context
      /\ o = Reconciling(o.turn, o.cursor, o.durable, o.context)
  BY DEF Reconciling
<1> HIDE DEF o
<1>2. OpOK(G, W, U, m, o)
  BY <1>1 DEF OpOK, CallOK
<1> QED  BY <1>1, <1>2 DEF o

LEMMA ReconcileFacts ==
  ASSUME TurnInv, op.kind = "reconcile"
  PROVE  /\ op.cursor \in 0..Len(gw[op.turn].log)
         /\ op.durable \in 0..Len(gw[op.turn].log)
         /\ ContextOK(gw, used, op.turn, op.context)
         /\ op.context.mode \in Modes /\ TodoOK(gw, used, op.context.todo)
BY DEF TurnInv, OpOK, ContextOK

\* A page is applied; what it says may not be written yet.
LEMMA AppliedKeeps ==
  ASSUME TurnInv, op.kind = "reconcile", NEW page, PageOK(gw[op.turn], page),
         UNCHANGED world,
         ReconcileApplied(op.turn, page,
                          Recovering(op.context.todo, op.context.mode))
  PROVE  TurnInv'
<1> DEFINE t == op.turn
           s == ApplyPage(mem.states[t], page)
           subscribed == IF page.mode = "events" THEN subs \cup {t} ELSE subs
           written == s.lastSeq >= op.durable
           durable == IF written THEN 0 ELSE op.durable
           more == Reconciling(t, page.next, durable, op.context)
           next == Recovering(op.context.todo, op.context.mode)
           step == IF page.more THEN more ELSE next
<1>1. /\ t \in used /\ t \in Turn /\ t \in DOMAIN mem.states
      /\ StateOK(gw[t], mem.states[t]) /\ LedgerOK(gw[t])
      /\ ~Poisoned(poison, Chat)
  BY CallFacts
<1>2. /\ op.durable \in 0..Len(gw[t].log) /\ 0 \in 0..Len(gw[t].log)
      /\ Len(gw[t].log) \in Nat
      /\ ContextOK(gw, used, t, op.context)
      /\ op.context.mode \in Modes /\ TodoOK(gw, used, op.context.todo)
  BY <1>1, ReconcileFacts DEF LedgerOK
<1>3. /\ StateOK(gw[t], s) /\ (FailClosed(s) \/ s.lastSeq = page.next)
      /\ ~FailClosed(s) /\ page.more => Unsettled(s) /\ MustReconcile(s)
  BY <1>1, PageKeeps
<1>4. /\ page.next \in 0..Len(gw[t].log) /\ page.next \in Nat
      /\ ~page.more => page.next = Len(gw[t].log)
  BY <1>2 DEF PageOK
<1>5. subscribed \in SUBSET Turn
  BY <1>1 DEF TurnInv
<1>6. IF FailClosed(s) \/ written
      THEN Conclude(t, s, op.context, subscribed, step)
      ELSE /\ mem' = Remember(mem, t, s)
           /\ op' = step /\ subs' = subscribed
           /\ UNCHANGED <<wire, live, sock, stray, db, poison, faults>>
  BY DEF ReconcileApplied
<1>7. \A m : next.kind \in {"idle", "recover"}
             /\ OpOK(gw, wire \cup stray, used, m, next)
  BY <1>2, RecoveringIs
<1>8. durable \in 0..Len(gw[t].log)
  BY <1>2
<1> HIDE DEF s, subscribed, written, durable, next, t
<1>9. more.kind = "reconcile"
  BY DEF Reconciling
<1>10. ASSUME NEW m, ~FailClosed(s),
              Unsettled(s) => t \in DOMAIN m.states /\ m.states[t] = s
       PROVE  OpOK(gw, wire \cup stray, used, m, step)
  <2>1. CASE page.more
    <3>1. t \in DOMAIN m.states /\ MustReconcile(m.states[t])
      BY <1>3, <1>10, <2>1
    <3>2. OpOK(gw, wire \cup stray, used, m, more)
      BY <1>2, <1>4, <1>8, <3>1, ReconcilingIs
    <3> QED  BY <2>1, <3>2
  <2>2. CASE ~page.more
    BY <1>7, <2>2
  <2> QED  BY <2>1, <2>2
<1> HIDE DEF more
<1>11. step.kind \in {"idle", "recover", "reconcile"}
  BY <1>7, <1>9
<1> HIDE DEF step
<1>12. CASE FailClosed(s) \/ written
  <2>1. Conclude(t, s, op.context, subscribed, step)
    BY <1>6, <1>12
  <2> QED  BY <1>1, <1>2, <1>3, <1>5, <1>10, <1>11, <2>1, ConcludeKeeps
<1>13. CASE ~FailClosed(s) /\ ~written
  <2>1. /\ mem' = Remember(mem, t, s) /\ op' = step /\ subs' = subscribed
        /\ UNCHANGED <<wire, live, sock, stray, db, poison, faults>>
    BY <1>6, <1>13
  <2>2. /\ gw' = gw /\ used' = used /\ now' = now /\ used \subseteq Turn
        /\ MemoryOK(gw, used, mem)
        /\ \A u \in DOMAIN mem.states : Unsettled(mem.states[u])
    BY DEF world, TurnInv, TrafficOK, SeverOK
  <2>3. page.more
    BY <1>2, <1>3, <1>4, <1>13 DEF written
  <2>4. Unsettled(s)
    BY <1>3, <1>13, <2>3
  <2>5. /\ MemoryOK(gw, used, mem') /\ OnlyTurn(mem, mem', t)
        /\ t \in DOMAIN mem'.states /\ mem'.states[t] = s
    <3> DEFINE n == Remember(mem, t, s)
    <3>1. /\ MemoryOK(gw, used, n) /\ OnlyTurn(mem, n, t)
          /\ t \in DOMAIN n.states /\ n.states[t] = s
      BY <1>1, <1>3, <2>2, RememberKeeps
    <3>2. mem' = n
      BY <2>1
    <3> HIDE DEF n
    <3> QED  BY <3>1, <3>2
  <2>6. \A u \in DOMAIN mem'.states : Unsettled(mem'.states[u])
    <3>1. \A u \in DOMAIN mem'.states : u \in Turn
      BY <2>2, <2>5 DEF MemoryOK
    <3> QED  BY <2>2, <2>4, <2>5, <3>1 DEF OnlyTurn
  <2>7. OpOK(gw', wire' \cup stray', used', mem', op')
    BY <1>10, <1>13, <2>1, <2>2, <2>5
  <2>8. SeverOK(mem', sock', op')
    BY <1>11, <2>1, <2>6 DEF SeverOK
  <2>9. QuietOK(sock', op', poison')
    BY <1>1, <2>1 DEF TurnInv, QuietOK
  <2> QED  BY <1>5, <2>1, <2>2, <2>5, <2>7, <2>8, <2>9 DEF TurnInv
<1> QED  BY <1>12, <1>13

LEMMA ReconcileAnsweredKeeps == ASSUME TurnInv, ReconcileAnswered  PROVE  TurnInv'
<1> DEFINE t == op.turn
           reply == ReplyTo(gw[t], op.cursor)
           next == Recovering(op.context.todo, op.context.mode)
<1>1. /\ op.kind = "reconcile" /\ UNCHANGED world
      /\ IF reply.error = None THEN ReconcileApplied(t, reply, next)
         ELSE Conclude(t, Fail(mem.states[t], reply.error), op.context, subs, next)
  BY DEF ReconcileAnswered
<1>2. t \in used /\ StateOK(gw[t], mem.states[t]) /\ LedgerOK(gw[t])
  BY <1>1, CallFacts
<1>3. /\ op.cursor \in 0..Len(gw[t].log)
      /\ op.context.mode \in Modes /\ TodoOK(gw, used, op.context.todo)
  BY <1>1, ReconcileFacts
<1>4. /\ reply.error # None => reply.error \in Failure
      /\ reply.error = None => PageOK(gw[t], reply)
  BY <1>2, <1>3, ReplyIs
<1>5. \A m : next.kind \in {"idle", "recover"}
             /\ OpOK(gw, wire \cup stray, used, m, next)
  BY <1>3, RecoveringIs
<1> HIDE DEF reply
<1>6. CASE reply.error = None
  BY <1>1, <1>4, <1>6, AppliedKeeps
<1>7. CASE reply.error # None
  <2> DEFINE s == Fail(mem.states[t], reply.error)
  <2>1. StateOK(gw[t], s)
    BY <1>2, <1>4, <1>7, FailKeeps DEF StateOK
  <2>2. Conclude(t, s, op.context, subs, next)
    BY <1>1, <1>7
  <2>3. subs \in SUBSET Turn
    BY DEF TurnInv
  <2> HIDE DEF s, next, t
  <2> QED  BY <1>1, <1>2, <1>3, <1>5, <2>1, <2>2, <2>3, ConcludeKeeps
<1> QED  BY <1>6, <1>7

\* Something is wrong with the turn of a call.
LEMMA FailConcludes ==
  ASSUME TurnInv, op.kind \in {"armed", "sent", "interrupting", "reconcile"},
         NEW context, context.mode \in Modes, UNCHANGED world,
         Conclude(op.turn, Fail(mem.states[op.turn], "protocolViolation"),
                  context, subs, Idle)
  PROVE  TurnInv'
<1> DEFINE t == op.turn
           s == Fail(mem.states[t], "protocolViolation")
<1>1. t \in used /\ StateOK(gw[t], mem.states[t])
  BY CallFacts
<1>2. "protocolViolation" \in Failure
  BY DEF Failure
<1>3. StateOK(gw[t], s)
  BY <1>1, <1>2, FailKeeps DEF StateOK
<1>4. subs \in SUBSET Turn
  BY DEF TurnInv
<1>5. \A m : OpOK(gw, wire \cup stray, used, m, Idle) /\ Idle.kind # "sever"
  BY DEF OpOK, CallOK, Idle
<1>6. Conclude(t, s, context, subs, Idle)
  OBVIOUS
<1> HIDE DEF s, t
<1> QED  BY <1>1, <1>3, <1>4, <1>5, <1>6, ConcludeKeeps

LEMMA ReconcileGarbledKeeps == ASSUME TurnInv, ReconcileGarbled  PROVE  TurnInv'
BY ReconcileFacts, FailConcludes DEF ReconcileGarbled

LEMMA FailsIs ==
  ASSUME NEW kind, Fails(kind), faults \in 0..MaxFaults
  PROVE  faults' \in 0..MaxFaults
BY TurnAssumption DEF Fails, CanFail

LEMMA ReconcileUnansweredKeeps == ASSUME TurnInv, ReconcileUnanswered  PROVE  TurnInv'
<1>1. PICK subscribed \in {subs, IF gw[op.turn].known /\ Connected
                                 THEN subs \cup {op.turn} ELSE subs} :
        CallFails(op.turn, op.context, subscribed)
  BY DEF ReconcileUnanswered
<1>2. /\ op.kind = "reconcile" /\ UNCHANGED world /\ UNCHANGED <<mem, db, poison>>
      /\ UNCHANGED faults \/ Fails("timeout")
  BY DEF ReconcileUnanswered
<1>3. op.turn \in Turn /\ ~Poisoned(poison', Chat) /\ op.context.mode \in Modes
  BY <1>2, CallFacts, ReconcileFacts
<1>4. /\ JournalOK(gw, used, db') /\ MemoryOK(gw, used, mem')
      /\ poison' \in PoisonType /\ subscribed \in SUBSET Turn
      /\ \A u \in DOMAIN mem'.states : Unsettled(mem'.states[u])
  BY <1>2, <1>3 DEF TurnInv, SeverOK, QuietOK, PoisonType
<1>5. faults' \in 0..MaxFaults
  BY <1>2, FailsIs DEF TurnInv
<1> QED  BY <1>1, <1>2, <1>3, <1>4, <1>5, CallFailsKeeps

-----------------------------------------------------------------------------
(* Opening a connection, and what the journal holds *)

LEMMA OpenStepKeeps ==
  ASSUME TurnInv, NEW mode \in Modes, Open(mode)
  PROVE  TurnInv'
<1>1. /\ Operational /\ sock' = "up" /\ wire' = {} /\ stray' = stray \cup wire
      /\ subs' = {} /\ live' = <<>>
      /\ op' = Recovering(EntriesOf(db', Chat), mode)
      /\ UNCHANGED <<world, mem, poison, faults>>
  BY DEF Open
<1>2. PICK at : db' \in UpsertBinding(db, Chat, at, now)
  BY DEF Open
<1>3. /\ gw' = gw /\ used' = used /\ now' = now /\ gw = [t \in Turn |-> gw[t]]
      /\ \A t \in Turn : LedgerOK(gw[t])
      /\ TrafficOK(gw, wire \cup stray, used, live)
      /\ JournalOK(gw, used, db) /\ MemoryOK(gw, used, mem)
      /\ now \in 1..MaxTime /\ faults \in 0..MaxFaults
      /\ op.kind # "sever" /\ ~Poisoned(poison, Chat) /\ poison \in PoisonType
  BY <1>1 DEF world, TurnInv, Operational, Idle, QuietOK, PoisonType
<1>4. JournalOK(gw, used, db')
  <2> DEFINE h == [db EXCEPT !.bindings = (@ \ BindingOf(db, Chat))
                                          \cup {[scope |-> Chat, at |-> at]}]
  <2>1. db' \in Compact(h, now, {Chat})
    BY <1>2 DEF UpsertBinding
  <2>2. h.entries = db.entries
    BY <1>3 DEF JournalOK
  <2> HIDE DEF h
  <2>3. /\ db' = [bindings |-> db'.bindings, entries |-> db'.entries]
        /\ db'.entries \subseteq db.entries
    BY <2>1, <2>2, CompactShrinks
  <2> QED  BY <1>3, <2>3 DEF JournalOK
<1>5. TrafficOK(gw', wire' \cup stray', used', live')
  <2>1. /\ live' \in Seq([turn : Turn, event : Event(MaxLog)]) /\ Len(live') = 0
        /\ MaxLive \in Nat /\ wire' \cup stray' = wire \cup stray
    BY <1>1, TurnAssumption
  <2> QED  BY <1>1, <1>3, <2>1 DEF TrafficOK
<1>6. TodoOK(gw, used, EntriesOf(db', Chat))
  BY <1>4 DEF TodoOK, EntriesOf, JournalOK
<1>7. /\ op'.kind \in {"idle", "recover"}
      /\ OpOK(gw', wire' \cup stray', used', mem', op')
  BY <1>1, <1>3, <1>6, RecoveringIs
<1>8. SeverOK(mem', sock', op') /\ QuietOK(sock', op', poison')
  BY <1>1, <1>3, <1>7 DEF TurnInv, SeverOK, QuietOK, PoisonType
<1> QED  BY <1>1, <1>3, <1>4, <1>5, <1>7, <1>8 DEF TurnInv

LEMMA RecoverPendingKeeps == ASSUME TurnInv, RecoverPending  PROVE  TurnInv'
<1>1. /\ Operational /\ op' = Recovering(EntriesOf(db, Chat), "pending")
      /\ UNCHANGED <<world, connection, mem, db, poison, faults>>
  BY DEF RecoverPending
<1>2. /\ gw' = gw /\ used' = used /\ now' = now /\ wire' = wire /\ stray' = stray
      /\ live' = live /\ sock' = sock /\ subs' = subs
      /\ op.kind # "sever" /\ ~Poisoned(poison, Chat) /\ JournalOK(gw, used, db)
  BY <1>1 DEF world, connection, connectionVars, TurnInv, Operational, Idle
<1>3. TodoOK(gw, used, EntriesOf(db, Chat)) /\ "pending" \in Modes
  BY <1>2 DEF TodoOK, EntriesOf, JournalOK, Modes
<1>4. /\ op'.kind \in {"idle", "recover"}
      /\ OpOK(gw', wire' \cup stray', used', mem', op')
  BY <1>1, <1>2, <1>3, RecoveringIs
<1>5. SeverOK(mem', sock', op') /\ QuietOK(sock', op', poison')
  BY <1>1, <1>2, <1>4 DEF TurnInv, SeverOK, QuietOK, PoisonType
<1> QED  BY <1>1, <1>2, <1>4, <1>5 DEF TurnInv

LEMMA RecoverStepKeeps ==
  ASSUME TurnInv, NEW e, RecoverStep(e)
  PROVE  TurnInv'
<1> DEFINE t == e.turn
           s == IF t \in Active THEN mem.states[t] ELSE Rehydrate(e)
           m == Tracked(mem, t, s, e.at)
           rest == op.todo \ {e}
           context == [kind |-> "recover", todo |-> rest, mode |-> op.mode]
<1>1. /\ op.kind = "recover" /\ e \in op.todo
      /\ mem' = SettleIfDone(m, t, s)
      /\ CASE FailClosed(s) -> RecoverFails(op.mode, subs)
           [] ~FailClosed(s) /\ ~MustReconcile(s) ->
                op' = Recovering(rest, op.mode) /\ UNCHANGED connection
           [] MustReconcile(s) ->
                /\ op' = Reconciling(t, e.lastSeq, e.lastSeq, context)
                /\ UNCHANGED connection
      /\ UNCHANGED <<world, db, poison, faults>>
  BY DEF RecoverStep
<1>2. /\ gw' = gw /\ used' = used /\ now' = now /\ gw = [u \in Turn |-> gw[u]]
      /\ \A u \in Turn : LedgerOK(gw[u])
      /\ TrafficOK(gw, wire \cup stray, used, live) /\ used \subseteq Turn
      /\ JournalOK(gw, used, db) /\ MemoryOK(gw, used, mem)
      /\ now \in 1..MaxTime /\ faults \in 0..MaxFaults /\ subs \in SUBSET Turn
      /\ ~Poisoned(poison, Chat) /\ poison \in PoisonType
      /\ op.mode \in Modes /\ TodoOK(gw, used, op.todo)
      /\ \A u \in DOMAIN mem.states : Unsettled(mem.states[u])
      /\ sock \in {"down", "up", "lost"}
  BY <1>1 DEF world, TurnInv, TrafficOK, QuietOK, PoisonType, OpOK, SeverOK
<1>3. EntryOK(gw, e) /\ t \in used /\ \A f \in rest : f.turn # t
  BY <1>1, <1>2 DEF TodoOK
<1>4. e.at \in 1..MaxTime /\ e.lastSeq \in 0..Len(gw[t].log)
  <2>1. e.lastSeq \in Nat /\ e.lastSeq <= Len(gw[t].log) /\ e.at \in 1..MaxTime
    BY <1>3, EntryFields DEF EntryOK, Mirrors
  <2>2. Len(gw[t].log) \in Nat
    BY <1>2, <1>3 DEF LedgerOK
  <2> HIDE DEF t
  <2> QED  BY <2>1, <2>2
<1>5. StateOK(gw[t], s)
  BY <1>2, <1>3, RehydrateKeeps DEF MemoryOK, Active
<1> HIDE DEF s, rest, t
<1>6. /\ MemoryOK(gw, used, m) /\ OnlyTurn(mem, m, t)
      /\ t \in DOMAIN m.states /\ m.states[t] = s
  <2>1. used \subseteq Turn /\ MemoryOK(gw, used, mem) /\ t \in used
    BY <1>2, <1>3
  <2>2. \A at \in 1..MaxTime :
          /\ MemoryOK(gw, used, Tracked(mem, t, s, at))
          /\ OnlyTurn(mem, Tracked(mem, t, s, at), t)
          /\ t \in DOMAIN Tracked(mem, t, s, at).states
          /\ Tracked(mem, t, s, at).states[t] = s
    BY <1>5, <2>1, OpenKeeps
  <2> QED  BY <1>4, <2>2
<1>7. TodoOK(gw, used, rest)
  BY <1>2 DEF TodoOK, rest
<1> HIDE DEF m
<1>8. /\ MemoryOK(gw, used, mem')
      /\ \A u \in DOMAIN mem'.states : Unsettled(mem'.states[u])
      /\ Unsettled(s) => t \in DOMAIN mem'.states /\ mem'.states[t] = s
  <2>1. CASE Unsettled(s)
    <3>1. mem' = m
      BY <1>1, <1>5, <2>1, DoneIs DEF SettleIfDone
    <3>2. \A u \in DOMAIN m.states : u \in Turn
      BY <1>2, <1>6 DEF MemoryOK
    <3> QED  BY <1>2, <1>6, <2>1, <3>1, <3>2 DEF OnlyTurn
  <2>2. CASE ~Unsettled(s)
    <3>1. mem' = Settle(m, t, s)
      BY <1>1, <1>5, <2>2, DoneIs DEF SettleIfDone
    <3>2. ReducerOK(gw[t], s)
      BY <1>5 DEF StateOK
    <3>3. /\ MemoryOK(gw, used, mem') /\ OnlyTurn(m, mem', t)
          /\ t \notin DOMAIN mem'.states
      BY <1>2, <1>3, <1>6, <3>1, <3>2, SettleKeeps
    <3>4. \A u \in DOMAIN mem'.states : u \in Turn
      BY <1>2, <3>3 DEF MemoryOK
    <3> QED  BY <1>2, <1>6, <2>2, <3>3, <3>4 DEF OnlyTurn
  <2> QED  BY <2>1, <2>2
<1>9. CASE FailClosed(s)
  <2>1. RecoverFails(op.mode, subs)
    BY <1>1, <1>9 DEF MustReconcile
  <2> QED  BY <1>1, <1>2, <1>8, <2>1, RecoverFailsKeeps
<1>10. CASE ~FailClosed(s)
  <2>1. UNCHANGED connection
    BY <1>1, <1>10
  <2>2. /\ op'.kind \in {"idle", "recover", "reconcile"}
        /\ OpOK(gw, wire \cup stray, used, mem', op')
    <3>1. CASE MustReconcile(s)
      <4>1. op' = Reconciling(t, e.lastSeq, e.lastSeq, context)
        BY <1>1, <1>10, <3>1
      <4>2. t \in DOMAIN mem'.states /\ MustReconcile(mem'.states[t])
        BY <1>5, <1>8, <3>1, DoneIs
      <4>3. ContextOK(gw, used, t, context)
        BY <1>2, <1>3, <1>7 DEF ContextOK
      <4> DEFINE o == Reconciling(t, e.lastSeq, e.lastSeq, context)
      <4> HIDE DEF context
      <4>4. o.kind = "reconcile" /\ OpOK(gw, wire \cup stray, used, mem', o)
        BY <1>4, <4>2, <4>3, ReconcilingIs
      <4> HIDE DEF o
      <4> QED  BY <4>1, <4>4 DEF o
    <3>2. CASE ~MustReconcile(s)
      <4>1. op' = Recovering(rest, op.mode)
        BY <1>1, <1>10, <3>2
      <4> QED  BY <1>2, <1>7, <4>1, RecoveringIs
    <3> QED  BY <3>1, <3>2
  <2>3. SeverOK(mem', sock', op') /\ QuietOK(sock', op', poison')
    BY <1>1, <1>2, <1>8, <2>2 DEF SeverOK, QuietOK, PoisonType
  <2>4. /\ wire' = wire /\ stray' = stray /\ live' = live /\ sock' = sock
        /\ subs' = subs
    BY <2>1 DEF connection, connectionVars
  <2> QED  BY <1>1, <1>2, <1>8, <2>2, <2>3, <2>4 DEF TurnInv
<1> QED  BY <1>9, <1>10

-----------------------------------------------------------------------------
(* prompt.submit *)

LEMMA DiscardKeeps ==
  ASSUME NEW G, NEW U, NEW d, JournalOK(G, U, d), NEW t
  PROVE  JournalOK(G, U, Discard(d, Chat, t))
<1> DEFINE f == Discard(d, Chat, t)
<1>1. d = [bindings |-> d.bindings, entries |-> d.entries]
  BY DEF JournalOK
<1>2. /\ f = [bindings |-> f.bindings, entries |-> f.entries]
      /\ f.entries \subseteq d.entries
  BY <1>1 DEF Discard
<1> HIDE DEF f
<1>3. JournalOK(G, U, f)
  BY <1>2 DEF JournalOK
<1> QED  BY <1>3 DEF f

LEMMA RemovalKeeps ==
  ASSUME TurnInv, NEW t, NEW removed \in BOOLEAN, Removal(t, removed)
  PROVE  JournalOK(gw, used, db') /\ faults' \in 0..MaxFaults
<1>1. JournalOK(gw, used, db) /\ faults \in 0..MaxFaults
  BY DEF TurnInv
<1>2. JournalOK(gw, used, Discard(db, Chat, t))
  BY <1>1, DiscardKeeps
<1>3. db' \in {db, Discard(db, Chat, t)} /\ (UNCHANGED faults \/ Fails("storage"))
  BY DEF Removal
<1> QED  BY <1>1, <1>2, <1>3, FailsIs

LEMMA SubmitBeginKeeps ==
  ASSUME TurnInv, NEW t \in Turn, SubmitBegin(t)
  PROVE  TurnInv'
<1> DEFINE s == MarkUncertain(Initial)
           U == used \cup {t}
<1>1. /\ Operational /\ t \notin used /\ used' = U
      /\ UNCHANGED <<gw, now, connection, poison>>
  BY DEF SubmitBegin
<1>2. PICK w \in Writes(t, s) :
        /\ db' = w.db
        /\ faults' = faults + w.cost
        /\ op' = IF w.ok THEN Armed(t) ELSE Idle
        /\ mem' = IF w.ok THEN Tracked(mem, t, s, w.at) ELSE mem
  BY DEF SubmitBegin
<1>3. /\ gw' = gw /\ gw = [u \in Turn |-> gw[u]]
      /\ \A u \in Turn : LedgerOK(gw[u])
      /\ TrafficOK(gw, wire \cup stray, used, live) /\ used \subseteq Turn
      /\ JournalOK(gw, used, db) /\ MemoryOK(gw, used, mem)
      /\ now \in 1..MaxTime /\ now' = now /\ subs \subseteq Turn
      /\ ~Poisoned(poison, Chat) /\ poison' = poison /\ poison \in PoisonType
      /\ \A u \in DOMAIN mem.states : Unsettled(mem.states[u])
      /\ sock \in {"down", "up", "lost"} /\ op.kind = "idle"
      /\ wire' = wire /\ stray' = stray /\ live' = live /\ sock' = sock
      /\ subs' = subs
  BY <1>1 DEF Operational, Idle, connection, connectionVars, TurnInv, TrafficOK,
              QuietOK, PoisonType, SeverOK
<1>4. StateOK(gw[t], s) /\ Unsettled(s) /\ MustReconcile(s)
  BY <1>3, IntentOK
<1> HIDE DEF s
<1>5. TrafficOK(gw', wire' \cup stray', used', live')
  BY <1>1, <1>3 DEF TrafficOK
<1>6. /\ w.ok \in BOOLEAN /\ w.at \in 1..MaxTime /\ faults' \in 0..MaxFaults
  BY <1>2, WritesAre
<1>7. U \subseteq Turn /\ used \subseteq U /\ t \in U
  BY <1>3
<1> HIDE DEF U
<1>8. JournalOK(gw, U, db')
  BY <1>2, <1>4, <1>7, WriteKeeps
<1>9. MemoryOK(gw, U, mem)
  BY <1>3, <1>7 DEF MemoryOK
<1>10. CASE w.ok
  <2> DEFINE m == Tracked(mem, t, s, w.at)
  <2>1. /\ MemoryOK(gw, U, m) /\ OnlyTurn(mem, m, t)
        /\ t \in DOMAIN m.states /\ m.states[t] = s /\ m.tombs = mem.tombs
    BY <1>4, <1>6, <1>7, <1>9, OpenKeeps
  <2>2. mem' = m /\ op' = Armed(t)
    BY <1>2, <1>10
  <2> HIDE DEF m
  <2>3. /\ op'.kind = "armed" /\ op'.turn = t /\ op' = Armed(op'.turn)
    BY <2>2 DEF Armed
  <2>4. t \notin DOMAIN m.tombs /\ ~gw[t].known /\ t \notin wire \cup stray
    BY <1>1, <1>3, <2>1 DEF MemoryOK, TrafficOK
  <2>5. OpOK(gw', wire' \cup stray', used', mem', op')
    BY <1>3, <1>4, <2>1, <2>2, <2>3, <2>4 DEF OpOK, CallOK
  <2>6. \A u \in DOMAIN m.states : Unsettled(m.states[u])
    <3>1. \A u \in DOMAIN m.states : u \in Turn
      BY <1>7, <2>1 DEF MemoryOK
    <3> QED  BY <1>3, <1>4, <2>1, <3>1 DEF OnlyTurn
  <2>7. SeverOK(mem', sock', op') /\ QuietOK(sock', op', poison')
    BY <1>3, <2>2, <2>3, <2>6 DEF SeverOK, QuietOK, PoisonType
  <2> QED  BY <1>1, <1>3, <1>5, <1>6, <1>8, <2>1, <2>2, <2>5, <2>7 DEF TurnInv
<1>11. CASE ~w.ok
  <2>1. op' = Idle /\ mem' = mem
    BY <1>2, <1>11
  <2> QED  BY <1>1, <1>3, <1>5, <1>6, <1>8, <1>9, <2>1, IdleAgain
<1> QED  BY <1>6, <1>10, <1>11

LEMMA DiscardedOpen ==
  ASSUME TurnInv, op.kind # "sever", NEW t \in used
  PROVE  /\ MemoryOK(gw, used, Discarded(mem, t))
         /\ \A u \in DOMAIN Discarded(mem, t).states :
              Unsettled(Discarded(mem, t).states[u])
<1> DEFINE n == Discarded(mem, t)
<1>1. /\ used \subseteq Turn /\ MemoryOK(gw, used, mem)
      /\ \A u \in DOMAIN mem.states : Unsettled(mem.states[u])
  BY DEF TurnInv, TrafficOK, SeverOK
<1>2. MemoryOK(gw, used, n) /\ OnlyTurn(mem, n, t) /\ t \notin DOMAIN n.states
  BY <1>1, DiscardedKeeps
<1> HIDE DEF n
<1>3. \A u \in DOMAIN n.states : u \in Turn
  BY <1>1, <1>2 DEF MemoryOK
<1>4. \A u \in DOMAIN n.states : Unsettled(n.states[u])
  BY <1>1, <1>2, <1>3 DEF OnlyTurn
<1> QED  BY <1>2, <1>4 DEF n

\* What does not change between the steps of a call.
LEMMA StillSo ==
  ASSUME TurnInv, UNCHANGED world
  PROVE  /\ gw' = gw /\ used' = used /\ now' = now /\ now' \in 1..MaxTime
         /\ gw' = [u \in Turn |-> gw'[u]] /\ \A u \in Turn : LedgerOK(gw'[u])
         /\ subs \subseteq Turn /\ sock \in {"down", "up", "lost"}
         /\ faults \in 0..MaxFaults /\ poison \in PoisonType
         /\ JournalOK(gw, used, db) /\ MemoryOK(gw, used, mem)
         /\ TrafficOK(gw, wire \cup stray, used, live) /\ used \subseteq Turn
         /\ op.kind # "sever" =>
              \A u \in DOMAIN mem.states : Unsettled(mem.states[u])
BY DEF world, TurnInv, TrafficOK, QuietOK, PoisonType, SeverOK

LEMMA RevokeKeeps == ASSUME TurnInv, Revoke  PROVE  TurnInv'
<1>1. PICK removed \in BOOLEAN :
        /\ Removal(op.turn, removed)
        /\ mem' = IF removed THEN Discarded(mem, op.turn) ELSE mem
  BY DEF Revoke
<1>2. op.kind = "armed" /\ op' = Idle /\ UNCHANGED <<world, connection, poison>>
  BY DEF Revoke
<1>3. /\ gw' = gw /\ used' = used /\ now' \in 1..MaxTime
      /\ subs \subseteq Turn /\ sock \in {"down", "up", "lost"}
      /\ poison \in PoisonType /\ MemoryOK(gw, used, mem)
      /\ TrafficOK(gw, wire \cup stray, used, live)
      /\ \A u \in DOMAIN mem.states : Unsettled(mem.states[u])
  BY <1>2, StillSo
<1>4. op.turn \in used /\ ~Poisoned(poison, Chat)
  BY <1>2, CallFacts
<1>5. JournalOK(gw, used, db') /\ faults' \in 0..MaxFaults
  BY <1>1, RemovalKeeps
<1>6. /\ MemoryOK(gw, used, mem')
      /\ \A u \in DOMAIN mem'.states : Unsettled(mem'.states[u])
  BY <1>1, <1>2, <1>3, <1>4, DiscardedOpen
<1>7. /\ wire' = wire /\ stray' = stray /\ live' = live /\ sock' = sock
      /\ subs' = subs /\ poison' = poison
  BY <1>2 DEF connection, connectionVars
<1> QED  BY <1>2, <1>3, <1>4, <1>5, <1>6, <1>7, IdleAgain

LEMMA SendKeeps == ASSUME TurnInv, Send  PROVE  TurnInv'
<1>1. /\ op.kind = "armed" /\ wire' = wire \cup {op.turn}
      /\ op' = Sent(op.turn, NoReply)
      /\ UNCHANGED <<world, stray, subs, live, sock, mem, db, poison, faults>>
  BY DEF Send
<1>2. /\ gw' = gw /\ used' = used /\ now' \in 1..MaxTime
      /\ gw' = [u \in Turn |-> gw'[u]] /\ \A u \in Turn : LedgerOK(gw'[u])
      /\ poison \in PoisonType /\ TrafficOK(gw, wire \cup stray, used, live)
      /\ \A u \in DOMAIN mem.states : Unsettled(mem.states[u])
  BY <1>1, StillSo
<1>3. op.turn \in used /\ ~Poisoned(poison, Chat)
  BY <1>1, CallFacts
<1>4. ~gw[op.turn].known /\ CallOK(mem, op)
  BY <1>1 DEF TurnInv, OpOK
<1>5. TrafficOK(gw', wire' \cup stray', used', live')
  BY <1>1, <1>2, <1>3, <1>4 DEF TrafficOK
<1>6. /\ op'.kind = "sent" /\ op'.turn = op.turn /\ op'.reply = NoReply
      /\ op' = Sent(op'.turn, op'.reply)
  BY <1>1 DEF Sent
<1>7. OpOK(gw', wire' \cup stray', used', mem', op')
  BY <1>1, <1>4, <1>6 DEF OpOK, CallOK, ReplyOK
<1>8. SeverOK(mem', sock', op') /\ QuietOK(sock', op', poison')
  BY <1>1, <1>2, <1>3, <1>6 DEF SeverOK, QuietOK, PoisonType
<1> QED  BY <1>1, <1>2, <1>5, <1>7, <1>8 DEF TurnInv

LEMMA AboutIs ==
  ASSUME NEW G, NEW U, NEW t, NEW kind
  PROVE  ContextOK(G, U, t, About(kind)) /\ About(kind).mode \in Modes
BY DEF ContextOK, About, Modes, TodoOK

LEMMA SendBrokenKeeps == ASSUME TurnInv, SendBroken  PROVE  TurnInv'
BY AboutIs, FailConcludes DEF SendBroken

LEMMA AckMismatchedKeeps == ASSUME TurnInv, AckMismatched  PROVE  TurnInv'
BY AboutIs, FailConcludes DEF AckMismatched

LEMMA AcknowledgedKeeps == ASSUME TurnInv, Acknowledged  PROVE  TurnInv'
<1> DEFINE t == op.turn
           s == ApplyAck(mem.states[t], op.reply)
           next == IF MustReconcile(s)
                   THEN Reconciling(t, s.lastSeq, 0, About("submit")) ELSE Idle
<1>1. /\ op.kind = "sent" /\ op.reply.kind = "ack" /\ UNCHANGED world
      /\ Conclude(t, s, About("submit"), subs, next)
  BY DEF Acknowledged
<1>2. /\ t \in used /\ StateOK(gw[t], mem.states[t]) /\ LedgerOK(gw[t])
  BY <1>1, CallFacts
<1>3. /\ gw[t].known /\ op.reply.lastSeq \in 0..Len(gw[t].log)
      /\ op.reply.status = StatusAt(gw[t].log, op.reply.lastSeq)
  <2>1. ReplyOK(gw, wire \cup stray, t, op.reply)
    BY <1>1 DEF TurnInv, OpOK
  <2>2. NoReply.kind = "none" /\ Rejection.kind = "rejected"
    BY DEF NoReply, Rejection
  <2> QED  BY <1>1, <2>1, <2>2 DEF ReplyOK
<1>4. StateOK(gw[t], s)
  BY <1>2, <1>3, AckKeeps
<1>5. s.lastSeq \in 0..Len(gw[t].log) /\ 0 \in 0..Len(gw[t].log)
  <2>1. s.lastSeq \in Nat /\ s.lastSeq <= Len(gw[t].log)
    BY <1>4, StateFields DEF StateOK, ReducerOK, Mirrors
  <2>2. Len(gw[t].log) \in Nat
    BY <1>2 DEF LedgerOK
  <2> HIDE DEF s, t
  <2> QED  BY <2>1, <2>2
<1>6. subs \in SUBSET Turn
  BY DEF TurnInv
<1> HIDE DEF s, t
<1>7. ASSUME NEW m, ~FailClosed(s),
             Unsettled(s) => t \in DOMAIN m.states /\ m.states[t] = s
      PROVE  OpOK(gw, wire \cup stray, used, m, next)
  <2>1. CASE MustReconcile(s)
    <3>1. t \in DOMAIN m.states /\ MustReconcile(m.states[t])
      BY <1>4, <1>7, <2>1, DoneIs
    <3>2. ContextOK(gw, used, t, About("submit"))
      BY AboutIs
    <3>3. OpOK(gw, wire \cup stray, used, m,
               Reconciling(t, s.lastSeq, 0, About("submit")))
      BY <1>5, <3>1, <3>2, ReconcilingIs
    <3> QED  BY <2>1, <3>3
  <2>2. CASE ~MustReconcile(s)
    BY <2>2 DEF OpOK, CallOK, Idle
  <2> QED  BY <2>1, <2>2
<1>8. next.kind # "sever"
  BY DEF Reconciling, Idle
<1> HIDE DEF next
<1> QED  BY <1>1, <1>2, <1>4, <1>6, <1>7, <1>8, AboutIs, ConcludeKeeps

\* The ledger is asked about the turn, if there is a connection.
LEMMA AsksKeeps ==
  ASSUME TurnInv, op.kind \in {"sent", "interrupting"}, NEW kind,
         gw' = [u \in Turn |-> gw'[u]],
         Grows(gw, wire \cup stray, gw', wire \cup stray),
         TrafficOK(gw', wire \cup stray, used, live),
         op' = IF Connected
               THEN Reconciling(op.turn, mem.states[op.turn].lastSeq, 0, About(kind))
               ELSE Idle,
         UNCHANGED <<connection, mem, db, poison, now, used>>,
         faults' \in 0..MaxFaults
  PROVE  TurnInv'
<1> DEFINE t == op.turn
<1>1. /\ wire' = wire /\ stray' = stray /\ live' = live /\ sock' = sock
      /\ subs' = subs /\ mem' = mem /\ db' = db /\ poison' = poison
      /\ now' = now /\ used' = used
  BY DEF connection, connectionVars
<1>2. /\ used \subseteq Turn /\ subs \subseteq Turn
      /\ sock \in {"down", "up", "lost"} /\ now \in 1..MaxTime
      /\ poison \in PoisonType
      /\ \A u \in DOMAIN mem.states : Unsettled(mem.states[u])
  BY DEF TurnInv, TrafficOK, SeverOK, QuietOK, PoisonType
<1>3. /\ t \in used /\ t \in Turn /\ t \in DOMAIN mem.states
      /\ MustReconcile(mem.states[t]) /\ ~Poisoned(poison, Chat)
  BY CallFacts
<1>4. JournalOK(gw', used, db) /\ MemoryOK(gw', used, mem)
  BY <1>2, JournalStays, MemoryStays DEF TurnInv
<1>5. \A u \in Turn : LedgerOK(gw'[u])
  BY DEF Grows
<1>6. /\ op'.kind \in {"idle", "reconcile"}
      /\ OpOK(gw', wire \cup stray, used, mem, op')
  <2>1. CASE Connected
    <3> DEFINE o == Reconciling(t, mem.states[t].lastSeq, 0, About(kind))
    <3>1. StateOK(gw'[t], mem.states[t])
      BY <1>3, <1>4 DEF MemoryOK
    <3>2. /\ mem.states[t].lastSeq \in 0..Len(gw'[t].log)
          /\ 0 \in 0..Len(gw'[t].log)
      <4>1. /\ mem.states[t].lastSeq \in Nat
            /\ mem.states[t].lastSeq <= Len(gw'[t].log)
        BY <3>1, StateFields DEF StateOK, ReducerOK, Mirrors
      <4>2. Len(gw'[t].log) \in Nat
        BY <1>3, <1>5 DEF LedgerOK
      <4> HIDE DEF t
      <4> QED  BY <4>1, <4>2
    <3>3. ContextOK(gw', used, t, About(kind))
      BY AboutIs
    <3> HIDE DEF t
    <3>4. o.kind = "reconcile" /\ OpOK(gw', wire \cup stray, used, mem, o)
      BY <1>3, <3>2, <3>3, ReconcilingIs
    <3>5. op' = o
      BY <2>1 DEF t
    <3> HIDE DEF o
    <3> QED  BY <3>4, <3>5
  <2>2. CASE ~Connected
    <3>1. op' = Idle /\ Idle.kind = "idle"
      BY <2>2 DEF Idle
    <3> QED  BY <3>1 DEF OpOK, CallOK
  <2> QED  BY <2>1, <2>2
<1>7. SeverOK(mem', sock', op') /\ QuietOK(sock', op', poison')
  BY <1>1, <1>2, <1>3, <1>6 DEF SeverOK, QuietOK, PoisonType
<1> QED  BY <1>1, <1>2, <1>4, <1>5, <1>6, <1>7 DEF TurnInv

LEMMA NothingGrows ==
  ASSUME TurnInv, gw' = gw
  PROVE  /\ gw' = [u \in Turn |-> gw'[u]]
         /\ Grows(gw, wire \cup stray, gw', wire \cup stray)
         /\ TrafficOK(gw', wire \cup stray, used, live)
BY ExtendsSelf DEF TurnInv, Grows

LEMMA AckMissingKeeps == ASSUME TurnInv, AckMissing  PROVE  TurnInv'
<1>1. /\ op.kind = "sent"
      /\ op' = IF Connected
               THEN Reconciling(op.turn, mem.states[op.turn].lastSeq, 0,
                                About("submit"))
               ELSE Idle
      /\ UNCHANGED <<world, connection, mem, db, poison>>
      /\ UNCHANGED faults \/ Fails("timeout")
  BY DEF AckMissing
<1>2. gw' = gw /\ UNCHANGED <<connection, mem, db, poison, now, used>>
  BY <1>1 DEF world
<1>3. faults' \in 0..MaxFaults
  BY <1>1, FailsIs DEF TurnInv
<1> QED  BY <1>1, <1>2, <1>3, NothingGrows, AsksKeeps

LEMMA RejectedKeeps == ASSUME TurnInv, Rejected  PROVE  TurnInv'
<1> DEFINE t == op.turn
           s == Fail(mem.states[t], "protocolViolation")
<1>1. op.kind = "sent" /\ UNCHANGED world
  BY DEF Rejected
<1>2. PICK removed \in BOOLEAN :
        /\ Removal(t, removed)
        /\ IF removed
           THEN /\ mem' = Discarded(mem, t)
                /\ op' = Idle
                /\ UNCHANGED <<connection, poison>>
           ELSE /\ mem' = Remember(mem, t, s)
                /\ poison' = RecordPoison(poison, Chat)
                /\ Disconnect
                /\ op' = Severing(mem', {}, {}, "never")
  BY DEF Rejected
<1>3. /\ gw' = gw /\ used' = used /\ now' \in 1..MaxTime
      /\ subs \subseteq Turn /\ sock \in {"down", "up", "lost"}
      /\ poison \in PoisonType /\ MemoryOK(gw, used, mem) /\ used \subseteq Turn
      /\ TrafficOK(gw, wire \cup stray, used, live)
  BY <1>1, StillSo
<1>4. /\ t \in used /\ ~Poisoned(poison, Chat) /\ StateOK(gw[t], mem.states[t])
  BY <1>1, CallFacts
<1>5. JournalOK(gw, used, db') /\ faults' \in 0..MaxFaults
  BY <1>2, RemovalKeeps
<1>6. CASE removed
  <2>1. /\ MemoryOK(gw, used, mem')
        /\ \A u \in DOMAIN mem'.states : Unsettled(mem'.states[u])
    BY <1>1, <1>2, <1>4, <1>6, DiscardedOpen
  <2>2. /\ wire' = wire /\ stray' = stray /\ live' = live /\ sock' = sock
        /\ subs' = subs /\ poison' = poison /\ op' = Idle
    BY <1>2, <1>6 DEF connection, connectionVars
  <2> QED  BY <1>3, <1>4, <1>5, <2>1, <2>2, IdleAgain
<1>7. CASE ~removed
  <2>1. StateOK(gw[t], s)
    <3>1. "protocolViolation" \in Failure
      BY DEF Failure
    <3> QED  BY <1>4, <3>1, FailKeeps DEF StateOK
  <2> HIDE DEF s, t
  <2>2. MemoryOK(gw, used, Remember(mem, t, s))
    BY <1>3, <1>4, <2>1, RememberKeeps
  <2>3. /\ mem' = Remember(mem, t, s) /\ Disconnect
        /\ op' = Severing(mem', {}, {}, "never")
        /\ poison' \in PoisonType
    BY <1>2, <1>3, <1>7, PoisonIs
  <2> QED  BY <1>3, <1>5, <2>2, <2>3, GivenUp
<1> QED  BY <1>6, <1>7

-----------------------------------------------------------------------------
(* turn.interrupt *)

LEMMA InterruptBeginKeeps ==
  ASSUME TurnInv, NEW t \in Turn, InterruptBegin(t)
  PROVE  TurnInv'
<1> DEFINE s == MarkUncertain(mem.states[t])
<1>1. /\ Operational /\ t \in DOMAIN mem.states /\ Unsettled(mem.states[t])
      /\ UNCHANGED <<world, connection>>
  BY DEF InterruptBegin, Active
<1>2. PICK w \in Writes(t, s) :
        Persist(t, s, w) /\ op' = IF w.ok THEN Interrupting(t) ELSE Idle
  BY DEF InterruptBegin
<1>3. /\ gw' = gw /\ used' = used /\ now' \in 1..MaxTime
      /\ gw' = [u \in Turn |-> gw'[u]] /\ \A u \in Turn : LedgerOK(gw'[u])
      /\ subs \subseteq Turn /\ sock \in {"down", "up", "lost"}
      /\ MemoryOK(gw, used, mem) /\ TrafficOK(gw, wire \cup stray, used, live)
  BY <1>1, StillSo
<1>4. ~Poisoned(poison, Chat) /\ op.kind # "sever"
  BY <1>1 DEF Operational, Idle
<1>5. t \in used /\ StateOK(gw[t], mem.states[t])
  BY <1>1, <1>3 DEF MemoryOK
<1>6. StateOK(gw[t], s) /\ Unsettled(s) /\ MustReconcile(s)
  BY <1>1, <1>5, MarkKeeps
<1> HIDE DEF s
<1>7. /\ faults' \in 0..MaxFaults /\ w.ok \in BOOLEAN
      /\ JournalOK(gw, used, db') /\ MemoryOK(gw, used, mem')
      /\ t \in DOMAIN mem'.states /\ mem'.states[t] = s
      /\ poison' \in PoisonType /\ ~Poisoned(poison', Chat)
  BY <1>2, <1>4, <1>5, <1>6, PersistKeeps, DoneIs DEF Unsettled
<1>8. \A u \in DOMAIN mem'.states : Unsettled(mem'.states[u])
  BY <1>2, <1>4, <1>5, <1>6, PersistOpen
<1>9. /\ wire' = wire /\ stray' = stray /\ live' = live /\ sock' = sock
      /\ subs' = subs
  BY <1>1 DEF connection, connectionVars
<1>10. CASE w.ok
  <2>1. /\ op'.kind = "interrupting" /\ op'.turn = t
        /\ op' = Interrupting(op'.turn)
    BY <1>2, <1>10 DEF Interrupting
  <2>2. OpOK(gw', wire' \cup stray', used', mem', op')
    BY <1>6, <1>7, <2>1 DEF OpOK, CallOK
  <2>3. SeverOK(mem', sock', op') /\ QuietOK(sock', op', poison')
    BY <1>7, <1>8, <2>1 DEF SeverOK, QuietOK, PoisonType
  <2> QED  BY <1>3, <1>7, <1>9, <2>2, <2>3 DEF TurnInv
<1>11. CASE ~w.ok
  <2>1. op' = Idle
    BY <1>2, <1>11
  <2> QED  BY <1>3, <1>7, <1>8, <1>9, <2>1, IdleAgain
<1> QED  BY <1>7, <1>10, <1>11

LEMMA InterruptAskedKeeps == ASSUME TurnInv, InterruptAsked  PROVE  TurnInv'
<1> DEFINE t == op.turn
<1>1. /\ op.kind = "interrupting"
      /\ op' = IF Connected
               THEN Reconciling(t, mem.states[t].lastSeq, 0, About("interrupt"))
               ELSE Idle
      /\ UNCHANGED <<connection, mem, db, poison, now, used>>
      /\ gw' = gw \/ gw' = [gw EXCEPT ![t] = Interrupted(gw[t])]
      /\ UNCHANGED faults \/ Fails("timeout")
  <2>1. \/ UNCHANGED faults /\ gw' = [gw EXCEPT ![t] = Interrupted(@)]
        \/ Fails("timeout") /\ gw' \in {gw, [gw EXCEPT ![t] = Interrupted(@)]}
        \/ UNCHANGED faults /\ gw' \in {gw, [gw EXCEPT ![t] = Interrupted(@)]}
    BY DEF InterruptAsked
  <2> QED  BY <2>1 DEF InterruptAsked
<1>2. t \in Turn /\ LedgerOK(gw[t])
  BY <1>1, CallFacts
<1>3. faults' \in 0..MaxFaults
  BY <1>1, FailsIs DEF TurnInv
<1>4. /\ gw' = [u \in Turn |-> gw'[u]]
      /\ Grows(gw, wire \cup stray, gw', wire \cup stray)
      /\ TrafficOK(gw', wire \cup stray, used, live)
  <2>1. CASE gw' = gw
    BY <2>1, NothingGrows
  <2>2. CASE gw' = [gw EXCEPT ![t] = Interrupted(gw[t])]
    <3>1. /\ LedgerOK(Interrupted(gw[t])) /\ Extends(gw[t], Interrupted(gw[t]))
          /\ Interrupted(gw[t]).known = gw[t].known
      BY <1>2, InterruptedGrows
    <3> HIDE DEF t
    <3> QED  BY <1>2, <2>2, <3>1, TurnGoesOn
  <2> QED  BY <1>1, <2>1, <2>2
<1> QED  BY <1>1, <1>3, <1>4, AsksKeeps

-----------------------------------------------------------------------------
(* Live events *)

LEMMA HeadShown ==
  ASSUME TurnInv, live # <<>>
  PROVE  LET t == Head(live).turn
             event == Head(live).event
         IN /\ t \in Turn /\ gw[t].known /\ LedgerOK(gw[t])
            /\ event \in Event(MaxLog)
            /\ event.seq <= Len(gw[t].log) /\ event = gw[t].log[event.seq]
<1>1. TrafficOK(gw, wire \cup stray, used, live) /\ \A t \in Turn : LedgerOK(gw[t])
  BY DEF TurnInv
<1>2. 1 \in 1..Len(live) /\ Head(live) = live[1]
  <2> DEFINE F == [turn : Turn, event : Event(MaxLog)]
  <2>1. live \in Seq(F)
    BY <1>1 DEF TrafficOK
  <2> HIDE DEF F
  <2> QED  BY <2>1
<1>3. live[1] \in [turn : Turn, event : Event(MaxLog)] /\ Shows(gw, live[1])
  BY <1>1, <1>2, FrameShown
<1> QED  BY <1>1, <1>2, <1>3 DEF Shows

LEMMA NextFrame ==
  ASSUME NEW G, NEW W, NEW U, NEW L, TrafficOK(G, W, U, L), L # <<>>
  PROVE  TrafficOK(G, W, U, Tail(L))
<1> DEFINE F == [turn : Turn, event : Event(MaxLog)]
           T == Tail(L)
<1>1. L \in Seq(F) /\ Len(L) \in Nat /\ MaxLive \in Nat /\ Len(L) <= MaxLive
  BY TurnAssumption DEF TrafficOK
<1> HIDE DEF F
<1>2. /\ T \in Seq(F) /\ Len(T) = Len(L) - 1 /\ Len(T) \in Nat
      /\ \A i \in 1..Len(T) : T[i] = L[i + 1] /\ i + 1 \in 1..Len(L)
  BY <1>1
<1> HIDE DEF T
<1>3. \A i \in 1..Len(T) : Shows(G, T[i])
  BY <1>2 DEF TrafficOK
<1>4. Len(T) <= MaxLive
  BY <1>1, <1>2
<1>5. TrafficOK(G, W, U, T)
  BY <1>2, <1>3, <1>4 DEF TrafficOK, F
<1> QED  BY <1>5 DEF T

LEMMA LiveAppliedKeeps == ASSUME TurnInv, LiveApplied  PROVE  TurnInv'
<1> DEFINE t == Head(live).turn
           event == Head(live).event
           s == ApplyEvent(mem.states[t], event)
<1>1. /\ op = Idle /\ live # <<>> /\ sock # "down" /\ t \in DOMAIN mem.states
      /\ UNCHANGED world
  BY DEF LiveApplied, Active
<1>2. PICK w \in Writes(t, s) :
        /\ Persist(t, s, w)
        /\ IF ~w.ok \/ FailClosed(s)
           THEN CloseAfter(t, s, "never")
           ELSE /\ live' = Tail(live)
                /\ op' = IF MustReconcile(s)
                         THEN Reconciling(t, s.lastSeq, 0, About("live"))
                         ELSE Idle
                /\ UNCHANGED <<wire, subs, sock, stray>>
  BY DEF LiveApplied
<1>3. /\ gw' = gw /\ used' = used /\ now' \in 1..MaxTime
      /\ gw' = [u \in Turn |-> gw'[u]] /\ \A u \in Turn : LedgerOK(gw'[u])
      /\ subs \subseteq Turn /\ sock \in {"down", "up", "lost"}
      /\ MemoryOK(gw, used, mem) /\ TrafficOK(gw, wire \cup stray, used, live)
  BY <1>1, StillSo
<1>4. op.kind = "idle" /\ ~Poisoned(poison, Chat)
  BY <1>1 DEF Idle, TurnInv, QuietOK
<1>5. t \in used /\ StateOK(gw[t], mem.states[t])
  BY <1>1, <1>3 DEF MemoryOK
<1>6. /\ gw[t].known /\ LedgerOK(gw[t]) /\ event \in Event(MaxLog)
      /\ event.seq <= Len(gw[t].log) /\ event = gw[t].log[event.seq]
  BY <1>1, HeadShown
<1> HIDE DEF t, event
<1>7. StateOK(gw[t], s)
  BY <1>5, <1>6, EventKeeps DEF StateOK
<1> HIDE DEF s
<1>8. /\ w.ok \in BOOLEAN /\ faults' \in 0..MaxFaults
      /\ JournalOK(gw, used, db') /\ MemoryOK(gw, used, mem')
      /\ w.ok /\ Done(s) => t \notin DOMAIN mem'.states /\ t \in DOMAIN mem'.tombs
      /\ ~(w.ok /\ Done(s)) => t \in DOMAIN mem'.states /\ mem'.states[t] = s
      /\ poison' \in PoisonType
      /\ Poisoned(poison', Chat) <=> Poisoned(poison, Chat) \/ (~w.ok /\ FailClosed(s))
  BY <1>2, <1>5, <1>7, PersistKeeps
<1>9. CASE ~w.ok \/ FailClosed(s)
  <2> DEFINE again == IF Done(s) THEN {t} ELSE {}
  <2>1. Disconnect /\ op' = Severing(mem', {t}, again, "never")
    BY <1>2, <1>9 DEF CloseAfter
  <2>2. again \subseteq DOMAIN mem'.states \cup DOMAIN mem'.tombs
    BY <1>8
  <2> HIDE DEF again
  <2> QED  BY <1>3, <1>8, <2>1, <2>2, GivenUp
<1>10. CASE w.ok /\ ~FailClosed(s)
  <2>1. /\ live' = Tail(live)
        /\ op' = IF MustReconcile(s)
                 THEN Reconciling(t, s.lastSeq, 0, About("live")) ELSE Idle
        /\ wire' = wire /\ subs' = subs /\ sock' = sock /\ stray' = stray
    BY <1>2, <1>10
  <2>2. TrafficOK(gw', wire' \cup stray', used', live')
    BY <1>1, <1>3, <2>1, NextFrame
  <2>3. \A u \in DOMAIN mem'.states : Unsettled(mem'.states[u])
    BY <1>2, <1>4, <1>5, <1>7, <1>10, PersistOpen
  <2>4. ~Poisoned(poison', Chat)
    BY <1>4, <1>8, <1>10
  <2>5. CASE MustReconcile(s)
    <3> DEFINE o == Reconciling(t, s.lastSeq, 0, About("live"))
    <3>1. t \in DOMAIN mem'.states /\ MustReconcile(mem'.states[t])
      BY <1>7, <1>8, <2>5, DoneIs
    <3>2. s.lastSeq \in 0..Len(gw[t].log) /\ 0 \in 0..Len(gw[t].log)
      <4>1. s.lastSeq \in Nat /\ s.lastSeq <= Len(gw[t].log)
        BY <1>7, StateFields DEF StateOK, ReducerOK, Mirrors
      <4>2. Len(gw[t].log) \in Nat
        BY <1>6 DEF LedgerOK
      <4> QED  BY <4>1, <4>2
    <3>3. ContextOK(gw, used, t, About("live"))
      BY AboutIs
    <3>4. o.kind = "reconcile" /\ OpOK(gw, wire \cup stray, used, mem', o)
      BY <3>1, <3>2, <3>3, ReconcilingIs
    <3>5. op' = o
      BY <2>1, <2>5
    <3> HIDE DEF o
    <3>6. SeverOK(mem', sock', op') /\ QuietOK(sock', op', poison')
      BY <1>8, <2>3, <2>4, <3>4, <3>5 DEF SeverOK, QuietOK, PoisonType
    <3> QED  BY <1>3, <1>8, <2>1, <2>2, <3>4, <3>5, <3>6 DEF TurnInv
  <2>6. CASE ~MustReconcile(s)
    <3>1. op' = Idle
      BY <2>1, <2>6
    <3> QED  BY <1>3, <1>8, <2>1, <2>2, <2>3, <2>4, <3>1, IdleAgain
  <2> QED  BY <2>5, <2>6
<1> QED  BY <1>8, <1>9, <1>10

\* A connection that is given up with nothing else to do.
LEMMA OnlyGivenUp ==
  ASSUME TurnInv, Disconnect, NEW bad, NEW release,
         op' = Severing(mem, bad, {}, release),
         UNCHANGED <<world, mem, db, poison, faults>>
  PROVE  TurnInv'
<1>1. /\ gw' = gw /\ used' = used /\ now' \in 1..MaxTime
      /\ faults' \in 0..MaxFaults /\ poison' \in PoisonType
      /\ JournalOK(gw, used, db') /\ MemoryOK(gw, used, mem')
  BY StillSo
<1>2. op' = Severing(mem', bad, {}, release)
  OBVIOUS
<1> QED  BY <1>1, <1>2, GivenUp

LEMMA SocketActionsKeep ==
  ASSUME TurnInv, LiveRefused \/ LiveGarbled \/ TransportLost \/ Close
  PROVE  TurnInv'
<1>1. CASE LiveRefused
  BY <1>1, OnlyGivenUp DEF LiveRefused
<1>2. CASE LiveGarbled
  BY <1>2, OnlyGivenUp DEF LiveGarbled
<1>3. CASE TransportLost
  BY <1>3, OnlyGivenUp DEF TransportLost
<1>4. CASE Close
  BY <1>4, OnlyGivenUp DEF Close
<1> QED  BY <1>1, <1>2, <1>3, <1>4

-----------------------------------------------------------------------------
(* The turns of a connection that is given up *)

LEMMA SeverFacts ==
  ASSUME TurnInv, op.kind = "sever"
  PROVE  /\ op = [kind |-> "sever", bad |-> op.bad, rest |-> op.rest,
                  again |-> op.again, release |-> op.release]
         /\ sock = "down"
         /\ \A t \in op.bad \cup op.rest :
              t \in DOMAIN mem.states /\ Unsettled(mem.states[t])
         /\ op.bad \cap op.rest = {}
         /\ op.again \subseteq DOMAIN mem.states \cup DOMAIN mem.tombs
BY DEF TurnInv, SeverOK

\* A step for turn t of a connection that is being given up.
LEMMA SeverGoesOn ==
  ASSUME TurnInv, op.kind = "sever", UNCHANGED <<world, connection>>,
         faults' \in 0..MaxFaults, poison' \in PoisonType,
         JournalOK(gw, used, db'), MemoryOK(gw, used, mem'),
         NEW t \in Turn, OnlyTurn(mem, mem', t),
         t \in DOMAIN mem'.states \cup DOMAIN mem'.tombs,
         NEW bad, NEW rest, bad \subseteq op.bad \ {t}, rest \subseteq op.rest \ {t},
         op' = [kind |-> "sever", bad |-> bad, rest |-> rest,
                again |-> op.again, release |-> op.release]
  PROVE  TurnInv'
<1>1. /\ gw' = gw /\ used' = used /\ now' \in 1..MaxTime
      /\ gw' = [u \in Turn |-> gw'[u]] /\ \A u \in Turn : LedgerOK(gw'[u])
      /\ subs \subseteq Turn /\ MemoryOK(gw, used, mem) /\ used \subseteq Turn
      /\ TrafficOK(gw, wire \cup stray, used, live)
  BY StillSo
<1>2. /\ wire' = wire /\ stray' = stray /\ live' = live /\ sock' = sock
      /\ subs' = subs
  BY DEF connection, connectionVars
<1>3. /\ op'.kind = "sever" /\ op'.bad = bad /\ op'.rest = rest
      /\ op'.again = op.again
      /\ op' = [kind |-> "sever", bad |-> op'.bad, rest |-> op'.rest,
                again |-> op'.again, release |-> op'.release]
  OBVIOUS
<1>4. OpOK(gw', wire' \cup stray', used', mem', op')
  BY <1>3 DEF OpOK, CallOK
<1>5. /\ sock = "down"
      /\ \A u \in op.bad \cup op.rest :
           u \in DOMAIN mem.states /\ Unsettled(mem.states[u])
      /\ op.bad \cap op.rest = {}
      /\ op.again \subseteq DOMAIN mem.states \cup DOMAIN mem.tombs
  BY SeverFacts
<1>6. DOMAIN mem.states \cup DOMAIN mem.tombs \subseteq Turn
  BY <1>1 DEF MemoryOK
<1>7. \A u \in bad \cup rest : u \in DOMAIN mem'.states /\ Unsettled(mem'.states[u])
  BY <1>5, <1>6 DEF OnlyTurn
<1>8. op.again \subseteq DOMAIN mem'.states \cup DOMAIN mem'.tombs
  BY <1>5, <1>6 DEF OnlyTurn
<1>9. SeverOK(mem', sock', op')
  BY <1>2, <1>3, <1>5, <1>7, <1>8 DEF SeverOK
<1>10. QuietOK(sock', op', poison')
  BY <1>2, <1>3, <1>5 DEF QuietOK, PoisonType
<1> QED  BY <1>1, <1>2, <1>4, <1>9, <1>10 DEF TurnInv

LEMMA QuarantineKeeps ==
  ASSUME TurnInv, NEW t, QuarantineStep(t)
  PROVE  TurnInv'
<1> DEFINE s == Fail(mem.states[t], "protocolViolation")
           m == [mem EXCEPT !.states[t] = s]
<1>1. /\ op.kind = "sever" /\ t \in op.bad
      /\ op' = [op EXCEPT !.bad = @ \ {t}]
      /\ UNCHANGED <<world, connection>>
  BY DEF QuarantineStep
<1>2. PICK w \in Writes(t, s) :
        /\ db' = w.db
        /\ faults' = faults + w.cost
        /\ poison' = IF w.ok THEN poison ELSE RecordPoison(poison, Chat)
        /\ mem' = Settle(IF w.ok THEN Settle(m, t, s) ELSE m, t, s)
  BY DEF QuarantineStep
<1>3. /\ poison \in PoisonType /\ used \subseteq Turn
      /\ MemoryOK(gw, used, mem)
  BY <1>1, StillSo
<1>4. t \in DOMAIN mem.states
  BY <1>1, SeverFacts
<1>5. t \in used /\ t \in Turn /\ StateOK(gw[t], mem.states[t])
  BY <1>3, <1>4 DEF MemoryOK
<1>6. StateOK(gw[t], s) /\ ReducerOK(gw[t], s)
  <2>1. "protocolViolation" \in Failure
    BY DEF Failure
  <2> QED  BY <1>5, <2>1, FailKeeps DEF StateOK
<1> HIDE DEF s
<1>7. /\ m = [states |-> m.states, tombs |-> m.tombs, floors |-> m.floors,
              settles |-> m.settles]
      /\ DOMAIN m.states = DOMAIN mem.states /\ m.states[t] = s
      /\ \A u \in DOMAIN mem.states : u # t => m.states[u] = mem.states[u]
      /\ m.tombs = mem.tombs /\ m.floors = mem.floors
  BY <1>3, <1>4 DEF MemoryOK
<1> HIDE DEF m
<1>8. MemoryOK(gw, used, m) /\ OnlyTurn(mem, m, t)
  BY <1>3, <1>6, <1>7 DEF MemoryOK, OnlyTurn
<1>9. /\ MemoryOK(gw, used, Settle(m, t, s)) /\ OnlyTurn(m, Settle(m, t, s), t)
  BY <1>3, <1>5, <1>6, <1>8, SettleKeeps
<1> DEFINE n == IF w.ok THEN Settle(m, t, s) ELSE m
<1>10. MemoryOK(gw, used, n) /\ OnlyTurn(mem, n, t)
  BY <1>8, <1>9 DEF OnlyTurn
<1>11. mem' = Settle(n, t, s)
  BY <1>2
<1> HIDE DEF n
<1>12. /\ MemoryOK(gw, used, mem') /\ OnlyTurn(n, mem', t)
       /\ t \in DOMAIN mem'.tombs
  BY <1>3, <1>5, <1>6, <1>10, <1>11, SettleKeeps
<1>13. OnlyTurn(mem, mem', t)
  BY <1>10, <1>12 DEF OnlyTurn
<1>14. /\ JournalOK(gw, used, db') /\ faults' \in 0..MaxFaults
       /\ poison' \in PoisonType
  BY <1>2, <1>3, <1>5, <1>6, WriteKeeps, WritesAre, PoisonIs
<1>15. op' = [kind |-> "sever", bad |-> op.bad \ {t}, rest |-> op.rest,
              again |-> op.again, release |-> op.release]
  BY <1>1, SeverFacts
<1>16. op.rest \subseteq op.rest \ {t}
  BY <1>1, SeverFacts
<1> QED  BY <1>1, <1>5, <1>12, <1>13, <1>14, <1>15, <1>16, SeverGoesOn

LEMMA UncertainKeeps ==
  ASSUME TurnInv, NEW t, UncertainStep(t)
  PROVE  TurnInv'
<1> DEFINE s == MarkUncertain(mem.states[t])
<1>1. /\ op.kind = "sever" /\ op.bad = {} /\ t \in op.rest
      /\ op' = [op EXCEPT !.rest = @ \ {t}]
      /\ UNCHANGED <<world, connection>>
      /\ IF s = mem.states[t]
         THEN UNCHANGED <<mem, db, poison, faults>>
         ELSE \E w \in Writes(t, s) : Persist(t, s, w)
  BY DEF UncertainStep
<1>2. /\ poison \in PoisonType /\ used \subseteq Turn /\ faults \in 0..MaxFaults
      /\ MemoryOK(gw, used, mem) /\ JournalOK(gw, used, db)
  BY <1>1, StillSo
<1>3. t \in DOMAIN mem.states /\ Unsettled(mem.states[t])
  BY <1>1, SeverFacts
<1>4. t \in used /\ t \in Turn /\ StateOK(gw[t], mem.states[t])
  BY <1>2, <1>3 DEF MemoryOK
<1>5. StateOK(gw[t], s)
  BY <1>4, MarkKeeps
<1>6. /\ MemoryOK(gw, used, mem') /\ OnlyTurn(mem, mem', t)
      /\ t \in DOMAIN mem'.states \cup DOMAIN mem'.tombs
      /\ JournalOK(gw, used, db') /\ faults' \in 0..MaxFaults
      /\ poison' \in PoisonType
  <2>1. CASE s = mem.states[t]
    <3>1. mem' = mem /\ db' = db /\ poison' = poison /\ faults' = faults
      BY <1>1, <2>1
    <3> QED  BY <1>2, <1>3, <3>1 DEF OnlyTurn
  <2>2. CASE s # mem.states[t]
    <3>1. PICK w \in Writes(t, s) : Persist(t, s, w)
      BY <1>1, <2>2
    <3> HIDE DEF s
    <3> QED  BY <1>4, <1>5, <3>1, PersistKeeps
  <2> QED  BY <2>1, <2>2
<1> DEFINE bad == op.bad \ {t}
           rest == op.rest \ {t}
<1>7. op' = [kind |-> "sever", bad |-> bad, rest |-> rest,
             again |-> op.again, release |-> op.release]
  BY <1>1, SeverFacts
<1>8. op.kind = "sever" /\ UNCHANGED <<world, connection>>
  BY <1>1
<1>9. bad \subseteq op.bad \ {t} /\ rest \subseteq op.rest \ {t}
  OBVIOUS
<1> HIDE DEF s, bad, rest
<1> QED  BY <1>4, <1>6, <1>7, <1>8, <1>9, SeverGoesOn

LEMMA SeveredKeeps == ASSUME TurnInv, Severed  PROVE  TurnInv'
<1> DEFINE over == {t \in Active : ~Unsettled(mem.states[t])}
           m == SettleEach(mem, over)
           n == SettleEach(m, op.again)
<1>1. /\ op.kind = "sever" /\ op' = Idle
      /\ mem' = NoMemory \/ mem' = n
      /\ UNCHANGED <<world, connection, db, poison, faults>>
  BY DEF Severed
<1>2. /\ gw' = gw /\ used' = used /\ now' \in 1..MaxTime
      /\ subs \subseteq Turn /\ faults \in 0..MaxFaults /\ poison \in PoisonType
      /\ MemoryOK(gw, used, mem) /\ JournalOK(gw, used, db)
      /\ TrafficOK(gw, wire \cup stray, used, live)
  BY <1>1, StillSo
<1>3. sock = "down" /\ op.again \subseteq DOMAIN mem.states \cup DOMAIN mem.tombs
  BY <1>1, SeverFacts
<1>4. /\ MemoryOK(gw, used, m)
      /\ DOMAIN m.states = DOMAIN mem.states \ over
      /\ \A u \in DOMAIN m.states : m.states[u] = mem.states[u]
      /\ DOMAIN m.tombs = DOMAIN mem.tombs \cup over
  <2>1. over \subseteq DOMAIN mem.states \cup DOMAIN mem.tombs
    BY DEF Active
  <2> HIDE DEF over
  <2> QED  BY <1>2, <2>1, SettleEachKeeps
<1>5. over \subseteq DOMAIN mem.states
  BY DEF Active
<1> HIDE DEF m
<1>6. /\ MemoryOK(gw, used, n)
      /\ DOMAIN n.states = DOMAIN m.states \ op.again
      /\ \A u \in DOMAIN n.states : n.states[u] = m.states[u]
  <2>1. op.again \subseteq DOMAIN m.states \cup DOMAIN m.tombs
    BY <1>3, <1>4, <1>5
  <2> QED  BY <1>4, <2>1, SettleEachKeeps
<1>7. \A u \in DOMAIN n.states : Unsettled(n.states[u])
  BY <1>4, <1>6 DEF Active
<1> HIDE DEF n
<1>8. /\ MemoryOK(gw, used, mem')
      /\ \A u \in DOMAIN mem'.states : Unsettled(mem'.states[u])
  BY <1>1, <1>6, <1>7, NoMemoryKeeps
<1>9. /\ wire' = wire /\ stray' = stray /\ live' = live /\ sock' = sock
      /\ subs' = subs /\ db' = db /\ poison' = poison /\ faults' = faults
  BY <1>1 DEF connection, connectionVars
<1> QED  BY <1>1, <1>2, <1>3, <1>8, <1>9, IdleAgain

-----------------------------------------------------------------------------
(* The world around the coordinator *)

LEMMA SocketClosesKeeps == ASSUME TurnInv, SocketCloses  PROVE  TurnInv'
<1>1. /\ sock = "up" /\ Fails("socket") /\ sock' = "lost" /\ wire' = {}
      /\ stray' = stray \cup wire /\ subs' = {}
      /\ UNCHANGED <<world, live, phoneVars>>
  BY DEF SocketCloses, Connected
<1>2. /\ mem' = mem /\ op' = op /\ db' = db /\ poison' = poison /\ live' = live
      /\ wire' \cup stray' = wire \cup stray
  BY <1>1 DEF phoneVars
<1>3. /\ gw' = gw /\ used' = used /\ now' \in 1..MaxTime
      /\ gw' = [u \in Turn |-> gw'[u]] /\ \A u \in Turn : LedgerOK(gw'[u])
      /\ JournalOK(gw, used, db) /\ MemoryOK(gw, used, mem)
      /\ TrafficOK(gw, wire \cup stray, used, live)
  BY <1>1, StillSo
<1>4. faults' \in 0..MaxFaults
  BY <1>1, FailsIs DEF TurnInv
<1>5. /\ OpOK(gw, wire \cup stray, used, mem, op) /\ SeverOK(mem, sock, op)
      /\ QuietOK(sock, op, poison)
  BY DEF TurnInv
<1>6. SeverOK(mem, "lost", op) /\ QuietOK("lost", op, poison)
  BY <1>1, <1>5 DEF SeverOK, QuietOK
<1> QED  BY <1>1, <1>2, <1>3, <1>4, <1>5, <1>6 DEF TurnInv

LEMMA CrashKeeps == ASSUME TurnInv, Crash  PROVE  TurnInv'
<1>1. /\ Fails("crash") /\ Disconnect /\ mem' = NoMemory /\ op' = Idle
      /\ poison' = NoPoison /\ UNCHANGED <<world, db>>
  BY DEF Crash
<1>2. /\ gw' = gw /\ used' = used /\ now' \in 1..MaxTime /\ JournalOK(gw, used, db)
  BY <1>1, StillSo
<1>3. faults' \in 0..MaxFaults
  BY <1>1, FailsIs DEF TurnInv
<1>4. /\ TrafficOK(gw', wire' \cup stray', used', live')
      /\ subs' \subseteq Turn /\ sock' = "down"
  BY <1>1, <1>2, DisconnectKeeps
<1>5. NoPoison \in PoisonType
  BY DEF NoPoison, PoisonType
<1> QED  BY <1>1, <1>2, <1>3, <1>4, <1>5, NoMemoryKeeps, IdleAgain

LEMMA ClockKeeps == ASSUME TurnInv, ClockChange  PROVE  TurnInv'
<1>1. /\ now' \in 1..MaxTime /\ gw' = gw /\ used' = used /\ stray' = stray
      /\ wire' = wire /\ subs' = subs /\ live' = live /\ sock' = sock
      /\ mem' = mem /\ op' = op /\ db' = db /\ poison' = poison /\ faults' = faults
  BY DEF ClockChange, connection, connectionVars, phoneVars
<1> QED  BY <1>1 DEF TurnInv

LEMMA StutterKeeps == ASSUME TurnInv, UNCHANGED vars  PROVE  TurnInv'
<1>1. /\ now' = now /\ gw' = gw /\ used' = used /\ stray' = stray
      /\ wire' = wire /\ subs' = subs /\ live' = live /\ sock' = sock
      /\ mem' = mem /\ op' = op /\ db' = db /\ poison' = poison /\ faults' = faults
  BY DEF vars, gatewayVars, connectionVars, phoneVars
<1> QED  BY <1>1 DEF TurnInv

-----------------------------------------------------------------------------
(* Every step *)

LEMMA GatewayKeeps == ASSUME TurnInv, GatewayStep  PROVE  TurnInv'
<1>1. PICK t \in Turn : Accept(t) \/ Refuse(t) \/ Progress(t) \/ Prune(t)
  BY DEF GatewayStep
<1> QED  BY <1>1, AcceptKeeps, RefuseKeeps, ProgressKeeps, PruneKeeps

LEMMA CoordinatorKeeps == ASSUME TurnInv, CoordinatorStep  PROVE  TurnInv'
<1>1. CASE \E mode \in {"ensure", "bare", "pending"} : Open(mode)
  BY <1>1, OpenStepKeeps DEF Modes
<1>2. CASE RecoverPending
  BY <1>2, RecoverPendingKeeps
<1>3. CASE Recover
  BY <1>3, RecoverStepKeeps DEF Recover
<1>4. CASE Reconcile
  BY <1>4, ReconcileAnsweredKeeps, ReconcileGarbledKeeps, ReconcileUnansweredKeeps
     DEF Reconcile
<1>5. CASE Submit
  <2>1. CASE \E t \in Turn : SubmitBegin(t)
    BY <2>1, SubmitBeginKeeps
  <2>2. CASE Revoke \/ Send \/ SendBroken
    BY <2>2, RevokeKeeps, SendKeeps, SendBrokenKeeps
  <2>3. CASE Acknowledged \/ AckMismatched \/ AckMissing \/ Rejected
    BY <2>3, AcknowledgedKeeps, AckMismatchedKeeps, AckMissingKeeps, RejectedKeeps
  <2> QED  BY <1>5, <2>1, <2>2, <2>3 DEF Submit
<1>6. CASE Interrupt
  BY <1>6, InterruptBeginKeeps, InterruptAskedKeeps DEF Interrupt
<1>7. CASE Live
  BY <1>7, LiveAppliedKeeps, SocketActionsKeep DEF Live
<1>8. CASE TransportLost \/ Close
  BY <1>8, SocketActionsKeep
<1>9. CASE Sever
  BY <1>9, SeveredKeeps, QuarantineKeeps, UncertainKeeps DEF Sever
<1> QED
  BY <1>1, <1>2, <1>3, <1>4, <1>5, <1>6, <1>7, <1>8, <1>9 DEF CoordinatorStep

LEMMA TurnStep == TurnInv /\ [Next]_vars => TurnInv'
<1> SUFFICES ASSUME TurnInv, [Next]_vars  PROVE TurnInv'
  OBVIOUS
<1>1. CASE GatewayStep
  BY <1>1, GatewayKeeps
<1>2. CASE CoordinatorStep
  BY <1>2, CoordinatorKeeps
<1>3. CASE SocketCloses \/ Crash \/ ClockChange
  BY <1>3, SocketClosesKeeps, CrashKeeps, ClockKeeps
<1>4. CASE UNCHANGED vars
  BY <1>4, StutterKeeps
<1> QED  BY <1>1, <1>2, <1>3, <1>4 DEF Next

\* Whatever breaks, crashes, comes late or is pruned, the parts of one chat
\* agree: what is in memory, in the journal and in the call at work is a true
\* account of a prefix of the gateway's log.
THEOREM PartsAgree == Spec => []TurnInv
<1>1. Init => TurnInv
  BY TurnInit
<1>2. TurnInv /\ [Next]_vars => TurnInv'
  BY TurnStep
<1> QED  BY <1>1, <1>2, PTL DEF Spec

\* The types of the whole state.
THEOREM Types == Spec => []TypeOK
<1>1. TurnInv => TypeOK
  <2> SUFFICES ASSUME TurnInv  PROVE TypeOK
    OBVIOUS
  <2>1. /\ \A t \in Turn : LedgerOK(gw[t])
        /\ TrafficOK(gw, wire \cup stray, used, live) /\ subs \subseteq Turn
        /\ JournalOK(gw, used, db) /\ MemoryOK(gw, used, mem)
    BY DEF TurnInv
  <2>2. ASSUME NEW t \in Turn
        PROVE  /\ gw[t].known \in BOOLEAN /\ Len(gw[t].log) <= MaxLog
               /\ \A i \in 1..Len(gw[t].log) :
                    gw[t].log[i] \in Event(MaxLog) /\ gw[t].log[i].seq = i
               /\ gw[t].first \in 1..(MaxLog + 1)
    <3> DEFINE E == Event(MaxLog)
    <3>1. /\ gw[t].log \in Seq(E) /\ gw[t].known \in BOOLEAN
          /\ gw[t].first \in 1..(MaxLog + 1)
      BY <2>1 DEF LedgerOK
    <3>2. /\ Len(gw[t].log) <= MaxLog
          /\ \A i \in 1..Len(gw[t].log) : gw[t].log[i].seq = i
      BY <2>1 DEF LedgerOK
    <3> HIDE DEF E
    <3>3. \A i \in 1..Len(gw[t].log) : gw[t].log[i] \in E
      BY <3>1
    <3> QED  BY <3>1, <3>2, <3>3 DEF E
  <2>3. /\ wire \cup stray \cup subs \cup used \subseteq Turn /\ Len(live) <= MaxLive
    BY <2>1 DEF TrafficOK
  <2>4. /\ \A t \in Active : t \in Turn /\ mem.states[t] \in State(MaxLog)
        /\ \A t \in DOMAIN mem.tombs : t \in Turn /\ mem.tombs[t] \in State(MaxLog)
        /\ \A t \in DOMAIN mem.floors : t \in Turn /\ mem.floors[t] \in 1..MaxTime
    BY <2>1, <2>3 DEF MemoryOK, StateOK, ReducerOK, Active
  <2>5. \A e \in db.entries : e.scope = Chat /\ e.turn \in Turn
    BY <2>1, JournalScope
  <2>6. /\ sock \in {"down", "up", "lost"} /\ now \in 1..MaxTime
        /\ faults \in 0..MaxFaults /\ poison \in [scopes : SUBSET {Chat}, all : BOOLEAN]
    BY DEF TurnInv, QuietOK
  <2> QED  BY <2>2, <2>3, <2>4, <2>5, <2>6 DEF TypeOK
<1> QED  BY <1>1, PartsAgree, PTL

\* Neither live events, acknowledgements, pages, snapshots nor a restart put
\* memory or journal ahead of the gateway or beside it: what they hold of a
\* turn is its status after the events they have seen, and a completed turn
\* shows its whole text.
THEOREM PhoneMirrorsGateway == Spec => []MirrorsGateway
<1>1. TurnInv => MirrorsGateway
  <2> SUFFICES ASSUME TurnInv  PROVE MirrorsGateway
    OBVIOUS
  <2>1. JournalOK(gw, used, db) /\ MemoryOK(gw, used, mem)
    BY DEF TurnInv
  <2>2. \A t \in Active : Mirrors(gw[t], mem.states[t])
    BY <2>1 DEF MemoryOK, StateOK, ReducerOK, Active
  <2>3. \A t \in DOMAIN mem.tombs : Mirrors(gw[t], mem.tombs[t])
    BY <2>1 DEF MemoryOK, ReducerOK
  <2>4. \A e \in db.entries : Mirrors(gw[e.turn], e)
    BY <2>1 DEF JournalOK, EntryOK
  <2> QED  BY <2>2, <2>3, <2>4 DEF MirrorsGateway, Agrees, Mirrors
<1> QED  BY <1>1, PartsAgree, PTL

\* Every entry the coordinator has written is one that a restart can make a
\* state of, and that the journal can read again.
THEOREM RestartReadsJournal == Spec => []EntriesAreReadable
<1>1. TurnInv => EntriesAreReadable
  BY DEF TurnInv, JournalOK, EntryOK, EntriesAreReadable
<1> QED  BY <1>1, PartsAgree, PTL

\* A chat with a failure that could not be written has no connection that
\* could act on it.
THEOREM PoisonedIsSilent == Spec => []PoisonSilences
<1>1. TurnInv => PoisonSilences
  BY DEF TurnInv, QuietOK, PoisonSilences
<1> QED  BY <1>1, PartsAgree, PTL

-----------------------------------------------------------------------------
(* A journal with room for the next prompt *)

\* One entry of a prompt, and those of the others leave it a place.
LEMMA RoomForOne ==
  ASSUME NEW E, NEW t, NEW O, O = {e \in E : e.turn # t},
         IsFiniteSet(O), Cardinality(O) < MaxEntries,
         \A e, f \in E : e.turn = f.turn => e = f, NEW time
  PROVE  Evict(E, time) = {E}
<1> DEFINE excess == Cardinality(E) - MaxEntries
<1>1. MaxEntries \in Nat /\ Cardinality(O) \in Nat
  BY FS_CardinalityType, JournalAssumption
<1>2. IsFiniteSet(E) /\ Cardinality(E) <= MaxEntries
  <2>1. CASE E = O
    BY <1>1, <2>1
  <2>2. CASE E # O
    <3>1. PICK e \in E : E = O \cup {e} /\ e \notin O
      BY <2>2
    <3>2. IsFiniteSet(O \cup {e}) /\ Cardinality(O \cup {e}) = Cardinality(O) + 1
      BY <3>1, FS_AddElement
    <3> QED  BY SMTT(30), <1>1, <3>1, <3>2
  <2> QED  BY <2>1, <2>2
<1>3. Cardinality(E) \in Nat
  BY <1>2, FS_CardinalityType
<1>4. excess <= 0
  BY <1>1, <1>2, <1>3
<1> QED  BY <1>4 DEF Evict

\* What a write of turn t does to the journal: the other entries stay until
\* they are settled and old, and no outcome of t is overwritten.
Moves(d, f, t, time) ==
  /\ \A u \in Turn \ {t} :
       /\ Of(f, u) \subseteq Of(d, u)
       /\ \A e \in Of(d, u) : e \in Of(f, u) \/ Expired(e, time)
  /\ \A e \in Of(d, t) : ~Final(e)

\* An outcome stays until it is settled and old.
Lasting(d, f, time) ==
  \A e \in d.entries : Final(e) => e \in f.entries \/ Expired(e, time)

LEMMA ExpiredIs ==
  ASSUME NEW e, NEW time, Expired(e, time)
  PROVE  Settled(e) /\ Final(e) /\ ~FailClosed(e)
BY DEF Expired, Settled, Final

\* A journal d that gets an entry of t, or none, keeps whatever has not expired.
LEMMA CompactRoomy ==
  ASSUME NEW d, NEW time, RoomIn(d, time), NEW t \in Turn,
         NEW h, \A e \in h.entries : e.turn # t => e \in d.entries,
         \A e, f \in h.entries : e.turn = f.turn => e = f,
         NEW protected, NEW f \in Compact(h, time, protected)
  PROVE  f.entries = {e \in h.entries : ~Expired(e, time)}
<1> DEFINE fresh == {e \in h.entries : ~Expired(e, time)}
           O == {e \in fresh : e.turn # t}
           others == {e \in d.entries : e.turn # t /\ ~Expired(e, time)}
<1>1. \E E \in Evict(fresh, time) : f.entries = E
  BY CompactShrinks
<1>2. \A e, g \in fresh : e.turn = g.turn => e = g
  OBVIOUS
<1>3. others \subseteq d.entries /\ O \subseteq others
  OBVIOUS
<1>4. IsFiniteSet(d.entries) /\ Cardinality(others) < MaxEntries
  BY DEF RoomIn
<1> HIDE DEF others, O
<1>5. IsFiniteSet(others)
  BY <1>3, <1>4, FS_Subset
<1>6. IsFiniteSet(O) /\ Cardinality(O) <= Cardinality(others)
  BY <1>3, <1>5, FS_Subset
<1>7. Cardinality(O) < MaxEntries
  BY <1>4, <1>5, <1>6, FS_CardinalityType, JournalAssumption
<1> HIDE DEF fresh
<1>8. Evict(fresh, time) = {fresh}
  BY ZenonT(40), <1>2, <1>6, <1>7, RoomForOne DEF O
<1> QED  BY <1>1, <1>8 DEF fresh

LEMMA UpsertRoomy ==
  ASSUME NEW G, NEW U, U \subseteq Turn, NEW d, JournalOK(G, U, d),
         NEW t \in U, NEW s \in State(MaxLog), NEW at \in 1..MaxTime,
         NEW time \in 1..MaxTime, at >= time, RoomIn(d, time),
         NEW f \in Upsert(d, Entry(Chat, t, s, at), time)
  PROVE  /\ Of(f, t) = {Entry(Chat, t, s, at)}
         /\ \A u \in Turn \ {t} :
              /\ Of(f, u) \subseteq Of(d, u)
              /\ \A e \in Of(d, u) : e \in Of(f, u) \/ Expired(e, time)
<1> DEFINE e == Entry(Chat, t, s, at)
           kept == (d.entries \ Of(d, t)) \cup {e}
           old == {x \in EntriesOf(d, e.scope) : x.turn = e.turn}
           h == [d EXCEPT !.entries = (@ \ old) \cup {e}]
<1>1. e.turn = t /\ e.scope = Chat /\ e.at = at
  BY EntryIs
<1>2. /\ d = [bindings |-> d.bindings, entries |-> d.entries]
      /\ \A x \in d.entries : x.scope = Chat /\ x.turn \in Turn
      /\ \A x, y \in d.entries : x.turn = y.turn => x = y
  BY JournalScope DEF JournalOK
<1>3. f \in Compact(h, time, {})
  BY DEF Upsert
<1> HIDE DEF e
<1>4. old = Of(d, t)
  BY <1>1, <1>2 DEF EntriesOf, Of
<1>5. h.entries = kept
  BY <1>2, <1>4
<1> HIDE DEF h, old
<1>6. /\ \A x \in kept : x.turn # t => x \in d.entries
      /\ \A x, y \in kept : x.turn = y.turn => x = y
  BY <1>1, <1>2 DEF Of
<1> HIDE DEF kept
<1>7. f.entries = {x \in kept : ~Expired(x, time)}
  <2>1. f.entries = {x \in h.entries : ~Expired(x, time)}
    BY <1>3, <1>5, <1>6, CompactRoomy
  <2> QED  BY <1>5, <2>1
<1>8. ~Expired(e, time)
  <2>1. time - at <= TerminalRetention
    BY TurnAssumption, JournalAssumption
  <2> QED  BY <1>1, <2>1, TurnAssumption, JournalAssumption DEF Expired
<1>9. Of(f, t) = {e}
  BY <1>1, <1>7, <1>8 DEF Of, kept
<1>10. ASSUME NEW u \in Turn \ {t}
       PROVE  /\ Of(f, u) \subseteq Of(d, u)
              /\ \A x \in Of(d, u) : x \in Of(f, u) \/ Expired(x, time)
  BY <1>1, <1>7 DEF Of, kept
<1> QED  BY <1>9, <1>10 DEF e

LEMMA MovesLast ==
  ASSUME NEW G, NEW U, NEW d, JournalOK(G, U, d), NEW f, NEW t, NEW time,
         Moves(d, f, t, time)
  PROVE  Lasting(d, f, time)
<1> SUFFICES ASSUME NEW e \in d.entries, Final(e)
             PROVE  e \in f.entries \/ Expired(e, time)
  BY DEF Lasting
<1>1. e.turn \in Turn /\ e \in Of(d, e.turn)
  BY JournalScope DEF Of
<1>2. e.turn # t
  BY <1>1 DEF Moves
<1>3. e \in Of(f, e.turn) \/ Expired(e, time)
  BY <1>1, <1>2 DEF Moves
<1> QED  BY <1>3 DEF Of

LEMMA StillMoves ==
  ASSUME NEW d, NEW t, NEW time, \A e \in Of(d, t) : ~Final(e)
  PROVE  Moves(d, d, t, time)
BY DEF Moves

LEMMA DiscardMoves ==
  ASSUME NEW G, NEW U, NEW d, JournalOK(G, U, d), NEW t, NEW time,
         \A e \in Of(d, t) : ~Final(e)
  PROVE  Moves(d, Discard(d, Chat, t), t, time) /\ Of(Discard(d, Chat, t), t) = {}
<1> DEFINE f == Discard(d, Chat, t)
<1>1. /\ d = [bindings |-> d.bindings, entries |-> d.entries]
      /\ \A e \in d.entries : e.scope = Chat
  BY JournalScope
<1>2. f.entries = {e \in d.entries : e.turn # t}
  BY <1>1 DEF Discard
<1> HIDE DEF f
<1> QED  BY <1>2 DEF Moves, Of, f

\* The parts of what is in the journal stay true under such a write.
LEMMA TodoMoves ==
  ASSUME NEW d, NEW f, NEW t, NEW time, Moves(d, f, t, time), NEW todo,
         TodoFresh(d, todo), \A e \in todo : e.turn # t /\ e.turn \in Turn
  PROVE  TodoFresh(f, todo)
BY ExpiredIs DEF TodoFresh, Moves

LEMMA FreshMoves ==
  ASSUME NEW d, NEW f, NEW t, NEW time, Moves(d, f, t, time), NEW m, NEW n,
         FreshOK(d, m), OnlyTurn(m, n, t), DOMAIN n.states \subseteq Turn,
         t \in DOMAIN n.states /\ Unsettled(n.states[t]) =>
           \A e \in Of(f, t) : ~Final(e)
  PROVE  FreshOK(f, n)
<1> SUFFICES ASSUME NEW u \in DOMAIN n.states, Unsettled(n.states[u]), u # t,
                    NEW e \in Of(f, u)
             PROVE  ~Final(e)
  BY DEF FreshOK
<1>1. u \in DOMAIN m.states /\ m.states[u] = n.states[u]
  BY DEF OnlyTurn
<1>2. e \in Of(d, u)
  BY DEF Moves
<1> QED  BY <1>1, <1>2 DEF FreshOK

FailedIn(d, t) == \E e \in Of(d, t) : FailClosed(e)

LEMMA SealedMoves ==
  ASSUME NEW d, NEW f, NEW t, NEW time, Moves(d, f, t, time), NEW m, NEW n,
         NEW p, NEW q, SealedOK(d, m, p), Poisoned(p, Chat) => Poisoned(q, Chat),
         OnlyTurn(m, n, t), DOMAIN n.states \cup DOMAIN n.tombs \subseteq Turn,
         \/ Poisoned(q, Chat)
         \/ /\ t \in DOMAIN n.states /\ FailClosed(n.states[t]) => FailedIn(f, t)
            /\ t \in DOMAIN n.tombs /\ FailClosed(n.tombs[t]) => FailedIn(f, t)
  PROVE  SealedOK(f, n, q)
<1> SUFFICES ASSUME ~Poisoned(q, Chat)  PROVE SealedOK(f, n, q)
  BY DEF SealedOK
<1>1. /\ \A u \in DOMAIN m.states : FailClosed(m.states[u]) => FailedIn(d, u)
      /\ \A u \in DOMAIN m.tombs : FailClosed(m.tombs[u]) => FailedIn(d, u)
  BY DEF SealedOK, FailedIn
<1>2. ASSUME NEW u \in Turn \ {t}, FailedIn(d, u)  PROVE FailedIn(f, u)
  BY <1>2, ExpiredIs DEF FailedIn, Moves
<1>3. \A u \in DOMAIN n.states : FailClosed(n.states[u]) => FailedIn(f, u)
  BY <1>1, <1>2 DEF OnlyTurn
<1>4. \A u \in DOMAIN n.tombs : FailClosed(n.tombs[u]) => FailedIn(f, u)
  BY <1>1, <1>2 DEF OnlyTurn
<1> QED  BY <1>3, <1>4 DEF SealedOK, FailedIn

\* A settled entry is one of a turn that has ended.
LEMMA ExpiredEnded ==
  ASSUME TurnInv, NEW e \in db.entries, NEW time, Expired(e, time)
  PROVE  /\ e.turn \in Turn /\ gw[e.turn].known /\ ~Running(gw[e.turn])
         /\ e.turn \notin wire \cup stray
<1> DEFINE g == gw[e.turn]
<1>1. e.turn \in Turn /\ EntryOK(gw, e) /\ LedgerOK(g)
  BY JournalScope DEF TurnInv
<1>2. e.lastSeq \in Nat /\ Mirrors(g, e) /\ Settled(e)
  BY <1>1, ExpiredIs, EntryFields DEF EntryOK
<1>3. e.lastSeq \in 0..Len(g.log) /\ Len(g.log) \in Nat
  <2>1. Len(g.log) \in Nat
    BY <1>1 DEF LedgerOK
  <2> HIDE DEF g
  <2> QED  BY <1>2, <2>1 DEF Mirrors
<1>4. StatusAt(g.log, e.lastSeq) \in Terminal
  BY <1>2, StatusSets DEF Settled, IsTerminal, Mirrors
<1>5. e.lastSeq = Len(g.log) /\ e.lastSeq > 0
  BY <1>1, <1>3, <1>4, LogStatus
<1>6. LedgerStatus(g) \in Terminal
  BY <1>4, <1>5 DEF LedgerStatus
<1>7. g.known
  <2>1. g.known \in BOOLEAN /\ (~g.known => g.log = <<>>)
    BY <1>1 DEF LedgerOK
  <2>2. Len(<<>>) = 0
    OBVIOUS
  <2> QED  BY <1>3, <1>5, <2>1, <2>2
<1> QED  BY <1>1, <1>6, <1>7 DEF Running, TurnInv, TrafficOK

\* A prompt that may run, in any of its ways.
Pending(G, W, o, u) == u \in W \/ Running(G[u]) \/ o = Armed(u)

LEMMA RecordedMoves ==
  ASSUME TurnInv, RecordInv, NEW t, Moves(db, db', t, now),
         \A u \in Turn : Pending(gw', wire' \cup stray', op', u) =>
                           Pending(gw, wire \cup stray, op, u) \/ u = t,
         t \in Turn /\ Pending(gw', wire' \cup stray', op', t) => Of(db', t) # {}
  PROVE  RecordedOK(gw', wire' \cup stray', db', op')
<1> SUFFICES ASSUME NEW u \in Turn, Pending(gw', wire' \cup stray', op', u)
             PROVE  Of(db', u) # {}
  BY DEF RecordedOK, Pending
<1>1. CASE u = t
  BY <1>1
<1>2. CASE u # t
  <2>1. Pending(gw, wire \cup stray, op, u)
    BY <1>2
  <2>2. PICK e : e \in Of(db, u)
    BY <2>1 DEF RecordInv, RecordedOK, Pending
  <2>3. e \in Of(db', u) \/ Expired(e, now)
    BY <1>2, <2>2 DEF Moves
  <2>4. CASE Expired(e, now)
    <3>1. gw[u].known /\ ~Running(gw[u]) /\ u \notin wire \cup stray
      BY <2>2, <2>4, ExpiredEnded DEF Of
    <3>2. op = Armed(u)
      BY <2>1, <3>1 DEF Pending
    <3>3. op.kind = "armed" /\ op.turn = u
      BY <3>2 DEF Armed
    <3> QED  BY <3>1, <3>3 DEF TurnInv, OpOK
  <2> QED  BY <2>3, <2>4
<1> QED  BY <1>1, <1>2

\* A step that writes nothing.
LEMMA NothingWritten ==
  ASSUME TurnInv, RecordInv, UNCHANGED <<db, mem, poison>>,
         \A u \in Turn : Pending(gw', wire' \cup stray', op', u) =>
                           Pending(gw, wire \cup stray, op, u),
         AheadOK(db, op')
  PROVE  RecordInv' /\ Lasting(db, db', now)
<1>1. RecordedOK(gw', wire' \cup stray', db', op')
  BY DEF RecordInv, RecordedOK, Pending
<1>2. /\ SealedOK(db', mem', poison') /\ FreshOK(db', mem') /\ AheadOK(db', op')
  BY DEF RecordInv
<1>3. Lasting(db, db', now)
  BY DEF Lasting
<1> QED  BY <1>1, <1>2, <1>3 DEF RecordInv

\* What memory has open, the journal has open.
LEMMA OpenEntries ==
  ASSUME TurnInv, RecordInv, NEW t, t \in DOMAIN mem.states,
         Unsettled(mem.states[t])
  PROVE  \A e \in Of(db, t) : ~Final(e)
BY DEF RecordInv, FreshOK

\* What a write leaves in the journal: the state, or what was there.
LEMMA WrittenMoves ==
  ASSUME Roomy, TurnInv, NEW U, U \subseteq Turn, JournalOK(gw, U, db),
         NEW t \in U, \A e \in Of(db, t) : ~Final(e),
         NEW s, StateOK(gw[t], s), NEW w \in Writes(t, s), NEW d, d = w.db
  PROVE  /\ w.ok \in BOOLEAN /\ Moves(db, d, t, now)
         /\ w.ok => Of(d, t) # {}
         /\ d = db \/ Of(d, t) # {}
         /\ w.ok /\ FailClosed(s) => FailedIn(d, t)
         /\ Unsettled(s) => \A e \in Of(d, t) : ~Final(e)
<1>1. now \in 1..MaxTime
  BY DEF TurnInv
<1>2. PICK at : at = w.at
  OBVIOUS
<1> DEFINE e == Entry(Chat, t, s, at)
<1>3. /\ w.ok \in BOOLEAN /\ at \in 1..MaxTime /\ at >= now
      /\ d \in Upsert(db, e, now) \/ (~w.ok /\ d = db)
  BY <1>2, WritesAre
<1>4. s \in State(MaxLog)
  BY DEF StateOK, ReducerOK
<1>5. /\ FailClosed(e) <=> FailClosed(s)
      /\ Unsettled(s) => ~Final(e)
  BY <1>3, <1>4, EntryIs
<1>6. CASE d \in Upsert(db, e, now)
  <2>1. /\ Of(d, t) = {e}
        /\ \A u \in Turn \ {t} :
             /\ Of(d, u) \subseteq Of(db, u)
             /\ \A x \in Of(db, u) : x \in Of(d, u) \/ Expired(x, now)
    <3>1. /\ RoomIn(db, now) /\ U \subseteq Turn /\ JournalOK(gw, U, db) /\ t \in U
          /\ s \in State(MaxLog) /\ at \in 1..MaxTime /\ now \in 1..MaxTime
          /\ at >= now /\ d \in Upsert(db, Entry(Chat, t, s, at), now)
      BY <1>1, <1>3, <1>4, <1>6 DEF Roomy
    <3> QED  BY ONLY ZenonT(40), <3>1, UpsertRoomy
  <2> HIDE DEF e
  <2> QED  BY <1>3, <1>5, <2>1 DEF Moves, FailedIn
<1>7. CASE ~w.ok /\ d = db
  BY <1>3, <1>7, StillMoves
<1> QED  BY <1>3, <1>6, <1>7

LEMMA PersistRecords ==
  ASSUME Roomy, TurnInv, RecordInv, NEW t, t \in DOMAIN mem.states,
         Unsettled(mem.states[t]), NEW s, StateOK(gw[t], s),
         NEW w, Persist(t, s, w)
  PROVE  /\ Moves(db, db', t, now)
         /\ db' = db \/ Of(db', t) # {}
         /\ SealedOK(db', mem', poison') /\ FreshOK(db', mem')
<1>1. used \subseteq Turn /\ MemoryOK(gw, used, mem) /\ JournalOK(gw, used, db)
  BY DEF TurnInv, TrafficOK
<1>2. t \in used /\ t \in Turn
  BY <1>1 DEF MemoryOK
<1>3. \A e \in Of(db, t) : ~Final(e)
  BY OpenEntries
<1>4. w \in Writes(t, s) /\ db' = w.db
  BY DEF Persist
<1>5. /\ Moves(db, db', t, now) /\ w.ok \in BOOLEAN
      /\ db' = db \/ Of(db', t) # {}
      /\ w.ok /\ FailClosed(s) => FailedIn(db', t)
      /\ Unsettled(s) => \A e \in Of(db', t) : ~Final(e)
  BY <1>1, <1>2, <1>3, <1>4, WrittenMoves
<1>6. /\ MemoryOK(gw, used, mem') /\ OnlyTurn(mem, mem', t)
      /\ w.ok /\ Done(s) => /\ t \notin DOMAIN mem'.states /\ t \in DOMAIN mem'.tombs
                            /\ mem'.tombs[t] = ReleasePayloads(s)
      /\ ~(w.ok /\ Done(s)) => /\ t \in DOMAIN mem'.states /\ mem'.states[t] = s
                               /\ t \notin DOMAIN mem'.tombs
      /\ Poisoned(poison', Chat) <=> \/ Poisoned(poison, Chat)
                                     \/ ~w.ok /\ FailClosed(s)
  BY <1>2, PersistKeeps
<1>7. DOMAIN mem'.states \cup DOMAIN mem'.tombs \subseteq Turn
  BY <1>1, <1>6 DEF MemoryOK
<1>8. FreshOK(db', mem')
  <2>1. t \in DOMAIN mem'.states /\ Unsettled(mem'.states[t]) =>
          \A x \in Of(db', t) : ~Final(x)
    BY <1>5, <1>6
  <2> QED  BY <1>5, <1>6, <1>7, <2>1, FreshMoves DEF RecordInv
<1>9. SealedOK(db', mem', poison')
  <2>1. FailClosed(ReleasePayloads(s)) <=> FailClosed(s)
    BY ReleaseKeeps DEF StateOK
  <2>2. \/ Poisoned(poison', Chat)
        \/ /\ t \in DOMAIN mem'.states /\ FailClosed(mem'.states[t]) =>
                FailedIn(db', t)
           /\ t \in DOMAIN mem'.tombs /\ FailClosed(mem'.tombs[t]) =>
                FailedIn(db', t)
    BY <1>5, <1>6, <2>1
  <2>3. Poisoned(poison, Chat) => Poisoned(poison', Chat)
    BY <1>6
  <2> QED  BY <1>5, <1>6, <1>7, <2>2, <2>3, SealedMoves DEF RecordInv
<1> QED  BY <1>5, <1>8, <1>9

\* A step that has written, for a turn that was open.
LEMMA Recorded ==
  ASSUME TurnInv, RecordInv, NEW t, Moves(db, db', t, now),
         db' = db \/ Of(db', t) # {},
         SealedOK(db', mem', poison'), FreshOK(db', mem'), AheadOK(db', op'),
         \A u \in Turn : Pending(gw', wire' \cup stray', op', u) =>
                           Pending(gw, wire \cup stray, op, u),
         t \in Turn
  PROVE  RecordInv' /\ Lasting(db, db', now)
<1>1. Pending(gw', wire' \cup stray', op', t) => Of(db', t) # {}
  BY DEF RecordInv, RecordedOK, Pending
<1>2. RecordedOK(gw', wire' \cup stray', db', op')
  BY <1>1, RecordedMoves
<1>3. Lasting(db, db', now)
  BY MovesLast DEF TurnInv
<1> QED  BY <1>2, <1>3 DEF RecordInv

-----------------------------------------------------------------------------
(* What is recorded stays recorded: steps that write nothing *)

LEMMA AheadOfOthers ==
  ASSUME NEW d, NEW o, o.kind \notin {"recover", "reconcile"}
  PROVE  AheadOK(d, o)
BY DEF AheadOK

LEMMA GatewayRecords ==
  ASSUME TurnInv, RecordInv, GatewayStep
  PROVE  RecordInv' /\ Lasting(db, db', now)
<1>1. PICK t \in Turn : Accept(t) \/ Refuse(t) \/ Progress(t) \/ Prune(t)
  BY DEF GatewayStep
<1>2. UNCHANGED <<db, mem, poison>>
  BY <1>1 DEF Accept, Refuse, Progress, Prune, phoneVars
<1>3. op' = op \/ (op.kind = "sent" /\ op'.kind = "sent")
  BY <1>1 DEF Accept, Refuse, Progress, Prune, phoneVars, Answer, Sent
<1>4. AheadOK(db, op') /\ \A u \in Turn : op' = Armed(u) => op = Armed(u)
  BY <1>3 DEF RecordInv, AheadOK, Armed
<1>5. wire' \cup stray' \subseteq wire \cup stray
  BY <1>1 DEF Accept, Refuse, Progress, Prune, Read, connectionVars
<1>6. \A u \in Turn : Running(gw'[u]) => Running(gw[u]) \/ u \in wire \cup stray
  <2>1. gw = [u \in Turn |-> gw[u]] /\ LedgerOK(gw[t])
    BY DEF TurnInv
  <2>2. CASE Accept(t)
    BY <1>1, <2>1, <2>2 DEF Accept
  <2>3. CASE Refuse(t)
    BY <2>3 DEF Refuse
  <2>4. CASE Progress(t)
    BY <2>1, <2>4 DEF Progress
  <2>5. CASE Prune(t)
    <3> DEFINE h == [gw[t] EXCEPT !.first = Len(gw[t].log) + 1]
    <3>1. Running(h) => Running(gw[t])
      BY <2>1, PrunedGrows
    <3>2. gw' = [gw EXCEPT ![t] = h]
      BY <2>5 DEF Prune
    <3> HIDE DEF h
    <3> QED  BY <2>1, <3>1, <3>2
  <2> QED  BY <1>1, <2>2, <2>3, <2>4, <2>5
<1> QED  BY <1>2, <1>4, <1>5, <1>6, NothingWritten DEF Pending

\* The gateway stays as it is, and no prompt comes under way.
LEMMA StillPending ==
  ASSUME gw' = gw, wire' \cup stray' \subseteq wire \cup stray, op'.kind # "armed"
  PROVE  \A u \in Turn : Pending(gw', wire' \cup stray', op', u) =>
                           Pending(gw, wire \cup stray, op, u)
BY DEF Pending, Armed

\* Lines that are cut lose nothing that was sent.
LEMMA LinesCut ==
  ASSUME Disconnect  PROVE  wire' \cup stray' \subseteq wire \cup stray
BY DEF Disconnect

LEMMA SeveringKind ==
  ASSUME NEW m, NEW bad, NEW again, NEW release
  PROVE  Severing(m, bad, again, release).kind = "sever"
BY DEF Severing

LEMMA FailedRecovery ==
  ASSUME NEW mode \in Modes, NEW subscribed, RecoverFails(mode, subscribed)
  PROVE  /\ op'.kind \in {"idle", "sever"}
         /\ wire' \cup stray' \subseteq wire \cup stray
<1>1. CASE mode = "pending"
  BY <1>1 DEF RecoverFails, Idle
<1>2. CASE mode = "bare"
  BY <1>2, LinesCut DEF RecoverFails, Idle
<1>3. CASE mode = "ensure"
  BY <1>3, LinesCut, SeveringKind DEF RecoverFails
<1> QED  BY <1>1, <1>2, <1>3 DEF Modes

LEMMA FailedCall ==
  ASSUME NEW t, NEW context, context.mode \in Modes, NEW subscribed,
         CallFails(t, context, subscribed)
  PROVE  /\ op'.kind \in {"idle", "sever"}
         /\ wire' \cup stray' \subseteq wire \cup stray
<1>1. CASE context.kind = "live"
  BY <1>1, LinesCut, SeveringKind DEF CallFails
<1>2. CASE context.kind # "live"
  <2>1. RecoverFails(context.mode, subscribed)
    BY <1>2 DEF CallFails
  <2> QED  BY <2>1, FailedRecovery
<1> QED  BY <1>1, <1>2

\* What is still to be recovered is not ahead of the journal.
LEMMA RecoveringAhead ==
  ASSUME NEW d, NEW todo, TodoFresh(d, todo), NEW mode
  PROVE  /\ AheadOK(d, Recovering(todo, mode))
         /\ Recovering(todo, mode).kind \in {"idle", "recover"}
<1>1. CASE todo = {}
  BY <1>1 DEF Recovering, Idle, AheadOK
<1>2. CASE todo # {}
  BY <1>2 DEF Recovering, AheadOK
<1> QED  BY <1>1, <1>2

LEMMA ReconcilingAhead ==
  ASSUME NEW d, NEW t, NEW cursor, NEW durable, NEW context,
         TodoFresh(d, context.todo)
  PROVE  /\ AheadOK(d, Reconciling(t, cursor, durable, context))
         /\ Reconciling(t, cursor, durable, context).kind = "reconcile"
BY DEF Reconciling, AheadOK

LEMMA AboutAhead ==
  ASSUME NEW d, NEW t, NEW cursor, NEW durable, NEW kind
  PROVE  /\ AheadOK(d, Reconciling(t, cursor, durable, About(kind)))
         /\ Reconciling(t, cursor, durable, About(kind)).kind = "reconcile"
<1>1. TodoFresh(d, About(kind).todo)
  BY DEF TodoFresh, About
<1> QED  BY <1>1, ReconcilingAhead

LEMMA IdleAhead ==
  ASSUME NEW d, NEW o, o.kind \in {"idle", "sever"}
  PROVE  AheadOK(d, o) /\ o.kind # "armed"
BY DEF AheadOK

LEMMA EntriesFresh ==
  ASSUME NEW G, NEW U, NEW d, JournalOK(G, U, d)
  PROVE  TodoFresh(d, EntriesOf(d, Chat))
BY DEF JournalOK, TodoFresh, EntriesOf, Of

\* The rest of a recovery, when the turn before it is written.
LEMMA ContextAhead ==
  ASSUME TurnInv, RecordInv, op.kind = "reconcile",
         NEW d, Moves(db, d, op.turn, now)
  PROVE  TodoFresh(d, op.context.todo)
<1>1. TodoFresh(db, op.context.todo)
  BY DEF RecordInv, AheadOK
<1>2. \A e \in op.context.todo : e.turn # op.turn /\ e.turn \in Turn
  BY EntryFields DEF TurnInv, OpOK, ContextOK, TodoOK, EntryOK
<1> QED  BY <1>1, <1>2, TodoMoves

LEMMA RecoverPendingRecords ==
  ASSUME TurnInv, RecordInv, RecoverPending
  PROVE  RecordInv' /\ Lasting(db, db', now)
<1>1. /\ op' = Recovering(EntriesOf(db, Chat), "pending")
      /\ UNCHANGED <<world, connection, mem, db, poison, faults>>
  BY DEF RecoverPending
<1>2. AheadOK(db, op') /\ op'.kind # "armed"
  BY <1>1, EntriesFresh, RecoveringAhead DEF TurnInv
<1> QED  BY <1>1, <1>2, StillPending, NothingWritten
         DEF world, connection, connectionVars

LEMMA UnansweredRecords ==
  ASSUME TurnInv, RecordInv, ReconcileUnanswered
  PROVE  RecordInv' /\ Lasting(db, db', now)
<1>1. op.kind = "reconcile" /\ UNCHANGED <<world, mem, db, poison>>
  BY DEF ReconcileUnanswered
<1>2. PICK subscribed : CallFails(op.turn, op.context, subscribed)
  BY DEF ReconcileUnanswered
<1>3. op.context.mode \in Modes
  BY <1>1, ReconcileFacts
<1>4. op'.kind \in {"idle", "sever"} /\ wire' \cup stray' \subseteq wire \cup stray
  BY <1>2, <1>3, FailedCall
<1>5. AheadOK(db, op') /\ op'.kind # "armed"
  BY <1>4, IdleAhead
<1> QED  BY <1>1, <1>4, <1>5, StillPending, NothingWritten DEF world

LEMMA SendRecords ==
  ASSUME TurnInv, RecordInv, Send
  PROVE  RecordInv' /\ Lasting(db, db', now)
<1>1. /\ op.kind = "armed" /\ wire' = wire \cup {op.turn}
      /\ op' = Sent(op.turn, NoReply)
      /\ UNCHANGED <<world, stray, subs, live, sock, mem, db, poison, faults>>
  BY DEF Send
<1>2. op = Armed(op.turn)
  BY <1>1 DEF TurnInv, OpOK
<1>3. op'.kind = "sent"
  BY <1>1 DEF Sent
<1>4. AheadOK(db, op') /\ \A u : op' # Armed(u)
  BY <1>3 DEF AheadOK, Armed
<1>5. \A u \in Turn : Pending(gw', wire' \cup stray', op', u) =>
                        Pending(gw, wire \cup stray, op, u)
  BY <1>1, <1>2, <1>4 DEF Pending, world
<1> QED  BY <1>1, <1>4, <1>5, NothingWritten

\* The ledger is asked, and may have been told to stop the turn.
LEMMA AsksRecords ==
  ASSUME TurnInv, RecordInv, NEW kind, NEW t, NEW cursor,
         \A u \in Turn : Running(gw'[u]) => Running(gw[u]),
         op' = IF Connected THEN Reconciling(t, cursor, 0, About(kind)) ELSE Idle,
         UNCHANGED <<connection, mem, db, poison>>
  PROVE  RecordInv' /\ Lasting(db, db', now)
<1>1. AheadOK(db, op') /\ op'.kind # "armed"
  <2>1. CASE Connected
    BY <2>1, AboutAhead
  <2>2. CASE ~Connected
    BY <2>2, IdleAhead DEF Idle
  <2> QED  BY <2>1, <2>2
<1>2. wire' = wire /\ stray' = stray
  BY DEF connection, connectionVars
<1>3. \A u \in Turn : Pending(gw', wire' \cup stray', op', u) =>
                        Pending(gw, wire \cup stray, op, u)
  BY <1>1, <1>2 DEF Pending, Armed
<1> QED  BY <1>1, <1>3, NothingWritten

LEMMA AckMissingRecords ==
  ASSUME TurnInv, RecordInv, AckMissing
  PROVE  RecordInv' /\ Lasting(db, db', now)
<1>1. /\ op' = IF Connected
               THEN Reconciling(op.turn, mem.states[op.turn].lastSeq, 0,
                                About("submit"))
               ELSE Idle
      /\ UNCHANGED <<world, connection, mem, db, poison>>
  BY DEF AckMissing
<1>2. gw' = gw /\ UNCHANGED <<connection, mem, db, poison>>
  BY <1>1 DEF world
<1> QED  BY <1>1, <1>2, AsksRecords

LEMMA InterruptAskedRecords ==
  ASSUME TurnInv, RecordInv, InterruptAsked
  PROVE  RecordInv' /\ Lasting(db, db', now)
<1> DEFINE t == op.turn
<1>1. /\ gw' \in {gw, [gw EXCEPT ![t] = Interrupted(@)]}
      /\ op' = IF Connected
               THEN Reconciling(t, mem.states[t].lastSeq, 0, About("interrupt"))
               ELSE Idle
      /\ UNCHANGED <<connection, mem, db, poison>>
  BY DEF InterruptAsked
<1>2. gw = [u \in Turn |-> gw[u]] /\ \A u \in Turn : LedgerOK(gw[u])
  BY DEF TurnInv
<1>3. ASSUME NEW u \in Turn, Running(gw'[u])  PROVE Running(gw[u])
  <2>1. gw'[u] \in {gw[u], Interrupted(gw[u])}
    BY <1>1, <1>2
  <2> QED  BY <1>2, <1>3, <2>1, InterruptedGrows
<1> QED  BY <1>1, <1>3, AsksRecords

\* The connection is given up, or nothing happens to the call.
LEMMA GivenUpRecords ==
  ASSUME TurnInv, RecordInv, gw' = gw, UNCHANGED <<mem, db, poison>>,
         op' = op \/ op'.kind = "sever",
         wire' \cup stray' \subseteq wire \cup stray
  PROVE  RecordInv' /\ Lasting(db, db', now)
<1>1. AheadOK(db, op') /\ \A u : op' = Armed(u) => op = Armed(u)
  BY DEF RecordInv, AheadOK, Armed
<1>2. \A u \in Turn : Pending(gw', wire' \cup stray', op', u) =>
                        Pending(gw, wire \cup stray, op, u)
  BY <1>1 DEF Pending
<1> QED  BY <1>1, <1>2, NothingWritten

LEMMA SocketRecords ==
  ASSUME TurnInv, RecordInv,
         TransportLost \/ Close \/ LiveRefused \/ LiveGarbled \/ SocketCloses
         \/ ClockChange \/ UNCHANGED vars
  PROVE  RecordInv' /\ Lasting(db, db', now)
<1>1. CASE TransportLost
  BY <1>1, LinesCut, SeveringKind, GivenUpRecords DEF TransportLost, world
<1>2. CASE Close
  BY <1>2, LinesCut, SeveringKind, GivenUpRecords DEF Close, world
<1>3. CASE LiveRefused
  <2>1. /\ Disconnect /\ op'.kind = "sever"
        /\ UNCHANGED <<world, mem, db, poison, faults>>
    BY <1>3, SeveringKind DEF LiveRefused
  <2> QED  BY <2>1, LinesCut, GivenUpRecords DEF world
<1>4. CASE LiveGarbled
  <2>1. /\ Disconnect /\ op'.kind = "sever"
        /\ UNCHANGED <<world, mem, db, poison, faults>>
    BY <1>4, SeveringKind DEF LiveGarbled
  <2> QED  BY <2>1, LinesCut, GivenUpRecords DEF world
<1>5. CASE SocketCloses
  <2>1. wire' \cup stray' \subseteq wire \cup stray
    BY <1>5 DEF SocketCloses
  <2> QED  BY <1>5, <2>1, GivenUpRecords DEF SocketCloses, world, phoneVars
<1>6. CASE ClockChange
  <2>1. wire' \cup stray' \subseteq wire \cup stray
    BY <1>6 DEF ClockChange, connection, connectionVars
  <2> QED  BY <1>6, <2>1, GivenUpRecords DEF ClockChange, phoneVars
<1>7. CASE UNCHANGED vars
  <2>1. UNCHANGED <<gw, stray, wire, mem, op, db, poison>>
    BY <1>7 DEF vars, gatewayVars, connectionVars, phoneVars
  <2> QED  BY <2>1, GivenUpRecords
<1> QED  BY <1>1, <1>2, <1>3, <1>4, <1>5, <1>6, <1>7

-----------------------------------------------------------------------------
(* Steps that write the state of a turn *)

\* A write of turn t that ends a call, or takes it on to `next`.
LEMMA ConcludeRecords ==
  ASSUME Roomy, TurnInv, RecordInv, NEW t \in Turn, t \in DOMAIN mem.states,
         Unsettled(mem.states[t]), NEW s, StateOK(gw[t], s),
         NEW context, context.mode \in Modes, NEW subscribed,
         NEW next, next.kind # "armed",
         \A d : Moves(db, d, t, now) => AheadOK(d, next),
         Conclude(t, s, context, subscribed, next), UNCHANGED world
  PROVE  RecordInv' /\ Lasting(db, db', now)
<1>1. PICK w \in Writes(t, s) :
        /\ Persist(t, s, w)
        /\ CASE ~w.ok -> CloseAfter(t, s, ReleaseOf(context))
             [] w.ok /\ FailClosed(s) -> CallFails(t, context, subscribed)
             [] w.ok /\ ~FailClosed(s) ->
                  op' = next /\ subs' = subscribed
                  /\ UNCHANGED <<wire, live, sock, stray>>
  BY DEF Conclude
<1>2. /\ Moves(db, db', t, now)
      /\ db' = db \/ Of(db', t) # {}
      /\ SealedOK(db', mem', poison') /\ FreshOK(db', mem')
  BY <1>1, PersistRecords
<1>3. w.ok \in BOOLEAN
  BY WritesAre
<1>4. /\ wire' \cup stray' \subseteq wire \cup stray
      /\ op'.kind # "armed" /\ AheadOK(db', op')
  <2>1. CASE ~w.ok
    <3>1. Disconnect /\ op'.kind = "sever"
      BY <1>1, <2>1, SeveringKind DEF CloseAfter
    <3> QED  BY <3>1, LinesCut, IdleAhead
  <2>2. CASE w.ok /\ FailClosed(s)
    <3>1. CallFails(t, context, subscribed)
      BY <1>1, <2>2
    <3> QED  BY <3>1, FailedCall, IdleAhead
  <2>3. CASE w.ok /\ ~FailClosed(s)
    <3>1. op' = next /\ wire' = wire /\ stray' = stray
      BY <1>1, <2>3
    <3> QED  BY <1>2, <3>1
  <2> QED  BY <1>3, <2>1, <2>2, <2>3
<1>5. \A u \in Turn : Pending(gw', wire' \cup stray', op', u) =>
                        Pending(gw, wire \cup stray, op, u)
  BY <1>4, StillPending DEF world
<1> QED  BY <1>2, <1>4, <1>5, Recorded

\* Something is wrong with the turn of a call.
LEMMA FailRecords ==
  ASSUME Roomy, TurnInv, RecordInv,
         op.kind \in {"armed", "sent", "interrupting", "reconcile"},
         NEW context, context.mode \in Modes, UNCHANGED world,
         NEW subscribed, NEW reason \in Failure,
         NEW next, next.kind # "armed",
         \A d : Moves(db, d, op.turn, now) => AheadOK(d, next),
         Conclude(op.turn, Fail(mem.states[op.turn], reason), context,
                  subscribed, next)
  PROVE  RecordInv' /\ Lasting(db, db', now)
<1> DEFINE t == op.turn
           s == Fail(mem.states[t], reason)
<1>1. /\ t \in Turn /\ t \in DOMAIN mem.states /\ Unsettled(mem.states[t])
      /\ StateOK(gw[t], mem.states[t])
  BY CallFacts
<1>2. StateOK(gw[t], s)
  BY <1>1, FailKeeps DEF StateOK
<1>3. Conclude(t, s, context, subscribed, next)
  OBVIOUS
<1> HIDE DEF s
<1> QED  BY <1>1, <1>2, <1>3, ConcludeRecords

LEMMA FailEnds ==
  ASSUME Roomy, TurnInv, RecordInv, SendBroken \/ AckMismatched \/ ReconcileGarbled
  PROVE  RecordInv' /\ Lasting(db, db', now)
<1>1. "protocolViolation" \in Failure
  BY DEF Failure
<1>2. \A d : AheadOK(d, Idle) /\ Idle.kind # "armed"
  BY DEF AheadOK, Idle
<1>3. CASE SendBroken \/ AckMismatched
  <2>1. /\ op.kind \in {"armed", "sent"} /\ UNCHANGED world
        /\ Conclude(op.turn, Fail(mem.states[op.turn], "protocolViolation"),
                    About("submit"), subs, Idle)
    BY <1>3 DEF SendBroken, AckMismatched
  <2>2. About("submit").mode \in Modes
    BY AboutIs
  <2> QED  BY <1>1, <1>2, <2>1, <2>2, FailRecords
<1>4. CASE ReconcileGarbled
  <2>1. /\ op.kind = "reconcile" /\ UNCHANGED world
        /\ Conclude(op.turn, Fail(mem.states[op.turn], "protocolViolation"),
                    op.context, subs, Idle)
    BY <1>4 DEF ReconcileGarbled
  <2>2. op.context.mode \in Modes
    BY <2>1, ReconcileFacts
  <2> QED  BY <1>1, <1>2, <2>1, <2>2, FailRecords
<1> QED  BY <1>3, <1>4

LEMMA AcknowledgedRecords ==
  ASSUME Roomy, TurnInv, RecordInv, Acknowledged
  PROVE  RecordInv' /\ Lasting(db, db', now)
<1> DEFINE t == op.turn
           s == ApplyAck(mem.states[t], op.reply)
           next == IF MustReconcile(s)
                   THEN Reconciling(t, s.lastSeq, 0, About("submit")) ELSE Idle
<1>1. /\ op.kind = "sent" /\ op.reply.kind = "ack" /\ UNCHANGED world
      /\ Conclude(t, s, About("submit"), subs, next)
  BY DEF Acknowledged
<1>2. /\ t \in Turn /\ t \in DOMAIN mem.states /\ Unsettled(mem.states[t])
      /\ StateOK(gw[t], mem.states[t]) /\ LedgerOK(gw[t])
  BY <1>1, CallFacts
<1>3. /\ gw[t].known /\ op.reply.lastSeq \in 0..Len(gw[t].log)
      /\ op.reply.status = StatusAt(gw[t].log, op.reply.lastSeq)
  <2>1. ReplyOK(gw, wire \cup stray, t, op.reply)
    BY <1>1 DEF TurnInv, OpOK
  <2>2. NoReply.kind = "none" /\ Rejection.kind = "rejected"
    BY DEF NoReply, Rejection
  <2> QED  BY <1>1, <2>1, <2>2 DEF ReplyOK
<1>4. StateOK(gw[t], s)
  BY <1>2, <1>3, AckKeeps
<1> HIDE DEF s
<1>5. next.kind # "armed" /\ \A d : AheadOK(d, next)
  <2>1. CASE MustReconcile(s)
    BY <2>1, AboutAhead
  <2>2. CASE ~MustReconcile(s)
    BY <2>2 DEF AheadOK, Idle
  <2> QED  BY <2>1, <2>2
<1> HIDE DEF next, t
<1> QED  BY <1>1, <1>2, <1>4, <1>5, AboutIs, ConcludeRecords

\* What a page says may stay in memory until it has passed what is written.
LEMMA AppliedRecords ==
  ASSUME Roomy, TurnInv, RecordInv, op.kind = "reconcile",
         NEW page, PageOK(gw[op.turn], page), UNCHANGED world,
         ReconcileApplied(op.turn, page,
                          Recovering(op.context.todo, op.context.mode))
  PROVE  RecordInv' /\ Lasting(db, db', now)
<1> DEFINE t == op.turn
           s == ApplyPage(mem.states[t], page)
           subscribed == IF page.mode = "events" THEN subs \cup {t} ELSE subs
           written == s.lastSeq >= op.durable
           durable == IF written THEN 0 ELSE op.durable
           more == Reconciling(t, page.next, durable, op.context)
           next == Recovering(op.context.todo, op.context.mode)
           step == IF page.more THEN more ELSE next
<1>1. /\ t \in used /\ t \in Turn /\ t \in DOMAIN mem.states
      /\ Unsettled(mem.states[t])
      /\ StateOK(gw[t], mem.states[t]) /\ LedgerOK(gw[t])
  BY CallFacts
<1>2. /\ op.durable \in 0..Len(gw[t].log) /\ Len(gw[t].log) \in Nat
      /\ op.context.mode \in Modes
  BY <1>1, ReconcileFacts DEF LedgerOK
<1>3. /\ StateOK(gw[t], s) /\ (FailClosed(s) \/ s.lastSeq = page.next)
      /\ ~FailClosed(s) /\ page.more => Unsettled(s)
  BY <1>1, PageKeeps
<1>4. page.next \in Nat /\ (~page.more => page.next = Len(gw[t].log))
  BY <1>2 DEF PageOK
<1>5. IF FailClosed(s) \/ written
      THEN Conclude(t, s, op.context, subscribed, step)
      ELSE /\ mem' = Remember(mem, t, s)
           /\ op' = step /\ subs' = subscribed
           /\ UNCHANGED <<wire, live, sock, stray, db, poison, faults>>
  BY DEF ReconcileApplied
<1>6. ASSUME NEW d, Moves(db, d, t, now)
      PROVE  /\ AheadOK(d, more) /\ more.kind = "reconcile"
             /\ AheadOK(d, next) /\ next.kind \in {"idle", "recover"}
  <2>1. TodoFresh(d, op.context.todo)
    BY <1>6, ContextAhead
  <2> QED  BY <2>1, RecoveringAhead, ReconcilingAhead
<1>7. Moves(db, db, t, now)
  BY <1>1, OpenEntries, StillMoves
<1> HIDE DEF s, subscribed, written, durable, more, next, t
<1>8. /\ step.kind # "armed"
      /\ \A d : Moves(db, d, t, now) => AheadOK(d, step)
  BY <1>6, <1>7
<1> HIDE DEF step
<1>9. CASE FailClosed(s) \/ written
  <2>1. Conclude(t, s, op.context, subscribed, step)
    BY <1>5, <1>9
  <2> QED  BY <1>1, <1>2, <1>3, <1>8, <2>1, ConcludeRecords
<1>10. CASE ~FailClosed(s) /\ ~written
  <2>1. /\ mem' = Remember(mem, t, s) /\ op' = step
        /\ UNCHANGED <<wire, live, sock, stray, db, poison, faults>>
    BY <1>5, <1>10
  <2>2. page.more
    BY <1>2, <1>3, <1>4, <1>10 DEF written
  <2>3. Unsettled(s) /\ ~FailClosed(s)
    BY <1>3, <1>10, <2>2
  <2>4. used \subseteq Turn /\ MemoryOK(gw, used, mem)
    BY DEF TurnInv, TrafficOK
  <2>5. /\ MemoryOK(gw, used, mem') /\ OnlyTurn(mem, mem', t)
        /\ t \in DOMAIN mem'.states /\ mem'.states[t] = s
        /\ t \notin DOMAIN mem'.tombs
    <3> DEFINE n == Remember(mem, t, s)
    <3>1. /\ MemoryOK(gw, used, n) /\ OnlyTurn(mem, n, t)
          /\ t \in DOMAIN n.states /\ n.states[t] = s /\ t \notin DOMAIN n.tombs
      BY <1>1, <1>3, <2>4, RememberKeeps
    <3>2. mem' = n
      BY <2>1
    <3> HIDE DEF n
    <3> QED  BY <3>1, <3>2
  <2>6. DOMAIN mem'.states \cup DOMAIN mem'.tombs \subseteq Turn
    BY <2>4, <2>5 DEF MemoryOK
  <2>7. Moves(db, db', t, now) /\ poison' = poison
    BY <1>7, <2>1
  <2>8. FreshOK(db', mem')
    <3>1. \A e \in Of(db', t) : ~Final(e)
      BY <1>1, <2>1, OpenEntries
    <3> QED  BY <2>5, <2>6, <2>7, <3>1, FreshMoves DEF RecordInv
  <2>9. SealedOK(db', mem', poison')
    BY <2>3, <2>5, <2>6, <2>7, SealedMoves DEF RecordInv
  <2>10. op'.kind # "armed" /\ AheadOK(db', op')
    BY <1>8, <2>1, <2>7
  <2>11. \A u \in Turn : Pending(gw', wire' \cup stray', op', u) =>
                           Pending(gw, wire \cup stray, op, u)
    BY <2>1, <2>10, StillPending DEF world
  <2> QED  BY <1>1, <2>1, <2>7, <2>8, <2>9, <2>10, <2>11, Recorded
<1> QED  BY <1>9, <1>10

LEMMA AnsweredRecords ==
  ASSUME Roomy, TurnInv, RecordInv, ReconcileAnswered
  PROVE  RecordInv' /\ Lasting(db, db', now)
<1> DEFINE t == op.turn
           reply == ReplyTo(gw[t], op.cursor)
           next == Recovering(op.context.todo, op.context.mode)
<1>1. /\ op.kind = "reconcile" /\ UNCHANGED world
      /\ IF reply.error = None THEN ReconcileApplied(t, reply, next)
         ELSE Conclude(t, Fail(mem.states[t], reply.error), op.context, subs, next)
  BY DEF ReconcileAnswered
<1>2. LedgerOK(gw[t])
  BY <1>1, CallFacts
<1>3. op.cursor \in 0..Len(gw[t].log) /\ op.context.mode \in Modes
  BY <1>1, ReconcileFacts
<1>4. /\ reply.error # None => reply.error \in Failure
      /\ reply.error = None => PageOK(gw[t], reply)
  BY <1>2, <1>3, ReplyIs
<1> HIDE DEF reply
<1>5. CASE reply.error = None
  BY <1>1, <1>4, <1>5, AppliedRecords
<1>6. CASE reply.error # None
  <2>1. Conclude(t, Fail(mem.states[t], reply.error), op.context, subs, next)
    BY <1>1, <1>6
  <2>2. next.kind # "armed"
    BY DEF Recovering, Idle
  <2>3. \A d : Moves(db, d, t, now) => AheadOK(d, next)
    BY <1>1, ContextAhead, RecoveringAhead
  <2> HIDE DEF next
  <2> QED  BY <1>1, <1>3, <1>4, <1>6, <2>1, <2>2, <2>3, FailRecords
<1> QED  BY <1>5, <1>6

LEMMA InterruptBeginRecords ==
  ASSUME Roomy, TurnInv, RecordInv, NEW t \in Turn, InterruptBegin(t)
  PROVE  RecordInv' /\ Lasting(db, db', now)
<1> DEFINE s == MarkUncertain(mem.states[t])
<1>1. /\ t \in DOMAIN mem.states /\ Unsettled(mem.states[t])
      /\ UNCHANGED <<world, connection>>
  BY DEF InterruptBegin, Active
<1>2. PICK w \in Writes(t, s) :
        Persist(t, s, w) /\ op' = IF w.ok THEN Interrupting(t) ELSE Idle
  BY DEF InterruptBegin
<1>3. StateOK(gw[t], s)
  BY <1>1, MarkKeeps DEF TurnInv, MemoryOK
<1> HIDE DEF s
<1>4. /\ Moves(db, db', t, now)
      /\ db' = db \/ Of(db', t) # {}
      /\ SealedOK(db', mem', poison') /\ FreshOK(db', mem')
  BY <1>1, <1>2, <1>3, PersistRecords
<1>5. op'.kind \in {"interrupting", "idle"}
  BY <1>2 DEF Interrupting, Idle
<1>6. op'.kind # "armed" /\ AheadOK(db', op')
  BY <1>5 DEF AheadOK
<1>7. \A u \in Turn : Pending(gw', wire' \cup stray', op', u) =>
                        Pending(gw, wire \cup stray, op, u)
  BY <1>1, <1>6, StillPending DEF world, connection, connectionVars
<1> QED  BY <1>4, <1>6, <1>7, Recorded

LEMMA LiveAppliedRecords ==
  ASSUME Roomy, TurnInv, RecordInv, LiveApplied
  PROVE  RecordInv' /\ Lasting(db, db', now)
<1> DEFINE t == Head(live).turn
           event == Head(live).event
           s == ApplyEvent(mem.states[t], event)
<1>1. /\ op = Idle /\ live # <<>> /\ t \in DOMAIN mem.states /\ UNCHANGED world
  BY DEF LiveApplied, Active
<1>2. PICK w \in Writes(t, s) :
        /\ Persist(t, s, w)
        /\ IF ~w.ok \/ FailClosed(s)
           THEN CloseAfter(t, s, "never")
           ELSE /\ op' = IF MustReconcile(s)
                         THEN Reconciling(t, s.lastSeq, 0, About("live"))
                         ELSE Idle
                /\ UNCHANGED <<wire, subs, sock, stray>>
  BY DEF LiveApplied
<1>3. /\ t \in Turn /\ gw[t].known /\ LedgerOK(gw[t]) /\ event \in Event(MaxLog)
      /\ event.seq <= Len(gw[t].log) /\ event = gw[t].log[event.seq]
  BY <1>1, HeadShown
<1>4. StateOK(gw[t], mem.states[t]) /\ Unsettled(mem.states[t])
  BY <1>1 DEF Idle, TurnInv, MemoryOK, SeverOK
<1> HIDE DEF t, event
<1>5. StateOK(gw[t], s)
  BY <1>3, <1>4, EventKeeps DEF StateOK
<1> HIDE DEF s
<1>6. /\ Moves(db, db', t, now)
      /\ db' = db \/ Of(db', t) # {}
      /\ SealedOK(db', mem', poison') /\ FreshOK(db', mem')
  BY <1>1, <1>2, <1>3, <1>4, <1>5, PersistRecords
<1>7. /\ wire' \cup stray' \subseteq wire \cup stray
      /\ op'.kind # "armed" /\ AheadOK(db', op')
  <2>1. CASE ~w.ok \/ FailClosed(s)
    <3>1. Disconnect /\ op'.kind = "sever"
      BY <1>2, <2>1, SeveringKind DEF CloseAfter
    <3> QED  BY <3>1, LinesCut, IdleAhead
  <2>2. CASE ~(~w.ok \/ FailClosed(s))
    <3>1. /\ op' = IF MustReconcile(s)
                   THEN Reconciling(t, s.lastSeq, 0, About("live")) ELSE Idle
          /\ wire' = wire /\ stray' = stray
      BY <1>2, <2>2
    <3>2. CASE MustReconcile(s)
      BY <3>1, <3>2, AboutAhead
    <3>3. CASE ~MustReconcile(s)
      BY <3>1, <3>3 DEF AheadOK, Idle
    <3> QED  BY <3>1, <3>2, <3>3
  <2> QED  BY <2>1, <2>2
<1>8. \A u \in Turn : Pending(gw', wire' \cup stray', op', u) =>
                        Pending(gw, wire \cup stray, op, u)
  BY <1>1, <1>7, StillPending DEF world
<1> QED  BY <1>3, <1>6, <1>7, <1>8, Recorded

LEMMA UncertainRecords ==
  ASSUME Roomy, TurnInv, RecordInv, NEW t, UncertainStep(t)
  PROVE  RecordInv' /\ Lasting(db, db', now)
<1> DEFINE s == MarkUncertain(mem.states[t])
<1>1. /\ op.kind = "sever" /\ op.bad = {} /\ t \in op.rest
      /\ op' = [op EXCEPT !.rest = @ \ {t}]
      /\ UNCHANGED <<world, connection>>
      /\ IF s = mem.states[t]
         THEN UNCHANGED <<mem, db, poison, faults>>
         ELSE \E w \in Writes(t, s) : Persist(t, s, w)
  BY DEF UncertainStep
<1>2. op'.kind = "sever"
  BY <1>1, SeverFacts
<1>3. t \in DOMAIN mem.states /\ Unsettled(mem.states[t])
  BY <1>1, SeverFacts
<1>4. t \in Turn /\ StateOK(gw[t], mem.states[t])
  BY <1>3 DEF TurnInv, TrafficOK, MemoryOK
<1>5. StateOK(gw[t], s)
  BY <1>4, MarkKeeps
<1>6. wire' \cup stray' \subseteq wire \cup stray
  BY <1>1 DEF connection, connectionVars
<1>7. CASE s = mem.states[t]
  BY <1>1, <1>2, <1>6, <1>7, GivenUpRecords DEF world
<1>8. CASE s # mem.states[t]
  <2>1. PICK w \in Writes(t, s) : Persist(t, s, w)
    BY <1>1, <1>8
  <2> HIDE DEF s
  <2>2. /\ Moves(db, db', t, now)
        /\ db' = db \/ Of(db', t) # {}
        /\ SealedOK(db', mem', poison') /\ FreshOK(db', mem')
    BY <1>3, <1>5, <2>1, PersistRecords
  <2>3. op'.kind # "armed" /\ AheadOK(db', op')
    BY <1>2, IdleAhead
  <2>4. \A u \in Turn : Pending(gw', wire' \cup stray', op', u) =>
                          Pending(gw, wire \cup stray, op, u)
    BY <1>1, <1>6, <2>3, StillPending DEF world
  <2> QED  BY <1>4, <2>2, <2>3, <2>4, Recorded
<1> QED  BY <1>7, <1>8

-----------------------------------------------------------------------------
(* Steps that begin or end a turn *)

\* A step about turn t, whatever it did to the journal and to memory.
LEMMA MovedRecords ==
  ASSUME TurnInv, RecordInv, TurnInv', NEW t, Moves(db, db', t, now),
         OnlyTurn(mem, mem', t),
         t \in DOMAIN mem'.states /\ Unsettled(mem'.states[t]) =>
           \A e \in Of(db', t) : ~Final(e),
         Poisoned(poison, Chat) => Poisoned(poison', Chat),
         \/ Poisoned(poison', Chat)
         \/ /\ t \in DOMAIN mem'.states /\ FailClosed(mem'.states[t]) =>
                 FailedIn(db', t)
            /\ t \in DOMAIN mem'.tombs /\ FailClosed(mem'.tombs[t]) =>
                 FailedIn(db', t),
         AheadOK(db', op'),
         \A u \in Turn : Pending(gw', wire' \cup stray', op', u) =>
                           Pending(gw, wire \cup stray, op, u) \/ u = t,
         t \in Turn /\ Pending(gw', wire' \cup stray', op', t) => Of(db', t) # {}
  PROVE  RecordInv' /\ Lasting(db, db', now)
<1>1. DOMAIN mem'.states \cup DOMAIN mem'.tombs \subseteq Turn
  BY DEF TurnInv, TrafficOK, MemoryOK
<1>2. RecordedOK(gw', wire' \cup stray', db', op')
  BY RecordedMoves
<1>3. FreshOK(db', mem')
  BY <1>1, FreshMoves DEF RecordInv
<1>4. SealedOK(db', mem', poison')
  BY <1>1, SealedMoves DEF RecordInv
<1>5. Lasting(db, db', now)
  BY MovesLast DEF TurnInv
<1> QED  BY <1>2, <1>3, <1>4, <1>5 DEF RecordInv

\* Opening writes the journal, and so drops what has expired.
LEMMA OpenRecords ==
  ASSUME Roomy, TurnInv, RecordInv, TurnInv', NEW mode, Open(mode)
  PROVE  RecordInv' /\ Lasting(db, db', now)
<1>1. PICK at : db' \in UpsertBinding(db, Chat, at, now)
  BY DEF Open
<1>2. /\ wire' = {} /\ stray' = stray \cup wire
      /\ op' = Recovering(EntriesOf(db', Chat), mode)
      /\ UNCHANGED <<world, mem, poison, faults>>
  BY DEF Open
<1>3. JournalOK(gw, used, db)
  BY DEF TurnInv
<1> DEFINE h == [db EXCEPT !.bindings = (@ \ BindingOf(db, Chat))
                                        \cup {[scope |-> Chat, at |-> at]}]
<1>4. db' \in Compact(h, now, {Chat})
  BY <1>1 DEF UpsertBinding
<1>5. h.entries = db.entries
  BY <1>3 DEF JournalOK
<1> HIDE DEF h
<1>6. /\ \A e \in db.entries : e.turn \in Turn
      /\ \A e, f \in db.entries : e.turn = f.turn => e = f
  BY <1>3, JournalScope DEF JournalOK
<1>7. db'.entries = {e \in db.entries : ~Expired(e, now)}
  <2>1. CASE Turn = {}
    BY <1>4, <1>5, <1>6, <2>1, CompactShrinks
  <2>2. ASSUME NEW t \in Turn
        PROVE  db'.entries = {e \in h.entries : ~Expired(e, now)}
    BY <1>4, <1>5, <1>6, CompactRoomy DEF Roomy
  <2> QED  BY <1>5, <2>1, <2>2
\* No turn is written.
<1>8. PICK t : t \notin Turn
  BY NoSetContainsEverything
<1>9. Moves(db, db', t, now)
  BY <1>6, <1>7, <1>8 DEF Moves, Of
<1>10. t \notin DOMAIN mem.states \cup DOMAIN mem.tombs
  BY <1>8 DEF TurnInv, TrafficOK, MemoryOK
<1>11. OnlyTurn(mem, mem', t) /\ mem' = mem /\ poison' = poison
  BY <1>2 DEF OnlyTurn
<1>12. AheadOK(db', op') /\ op'.kind # "armed"
  <2>1. TodoFresh(db', EntriesOf(db', Chat))
    <3>1. PICK d : d = db'
      OBVIOUS
    <3>2. JournalOK(gw', used', d)
      BY <3>1 DEF TurnInv
    <3>3. TodoFresh(d, EntriesOf(d, Chat))
      BY <3>2, EntriesFresh
    <3> QED  BY <3>1, <3>3
  <2> QED  BY <1>2, <2>1, RecoveringAhead
<1>13. \A u : Pending(gw', wire' \cup stray', op', u) =>
                Pending(gw, wire \cup stray, op, u)
  BY <1>2, <1>12 DEF Pending, Armed, world
<1> QED  BY <1>8, <1>9, <1>10, <1>11, <1>12, <1>13, MovedRecords

\* A step of a recovery believes memory, or makes a state of an entry that is
\* not ahead of the journal.
LEMMA RecoverStepRecords ==
  ASSUME TurnInv, RecordInv, NEW e, RecoverStep(e)
  PROVE  RecordInv' /\ Lasting(db, db', now)
<1> DEFINE t == e.turn
           s == IF t \in Active THEN mem.states[t] ELSE Rehydrate(e)
           m == Tracked(mem, t, s, e.at)
           rest == op.todo \ {e}
           context == [kind |-> "recover", todo |-> rest, mode |-> op.mode]
<1>1. /\ op.kind = "recover" /\ e \in op.todo
      /\ mem' = SettleIfDone(m, t, s)
      /\ CASE FailClosed(s) -> RecoverFails(op.mode, subs)
           [] ~FailClosed(s) /\ ~MustReconcile(s) ->
                op' = Recovering(rest, op.mode) /\ UNCHANGED connection
           [] MustReconcile(s) ->
                /\ op' = Reconciling(t, e.lastSeq, e.lastSeq, context)
                /\ UNCHANGED connection
      /\ UNCHANGED <<world, db, poison, faults>>
  BY DEF RecoverStep
<1>2. /\ used \subseteq Turn /\ MemoryOK(gw, used, mem)
      /\ op.mode \in Modes /\ TodoOK(gw, used, op.todo)
      /\ \A u \in DOMAIN mem.states : Unsettled(mem.states[u])
  BY <1>1 DEF TurnInv, TrafficOK, OpOK, SeverOK
<1>3. EntryOK(gw, e) /\ t \in used /\ e.at \in 1..MaxTime
  BY <1>1, <1>2, EntryFields DEF TodoOK, EntryOK
<1>4. TodoFresh(db, op.todo)
  BY <1>1 DEF RecordInv, AheadOK
<1>5. /\ StateOK(gw[t], s)
      /\ FailClosed(s) => FailedIn(db, t)
      /\ Unsettled(s) => \A x \in Of(db, t) : ~Final(x)
  <2>1. CASE t \in Active
    <3>1. /\ s = mem.states[t] /\ t \in DOMAIN mem.states
          /\ StateOK(gw[t], s) /\ Unsettled(s)
      BY <1>2, <2>1 DEF MemoryOK, Active
    <3> QED  BY <3>1, OpenEntries DEF Unsettled
  <2>2. CASE t \notin Active
    <3>1. s = Rehydrate(e)
      BY <2>2
    <3>2. /\ StateOK(gw[t], s) /\ (FailClosed(s) <=> FailClosed(e))
          /\ Unsettled(s) <=> ~Final(e)
      BY <1>3, <3>1, RehydrateKeeps
    <3> QED  BY <1>1, <1>4, <3>2 DEF TodoFresh, FailedIn
  <2> QED  BY <2>1, <2>2
<1>6. TodoFresh(db, rest)
  BY <1>4 DEF TodoFresh
<1> HIDE DEF s, rest, t
<1>7. /\ MemoryOK(gw, used, m) /\ OnlyTurn(mem, m, t)
      /\ t \in DOMAIN m.states /\ m.states[t] = s /\ m.tombs = mem.tombs
  <2>1. e.at \in 1..MaxTime
    BY <1>3
  <2> QED  BY <1>2, <1>3, <1>5, <2>1, OpenKeeps
<1> HIDE DEF m
<1>8. FreshOK(db, mem') /\ SealedOK(db, mem', poison)
  <2>1. CASE Unsettled(s)
    <3>1. mem' = m
      BY <1>1, <1>5, <2>1, DoneIs DEF SettleIfDone
    <3>2. \A u \in DOMAIN m.states : u \in Turn
      BY <1>2, <1>7 DEF MemoryOK
    <3>3. FreshOK(db, m)
      BY <1>5, <1>7, <2>1, <3>2 DEF RecordInv, FreshOK, OnlyTurn
    <3>4. SealedOK(db, m, poison)
      BY <1>7, <2>1, <3>2 DEF RecordInv, SealedOK, OnlyTurn, Unsettled
    <3> QED  BY <3>1, <3>3, <3>4
  <2>2. CASE ~Unsettled(s)
    <3>1. mem' = Settle(m, t, s) /\ ReducerOK(gw[t], s)
      BY <1>1, <1>5, <2>2, DoneIs DEF SettleIfDone, StateOK
    <3>2. /\ MemoryOK(gw, used, mem') /\ OnlyTurn(m, mem', t)
          /\ t \notin DOMAIN mem'.states /\ mem'.tombs[t] = ReleasePayloads(s)
      BY <1>2, <1>3, <1>7, <3>1, SettleKeeps
    <3>3. DOMAIN mem'.states \cup DOMAIN mem'.tombs \subseteq Turn
      BY <1>2, <3>2 DEF MemoryOK
    <3>4. OnlyTurn(mem, mem', t)
      BY <1>7, <3>2 DEF OnlyTurn
    <3>5. FreshOK(db, mem')
      BY <3>2, <3>3, <3>4 DEF RecordInv, FreshOK, OnlyTurn
    <3>6. FailClosed(ReleasePayloads(s)) => \E x \in Of(db, t) : FailClosed(x)
      BY <1>5, <3>1, ReleaseKeeps DEF FailedIn
    <3>7. SealedOK(db, mem', poison)
      BY <3>2, <3>3, <3>4, <3>6 DEF RecordInv, SealedOK, OnlyTurn
    <3> QED  BY <3>5, <3>7
  <2> QED  BY <2>1, <2>2
<1>9. /\ AheadOK(db, op') /\ op'.kind # "armed"
      /\ wire' \cup stray' \subseteq wire \cup stray
  <2>1. CASE FailClosed(s)
    <3>1. RecoverFails(op.mode, subs)
      BY <1>1, <2>1 DEF MustReconcile
    <3> QED  BY <1>2, <3>1, FailedRecovery, IdleAhead
  <2>2. CASE ~FailClosed(s) /\ ~MustReconcile(s)
    <3>1. op' = Recovering(rest, op.mode) /\ UNCHANGED connection
      BY <1>1, <2>2
    <3> QED  BY <1>6, <3>1, RecoveringAhead DEF connection, connectionVars
  <2>3. CASE ~FailClosed(s) /\ MustReconcile(s)
    <3>1. /\ op' = Reconciling(t, e.lastSeq, e.lastSeq, context)
          /\ UNCHANGED connection
      BY <1>1, <2>3
    <3>2. context.todo = rest
      OBVIOUS
    <3> HIDE DEF context
    <3> QED  BY <1>6, <3>1, <3>2, ReconcilingAhead DEF connection, connectionVars
  <2> QED  BY <2>1, <2>2, <2>3
<1>10. RecordedOK(gw', wire' \cup stray', db', op')
  <2>1. \A u \in Turn : Pending(gw', wire' \cup stray', op', u) =>
                          Pending(gw, wire \cup stray, op, u)
    BY <1>1, <1>9, StillPending DEF world
  <2> QED  BY <1>1, <2>1 DEF RecordInv, RecordedOK, Pending
<1> QED  BY <1>1, <1>8, <1>9, <1>10 DEF RecordInv, Lasting

\* Nothing is known yet of a prompt that was not submitted.
LEMMA UnknownTurn ==
  ASSUME TurnInv, NEW t \in Turn, t \notin used
  PROVE  /\ ~Running(gw[t]) /\ t \notin wire \cup stray
         /\ Of(db, t) = {}
         /\ t \notin DOMAIN mem.states \cup DOMAIN mem.tombs
BY DEF TurnInv, TrafficOK, JournalOK, MemoryOK, Running, Of

LEMMA SubmitBeginRecords ==
  ASSUME Roomy, TurnInv, RecordInv, TurnInv', NEW t \in Turn, SubmitBegin(t)
  PROVE  RecordInv' /\ Lasting(db, db', now)
<1> DEFINE s == MarkUncertain(Initial)
           U == used \cup {t}
<1>1. t \notin used /\ UNCHANGED <<gw, now, connection, poison>>
  BY DEF SubmitBegin
<1>2. PICK w \in Writes(t, s) :
        /\ db' = w.db
        /\ op' = IF w.ok THEN Armed(t) ELSE Idle
        /\ mem' = IF w.ok THEN Tracked(mem, t, s, w.at) ELSE mem
  BY DEF SubmitBegin
<1>3. /\ ~Running(gw[t]) /\ t \notin wire \cup stray /\ Of(db, t) = {}
      /\ t \notin DOMAIN mem.states \cup DOMAIN mem.tombs
  BY <1>1, UnknownTurn
<1>4. StateOK(gw[t], s) /\ Unsettled(s)
  BY IntentOK DEF TurnInv
<1> HIDE DEF s
<1>5. /\ U \subseteq Turn /\ t \in U /\ JournalOK(gw, U, db) /\ MemoryOK(gw, U, mem)
  BY DEF TurnInv, TrafficOK, JournalOK, MemoryOK
<1> HIDE DEF U
<1>6. w.at \in 1..MaxTime
  BY WritesAre
<1>7. /\ w.ok \in BOOLEAN /\ Moves(db, db', t, now)
      /\ w.ok => Of(db', t) # {}
      /\ \A e \in Of(db', t) : ~Final(e)
  BY <1>2, <1>3, <1>4, <1>5, WrittenMoves
<1>8. /\ OnlyTurn(mem, mem', t)
      /\ t \in DOMAIN mem'.states => mem'.states[t] = s
      /\ t \notin DOMAIN mem'.tombs
  <2>1. CASE w.ok
    <3> DEFINE n == Tracked(mem, t, s, w.at)
    <3> HIDE DEF n
    <3>1. /\ MemoryOK(gw, U, n) /\ OnlyTurn(mem, n, t)
          /\ t \in DOMAIN n.states /\ n.states[t] = s /\ n.tombs = mem.tombs
      <4>1. \A at \in 1..MaxTime :
              /\ MemoryOK(gw, U, Tracked(mem, t, s, at))
              /\ OnlyTurn(mem, Tracked(mem, t, s, at), t)
              /\ t \in DOMAIN Tracked(mem, t, s, at).states
              /\ Tracked(mem, t, s, at).states[t] = s
              /\ Tracked(mem, t, s, at).tombs = mem.tombs
        BY <1>4, <1>5, OpenKeeps
      <4> QED  BY <1>6, <4>1 DEF n
    <3>2. mem' = n
      BY <1>2, <2>1 DEF n
    <3> QED  BY <1>3, <3>1, <3>2
  <2>2. CASE ~w.ok
    <3>1. mem' = mem
      BY <1>2, <2>2
    <3> QED  BY <1>3, <3>1 DEF OnlyTurn
  <2> QED  BY <1>7, <2>1, <2>2
<1>9. AheadOK(db', op') /\ \A u : op' = Armed(u) => u = t /\ w.ok
  <2>1. op'.kind \in {"armed", "idle"} /\ (op'.kind = "armed" => op' = Armed(t) /\ w.ok)
    BY <1>2 DEF Armed, Idle
  <2>2. AheadOK(db', op')
    BY <2>1 DEF AheadOK
  <2> QED  BY <2>1, <2>2 DEF Armed
<1>10. wire' = wire /\ stray' = stray /\ gw' = gw /\ poison' = poison
  BY <1>1 DEF connection, connectionVars
<1>11. \A u \in Turn : Pending(gw', wire' \cup stray', op', u) =>
                         Pending(gw, wire \cup stray, op, u) \/ u = t
  BY <1>9, <1>10 DEF Pending
<1>12. Pending(gw', wire' \cup stray', op', t) => Of(db', t) # {}
  BY <1>3, <1>7, <1>9, <1>10 DEF Pending
<1>13. ~FailClosed(s)
  BY <1>4 DEF Unsettled
<1> QED  BY <1>4, <1>7, <1>8, <1>9, <1>10, <1>11, <1>12, <1>13, MovedRecords

\* The entry of a prompt that never reached the gateway is removed, or not.
LEMMA RemovalMoves ==
  ASSUME TurnInv, RecordInv, NEW t, t \in DOMAIN mem.states,
         Unsettled(mem.states[t]), NEW removed \in BOOLEAN, Removal(t, removed)
  PROVE  Moves(db, db', t, now) /\ \A e \in Of(db', t) : ~Final(e)
<1>1. \A e \in Of(db, t) : ~Final(e)
  BY OpenEntries
<1>2. /\ Moves(db, db, t, now) /\ Moves(db, Discard(db, Chat, t), t, now)
      /\ Of(Discard(db, Chat, t), t) = {}
  BY <1>1, StillMoves, DiscardMoves DEF TurnInv
<1>3. db' = db \/ db' = Discard(db, Chat, t)
  BY DEF Removal
<1> QED  BY <1>1, <1>2, <1>3

LEMMA RevokeRecords ==
  ASSUME TurnInv, RecordInv, TurnInv', Revoke
  PROVE  RecordInv' /\ Lasting(db, db', now)
<1> DEFINE t == op.turn
<1>1. PICK removed \in BOOLEAN :
        /\ Removal(t, removed)
        /\ mem' = IF removed THEN Discarded(mem, t) ELSE mem
  BY DEF Revoke
<1>2. op.kind = "armed" /\ op' = Idle /\ UNCHANGED <<world, connection, poison>>
  BY DEF Revoke
<1>3. /\ t \in used /\ t \in Turn /\ t \in DOMAIN mem.states
      /\ Unsettled(mem.states[t])
  BY <1>2, CallFacts
<1>4. /\ t \notin wire \cup stray /\ ~Running(gw[t])
      /\ t \notin DOMAIN mem.tombs
      /\ used \subseteq Turn /\ MemoryOK(gw, used, mem)
  BY <1>2 DEF TurnInv, TrafficOK, OpOK, CallOK, Running
<1>5. Moves(db, db', t, now) /\ \A e \in Of(db', t) : ~Final(e)
  BY <1>1, <1>3, RemovalMoves
<1>6. /\ OnlyTurn(mem, mem', t) /\ t \notin DOMAIN mem'.tombs
      /\ t \in DOMAIN mem'.states => mem'.states[t] = mem.states[t]
  <2>1. /\ OnlyTurn(mem, Discarded(mem, t), t)
        /\ t \notin DOMAIN Discarded(mem, t).states
        /\ Discarded(mem, t).tombs = mem.tombs
    BY <1>3, <1>4, DiscardedKeeps
  <2> QED  BY <1>1, <1>4, <2>1 DEF OnlyTurn
<1>7. op'.kind = "idle"
  BY <1>2 DEF Idle
<1>8. AheadOK(db', op') /\ op'.kind # "armed"
  BY <1>7, IdleAhead
<1>9. gw' = gw /\ wire' = wire /\ stray' = stray /\ poison' = poison
  BY <1>2 DEF world, connection, connectionVars
<1>10. \A u \in Turn : Pending(gw', wire' \cup stray', op', u) =>
                         Pending(gw, wire \cup stray, op, u)
  BY <1>8, <1>9, StillPending
<1>11. ~Pending(gw', wire' \cup stray', op', t)
  BY <1>4, <1>8, <1>9 DEF Pending, Armed
<1> HIDE DEF t
<1> QED  BY <1>3, <1>5, <1>6, <1>8, <1>9, <1>10, <1>11, MovedRecords DEF Unsettled

LEMMA RejectedRecords ==
  ASSUME TurnInv, RecordInv, TurnInv', Rejected
  PROVE  RecordInv' /\ Lasting(db, db', now)
<1> DEFINE t == op.turn
           s == Fail(mem.states[t], "protocolViolation")
<1>1. op.kind = "sent" /\ op.reply = Rejection /\ UNCHANGED world
  BY DEF Rejected
<1>2. PICK removed \in BOOLEAN :
        /\ Removal(t, removed)
        /\ IF removed
           THEN /\ mem' = Discarded(mem, t)
                /\ op' = Idle
                /\ UNCHANGED <<connection, poison>>
           ELSE /\ mem' = Remember(mem, t, s)
                /\ poison' = RecordPoison(poison, Chat)
                /\ Disconnect
                /\ op' = Severing(mem', {}, {}, "never")
  BY DEF Rejected
<1>3. /\ t \in used /\ t \in Turn /\ t \in DOMAIN mem.states
      /\ Unsettled(mem.states[t]) /\ StateOK(gw[t], mem.states[t])
  BY <1>1, CallFacts
<1>4. /\ t \notin wire \cup stray /\ ~Running(gw[t])
  <2>1. ReplyOK(gw, wire \cup stray, t, op.reply)
    BY <1>1 DEF TurnInv, OpOK
  <2>2. op.reply.kind = "rejected" /\ NoReply.kind = "none"
    BY <1>1 DEF NoReply, Rejection
  <2> QED  BY <2>1, <2>2 DEF ReplyOK, Running
<1>5. /\ t \notin DOMAIN mem.tombs /\ used \subseteq Turn
      /\ MemoryOK(gw, used, mem) /\ poison \in PoisonType
  BY <1>1 DEF TurnInv, TrafficOK, OpOK, CallOK, QuietOK, PoisonType
<1>6. Moves(db, db', t, now) /\ \A e \in Of(db', t) : ~Final(e)
  BY <1>2, <1>3, RemovalMoves
<1>7. /\ wire' \cup stray' \subseteq wire \cup stray
      /\ op'.kind \in {"idle", "sever"}
      /\ OnlyTurn(mem, mem', t)
      /\ Poisoned(poison, Chat) => Poisoned(poison', Chat)
      /\ \/ Poisoned(poison', Chat)
         \/ t \notin DOMAIN mem'.states /\ t \notin DOMAIN mem'.tombs
  <2>1. CASE removed
    <3> HIDE DEF s, t
    <3>1. /\ OnlyTurn(mem, Discarded(mem, t), t)
          /\ t \notin DOMAIN Discarded(mem, t).states
          /\ Discarded(mem, t).tombs = mem.tombs
      BY <1>3, <1>5, DiscardedKeeps
    <3>2. /\ mem' = Discarded(mem, t) /\ op' = Idle
          /\ wire' = wire /\ stray' = stray /\ poison' = poison
      BY <1>2, <2>1 DEF connection, connectionVars
    <3>3. op'.kind = "idle"
      BY <3>2 DEF Idle
    <3> QED  BY <1>5, <3>1, <3>2, <3>3
  <2>2. CASE ~removed
    <3>1. "protocolViolation" \in Failure
      BY DEF Failure
    <3>2. StateOK(gw[t], s)
      BY <1>3, <3>1, FailKeeps DEF StateOK
    <3> HIDE DEF s, t
    <3>3. OnlyTurn(mem, Remember(mem, t, s), t)
      BY <1>3, <1>5, <3>2, RememberKeeps
    <3>4. /\ mem' = Remember(mem, t, s) /\ Disconnect /\ op'.kind = "sever"
          /\ poison' = RecordPoison(poison, Chat)
      BY <1>2, <2>2, SeveringKind
    <3> QED  BY <1>5, <3>3, <3>4, LinesCut, PoisonIs
  <2> QED  BY <2>1, <2>2
<1>8. AheadOK(db', op') /\ op'.kind # "armed"
  BY <1>7, IdleAhead
<1>9. \A u \in Turn : Pending(gw', wire' \cup stray', op', u) =>
                        Pending(gw, wire \cup stray, op, u)
  BY <1>1, <1>7, <1>8, StillPending DEF world
<1>10. ~Pending(gw', wire' \cup stray', op', t)
  BY <1>1, <1>4, <1>7, <1>8 DEF Pending, Armed, world
<1> HIDE DEF t
<1> QED  BY <1>6, <1>7, <1>8, <1>9, <1>10, MovedRecords

\* A turn that is quarantined is no longer open, and has a tomb.
LEMMA Quarantined ==
  ASSUME TurnInv, NEW t \in DOMAIN mem.states, NEW s, StateOK(gw[t], s),
         NEW ok \in BOOLEAN
  PROVE  LET m == [mem EXCEPT !.states[t] = s]
             n == Settle(IF ok THEN Settle(m, t, s) ELSE m, t, s)
         IN /\ MemoryOK(gw, used, n) /\ OnlyTurn(mem, n, t)
            /\ t \notin DOMAIN n.states /\ t \in DOMAIN n.tombs
<1> DEFINE m == [mem EXCEPT !.states[t] = s]
<1>1. used \subseteq Turn /\ MemoryOK(gw, used, mem)
  BY DEF TurnInv, TrafficOK
<1>2. t \in used /\ t \in Turn /\ ReducerOK(gw[t], s)
  BY <1>1 DEF MemoryOK, StateOK
<1>3. /\ m = [states |-> m.states, tombs |-> m.tombs, floors |-> m.floors,
              settles |-> m.settles]
      /\ DOMAIN m.states = DOMAIN mem.states /\ m.states[t] = s
      /\ \A u \in DOMAIN mem.states : u # t => m.states[u] = mem.states[u]
      /\ m.tombs = mem.tombs /\ m.floors = mem.floors
  BY <1>1 DEF MemoryOK
<1> HIDE DEF m
<1>4. MemoryOK(gw, used, m) /\ OnlyTurn(mem, m, t)
  BY <1>1, <1>3 DEF MemoryOK, OnlyTurn
<1>5. MemoryOK(gw, used, Settle(m, t, s)) /\ OnlyTurn(m, Settle(m, t, s), t)
  BY <1>1, <1>2, <1>4, SettleKeeps
<1> DEFINE k == IF ok THEN Settle(m, t, s) ELSE m
<1>6. MemoryOK(gw, used, k) /\ OnlyTurn(mem, k, t)
  BY <1>4, <1>5 DEF OnlyTurn
<1> HIDE DEF k
<1> DEFINE n == Settle(k, t, s)
<1>7. /\ MemoryOK(gw, used, n) /\ OnlyTurn(k, n, t)
      /\ t \notin DOMAIN n.states /\ t \in DOMAIN n.tombs
  BY <1>1, <1>2, <1>6, SettleKeeps
<1> HIDE DEF n
<1>8. OnlyTurn(mem, n, t)
  BY <1>6, <1>7 DEF OnlyTurn
<1> QED  BY <1>7, <1>8 DEF n, k, m

LEMMA QuarantineRecords ==
  ASSUME Roomy, TurnInv, RecordInv, TurnInv', NEW t, QuarantineStep(t)
  PROVE  RecordInv' /\ Lasting(db, db', now)
<1> DEFINE s == Fail(mem.states[t], "protocolViolation")
<1>1. /\ op.kind = "sever" /\ t \in op.bad
      /\ op' = [op EXCEPT !.bad = @ \ {t}]
      /\ UNCHANGED <<world, connection>>
  BY DEF QuarantineStep
<1>2. PICK w \in Writes(t, s) :
        /\ db' = w.db
        /\ poison' = IF w.ok THEN poison ELSE RecordPoison(poison, Chat)
        /\ mem' = Settle(IF w.ok THEN Settle([mem EXCEPT !.states[t] = s], t, s)
                         ELSE [mem EXCEPT !.states[t] = s], t, s)
  BY DEF QuarantineStep
<1>3. t \in DOMAIN mem.states /\ Unsettled(mem.states[t])
  BY <1>1, SeverFacts
<1>4. /\ poison \in PoisonType /\ used \subseteq Turn /\ JournalOK(gw, used, db)
      /\ t \in used /\ t \in Turn /\ StateOK(gw[t], mem.states[t])
  BY <1>3 DEF TurnInv, TrafficOK, MemoryOK, QuietOK, PoisonType
<1>5. StateOK(gw[t], s) /\ FailClosed(s)
  <2>1. "protocolViolation" \in Failure
    BY DEF Failure
  <2> QED  BY <1>4, <2>1, FailKeeps DEF StateOK
<1>6. \A e \in Of(db, t) : ~Final(e)
  BY <1>3, OpenEntries
<1> HIDE DEF s
<1>7. /\ w.ok \in BOOLEAN /\ Moves(db, db', t, now)
      /\ w.ok => FailedIn(db', t)
  BY <1>2, <1>4, <1>5, <1>6, WrittenMoves
<1>8. OnlyTurn(mem, mem', t) /\ t \notin DOMAIN mem'.states
  BY <1>2, <1>3, <1>5, <1>7, Quarantined
<1>9. /\ Poisoned(poison, Chat) => Poisoned(poison', Chat)
      /\ Poisoned(poison', Chat) \/ FailedIn(db', t)
  BY <1>2, <1>4, <1>7, PoisonIs
<1>10. op'.kind = "sever"
  BY <1>1, SeverFacts
<1>11. AheadOK(db', op') /\ op'.kind # "armed"
  BY <1>10, IdleAhead
<1>12. \A u \in Turn : Pending(gw', wire' \cup stray', op', u) =>
                         Pending(gw, wire \cup stray, op, u)
  BY <1>1, <1>11, StillPending DEF world, connection, connectionVars
<1>13. Pending(gw', wire' \cup stray', op', t) => Of(db', t) # {}
  <2>1. CASE w.ok
    BY <1>7, <2>1 DEF FailedIn
  <2>2. CASE ~w.ok
    <3>1. db' = db \/ Of(db', t) # {}
      BY <1>2, <1>4, <1>5, <1>6, WrittenMoves
    <3>2. Pending(gw', wire' \cup stray', op', t) => Of(db, t) # {}
      BY <1>4, <1>12 DEF RecordInv, RecordedOK, Pending
    <3> QED  BY <3>1, <3>2
  <2> QED  BY <1>7, <2>1, <2>2
<1> QED  BY <1>7, <1>8, <1>9, <1>11, <1>12, <1>13, MovedRecords

\* What is settled keeps its failure.
LEMMA SettleEachSeals ==
  ASSUME NEW G, NEW U, NEW d, NEW m, NEW p, MemoryOK(G, U, m),
         SealedOK(d, m, p), FreshOK(d, m), NEW turns,
         turns \subseteq DOMAIN m.states \cup DOMAIN m.tombs
  PROVE  SealedOK(d, SettleEach(m, turns), p) /\ FreshOK(d, SettleEach(m, turns))
<1> DEFINE n == SettleEach(m, turns)
<1>1. /\ DOMAIN n.states = DOMAIN m.states \ turns
      /\ \A u \in DOMAIN n.states : n.states[u] = m.states[u]
      /\ DOMAIN n.tombs = DOMAIN m.tombs \cup turns
      /\ \A u \in DOMAIN n.tombs :
           n.tombs[u] = IF u \in turns THEN ReleasePayloads(Current(m, u))
                        ELSE m.tombs[u]
  BY SettleEachKeeps
<1> HIDE DEF n
<1>2. FreshOK(d, n)
  BY <1>1 DEF FreshOK
<1>3. ASSUME NEW u \in turns, FailClosed(n.tombs[u]), ~Poisoned(p, Chat)
      PROVE  \E e \in Of(d, u) : FailClosed(e)
  <2>1. /\ ReducerOK(G[u], Current(m, u))
        /\ FailClosed(Current(m, u)) => \E e \in Of(d, u) : FailClosed(e)
    BY <1>3 DEF MemoryOK, Current, StateOK, SealedOK
  <2>2. n.tombs[u] = ReleasePayloads(Current(m, u))
    BY <1>1
  <2> QED  BY <1>3, <2>1, <2>2, ReleaseKeeps
<1>4. SealedOK(d, n, p)
  BY <1>1, <1>3 DEF SealedOK
<1> QED  BY <1>2, <1>4 DEF n

LEMMA SeveredRecords ==
  ASSUME TurnInv, RecordInv, Severed
  PROVE  RecordInv' /\ Lasting(db, db', now)
<1> DEFINE over == {t \in Active : ~Unsettled(mem.states[t])}
           m == SettleEach(mem, over)
           n == SettleEach(m, op.again)
<1>1. /\ op.kind = "sever" /\ op' = Idle
      /\ mem' = NoMemory \/ mem' = n
      /\ UNCHANGED <<world, connection, db, poison, faults>>
  BY DEF Severed
<1>2. MemoryOK(gw, used, mem) /\ over \subseteq DOMAIN mem.states
  BY DEF TurnInv, Active
<1>3. op.again \subseteq DOMAIN mem.states \cup DOMAIN mem.tombs
  BY <1>1, SeverFacts
<1> HIDE DEF over
<1>4. /\ MemoryOK(gw, used, m)
      /\ DOMAIN m.states = DOMAIN mem.states \ over
      /\ DOMAIN m.tombs = DOMAIN mem.tombs \cup over
  BY <1>2, SettleEachKeeps
<1>5. SealedOK(db, m, poison) /\ FreshOK(db, m)
  BY <1>2, SettleEachSeals DEF RecordInv
<1> HIDE DEF m
<1>6. SealedOK(db, n, poison) /\ FreshOK(db, n)
  <2>1. op.again \subseteq DOMAIN m.states \cup DOMAIN m.tombs
    BY <1>2, <1>3, <1>4
  <2> QED  BY <1>4, <1>5, <2>1, SettleEachSeals
<1> HIDE DEF n
<1>7. SealedOK(db, NoMemory, poison) /\ FreshOK(db, NoMemory)
  BY NoMemoryKeeps DEF SealedOK, FreshOK
<1>8. op'.kind = "idle"
  BY <1>1 DEF Idle
<1>9. AheadOK(db', op') /\ op'.kind # "armed"
  BY <1>8, IdleAhead
<1>10. \A u \in Turn : Pending(gw', wire' \cup stray', op', u) =>
                         Pending(gw, wire \cup stray, op, u)
  BY <1>1, <1>9, StillPending DEF world, connection, connectionVars
<1>11. RecordedOK(gw', wire' \cup stray', db', op')
  BY <1>1, <1>10 DEF RecordInv, RecordedOK, Pending
<1>12. SealedOK(db', mem', poison') /\ FreshOK(db', mem') /\ db' = db
  BY <1>1, <1>6, <1>7
<1> QED  BY <1>9, <1>11, <1>12 DEF RecordInv, Lasting

LEMMA CrashRecords ==
  ASSUME TurnInv, RecordInv, Crash
  PROVE  RecordInv' /\ Lasting(db, db', now)
<1>1. /\ Disconnect /\ mem' = NoMemory /\ op' = Idle /\ db' = db
      /\ UNCHANGED world
  BY DEF Crash
<1>2. op'.kind = "idle"
  BY <1>1 DEF Idle
<1>3. AheadOK(db', op') /\ op'.kind # "armed"
  BY <1>2, IdleAhead
<1>4. \A u \in Turn : Pending(gw', wire' \cup stray', op', u) =>
                        Pending(gw, wire \cup stray, op, u)
  BY <1>1, <1>3, LinesCut, StillPending DEF world
<1>5. RecordedOK(gw', wire' \cup stray', db', op')
  BY <1>1, <1>4 DEF RecordInv, RecordedOK, Pending
<1>6. SealedOK(db', mem', poison') /\ FreshOK(db', mem')
  BY <1>1, NoMemoryKeeps DEF SealedOK, FreshOK
<1> QED  BY <1>1, <1>3, <1>5, <1>6 DEF RecordInv, Lasting

-----------------------------------------------------------------------------
(* Every step, when the journal has room *)

LEMMA CoordinatorRecords ==
  ASSUME Roomy, TurnInv, RecordInv, CoordinatorStep
  PROVE  RecordInv' /\ Lasting(db, db', now)
<1>0. TurnInv'
  BY CoordinatorKeeps
<1>1. CASE \E mode \in {"ensure", "bare", "pending"} : Open(mode)
  BY <1>0, <1>1, OpenRecords
<1>2. CASE RecoverPending
  BY <1>2, RecoverPendingRecords
<1>3. CASE Recover
  BY <1>3, RecoverStepRecords DEF Recover
<1>4. CASE Reconcile
  BY <1>4, AnsweredRecords, FailEnds, UnansweredRecords DEF Reconcile
<1>5. CASE Submit
  <2>1. CASE \E t \in Turn : SubmitBegin(t)
    BY <1>0, <2>1, SubmitBeginRecords
  <2>2. CASE Revoke \/ Send \/ SendBroken
    BY <1>0, <2>2, RevokeRecords, SendRecords, FailEnds
  <2>3. CASE Acknowledged \/ AckMismatched \/ AckMissing \/ Rejected
    BY <1>0, <2>3, AcknowledgedRecords, FailEnds, AckMissingRecords, RejectedRecords
  <2> QED  BY <1>5, <2>1, <2>2, <2>3 DEF Submit
<1>6. CASE Interrupt
  BY <1>6, InterruptBeginRecords, InterruptAskedRecords DEF Interrupt
<1>7. CASE Live
  BY <1>7, LiveAppliedRecords, SocketRecords DEF Live
<1>8. CASE TransportLost \/ Close
  BY <1>8, SocketRecords
<1>9. CASE Sever
  BY <1>0, <1>9, SeveredRecords, QuarantineRecords, UncertainRecords DEF Sever
<1> QED
  BY <1>1, <1>2, <1>3, <1>4, <1>5, <1>6, <1>7, <1>8, <1>9 DEF CoordinatorStep

LEMMA RecordStep ==
  ASSUME Roomy, TurnInv, RecordInv, [Next]_vars
  PROVE  RecordInv' /\ Lasting(db, db', now)
<1>1. CASE GatewayStep
  BY <1>1, GatewayRecords
<1>2. CASE CoordinatorStep
  BY <1>2, CoordinatorRecords
<1>3. CASE SocketCloses \/ Crash \/ ClockChange
  BY <1>3, SocketRecords, CrashRecords
<1>4. CASE UNCHANGED vars
  BY <1>4, SocketRecords
<1> QED  BY <1>1, <1>2, <1>3, <1>4 DEF Next

LEMMA RecordInit == Init => RecordInv
<1> SUFFICES ASSUME Init  PROVE RecordInv
  OBVIOUS
<1>1. /\ gw = [t \in Turn |-> NoTurn] /\ wire \cup stray = {}
      /\ mem = NoMemory /\ op = Idle
  BY DEF Init
<1>2. op.kind = "idle" /\ \A t : op # Armed(t)
  BY <1>1 DEF Idle, Armed
<1>3. \A t \in Turn : ~Running(gw[t])
  BY <1>1 DEF NoTurn, Running
<1>4. RecordedOK(gw, wire \cup stray, db, op)
  BY <1>1, <1>2, <1>3 DEF RecordedOK
<1>5. SealedOK(db, mem, poison) /\ FreshOK(db, mem)
  BY <1>1, NoMemoryKeeps DEF SealedOK, FreshOK
<1>6. AheadOK(db, op)
  BY <1>2, IdleAhead
<1> QED  BY <1>4, <1>5, <1>6 DEF RecordInv

\* As long as the journal has room for the next prompt, it knows of all that
\* may run and of all that has failed, and nothing that is still to be
\* recovered is staler than what it says.
THEOREM JournalKeepsUp == Spec /\ []Roomy => []RecordInv
<1>1. Init => TurnInv /\ RecordInv
  BY TurnInit, RecordInit
<1>2. Roomy /\ TurnInv /\ RecordInv /\ [Next]_vars => (TurnInv /\ RecordInv)'
  BY TurnStep, RecordStep
<1> QED  BY <1>1, <1>2, PTL DEF Spec

\* The write-ahead of submit: whatever the phone or the socket does after it,
\* a prompt on its way to the gateway, or running there, has an entry that a
\* restart finds.
THEOREM PromptsAreWrittenAhead == Spec /\ []Roomy => []PromptsAreRecorded
<1>1. RecordInv => PromptsAreRecorded
  BY DEF RecordInv, RecordedOK, PromptsAreRecorded, Of, EntryOf
<1> QED  BY <1>1, JournalKeepsUp, PTL

\* A turn that memory has given up as failed is failed in the journal too, so
\* that a restart does not take it up again; where the journal could not be
\* written, the chat is poisoned.
THEOREM FailuresAreWritten == Spec /\ []Roomy => []FailuresAreSealed
<1>1. RecordInv => FailuresAreSealed
  BY DEF RecordInv, SealedOK, FailuresAreSealed, Of, EntryOf
<1> QED  BY <1>1, JournalKeepsUp, PTL

\* No event, page, acknowledgement or restart overwrites an outcome in the
\* journal, and no write drops it before it is settled and old.
THEOREM OutcomesStay == Spec /\ []Roomy => OutcomesAreFinal
<1>1. Lasting(db, db', now) =>
        \A e \in db.entries :
          Settled(e) \/ FailClosed(e) =>
            \/ \E f \in db'.entries : SameCourse(e, f) /\ e.turn = f.turn
                                      /\ e.failure = f.failure
            \/ /\ IsTerminal(e) /\ ~FailClosed(e)
               /\ now - e.at > TerminalRetention
  <2> SUFFICES ASSUME Lasting(db, db', now), NEW e \in db.entries,
                      Settled(e) \/ FailClosed(e)
               PROVE  \/ \E f \in db'.entries : SameCourse(e, f) /\ e.turn = f.turn
                                                /\ e.failure = f.failure
                      \/ /\ IsTerminal(e) /\ ~FailClosed(e)
                         /\ now - e.at > TerminalRetention
    OBVIOUS
  <2>1. e \in db'.entries \/ Expired(e, now)
    BY DEF Lasting, Final
  <2>2. SameCourse(e, e)
    BY DEF SameCourse
  <2> QED  BY <2>1, <2>2 DEF Expired, Settled
<1>2. Spec /\ []Roomy => [](Roomy /\ TurnInv /\ RecordInv)
  BY PartsAgree, JournalKeepsUp, PTL
<1>3. Roomy /\ TurnInv /\ RecordInv /\ [Next]_vars =>
        [\A e \in db.entries :
           Settled(e) \/ FailClosed(e) =>
             \/ \E f \in db'.entries : SameCourse(e, f) /\ e.turn = f.turn
                                       /\ e.failure = f.failure
             \/ /\ IsTerminal(e) /\ ~FailClosed(e)
                /\ now - e.at > TerminalRetention]_vars
  BY <1>1, RecordStep
<1> QED  BY <1>2, <1>3, PTL DEF Spec, OutcomesAreFinal

\* As many prompts as the journal has places for always find room.
THEOREM FewPromptsFit ==
  ASSUME IsFiniteSet(Turn), Cardinality(Turn) <= MaxEntries
  PROVE  Spec => []Roomy
<1>1. ASSUME TurnInv  PROVE Roomy
  <2>1. /\ \A e \in db.entries : e.turn \in Turn
        /\ \A e, f \in db.entries : e.turn = f.turn => e = f
    BY <1>1, JournalScope DEF TurnInv, JournalOK
  <2>2. ASSUME NEW E \in SUBSET db.entries, NEW T \in SUBSET Turn,
               \A e \in E : e.turn \in T
        PROVE  IsFiniteSet(E) /\ Cardinality(E) <= Cardinality(T)
    <3> DEFINE F == [e \in E |-> e.turn]
    <3>1. F \in Injection(E, T)
      BY <2>1, <2>2 DEF Injection, IsInjective
    <3>2. IsFiniteSet(T)
      BY FS_Subset
    <3> QED  BY <3>1, <3>2, FS_Injection
  <2>3. IsFiniteSet(db.entries)
    BY <2>1, <2>2
  <2>4. ASSUME NEW t \in Turn, NEW E,
               E = {e \in db.entries : e.turn # t /\ ~Expired(e, now)}
        PROVE  Cardinality(E) < MaxEntries
    <3>1. Cardinality(E) <= Cardinality(Turn \ {t}) /\ IsFiniteSet(E)
      BY <2>1, <2>2, <2>4
    <3>2. Cardinality(Turn \ {t}) = Cardinality(Turn) - 1
      BY FS_RemoveElement
    <3>3. /\ Cardinality(E) \in Nat /\ Cardinality(Turn) \in Nat
          /\ MaxEntries \in Nat
      BY <3>1, FS_CardinalityType, JournalAssumption
    <3> QED  BY <3>1, <3>2, <3>3
  <2> QED  BY <2>3, <2>4 DEF Roomy, RoomIn
<1> QED  BY <1>1, PartsAgree, PTL
=============================================================================
