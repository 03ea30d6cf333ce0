-------------------------- MODULE TurnLedgerProofs --------------------------
(***************************************************************************)
(* The turn ledger of the gateway fixture, for every number of             *)
(* connections, sessions, client turns and faults: its file can always be  *)
(* loaded, what was acknowledged is kept, a turn is served once, and the   *)
(* file implements TurnBook.                                               *)
(*                                                                         *)
(* A ledger that is changed grows: bindings get newer, turns are added and *)
(* go on.  The file is behind the memory, and every write carries it to    *)
(* what the memory has grown to, so that it grows as well; what a phone    *)
(* was told, and what TurnBook promises, follow from that.                 *)
(***************************************************************************)
EXTENDS TurnLedgerServer, FiniteSetTheorems, SequenceTheorems, TLAPS

-----------------------------------------------------------------------------
(* The inductive invariant: a turn, a ledger *)

Kind == {"accepted", "running", "start", "delta", "complete", "interrupted"}
AnEvent == [seq : Nat, kind : Kind]

Turn ==
  [stored : Stored, client : ClientTurn, request : Request,
   status : {"accepted", "running", "completed", "interrupted"},
   last : Nat, first : Nat, events : Seq(AnEvent), whole : BOOLEAN]

\* The events that are left are the last ones, without a gap.
Consecutive(t) ==
  /\ t \in Turn
  /\ t.first \in 1 .. t.last + 1
  /\ Len(t.events) = t.last + 1 - t.first
  /\ \A i \in DOMAIN t.events : t.events[i].seq = t.first + i - 1

\* There were no more of them than its acceptance, the course of a turn and one
\* interrupt make.
TurnFits(t) ==
  /\ Consecutive(t)
  /\ t.whole => t.status = "completed"
  /\ t.status = "accepted" => t.last = 1
  /\ t.status = "running" => t.last \in 2 .. 6
  /\ t.status = "interrupted" => t.last \in 2 .. 7
  /\ t.status = "completed" => t.last \in 7 .. 8

Identified(L) ==
  /\ \A m \in Bound(L) : /\ L.bindings[m].stored \in 1 .. Cardinality(Bound(L))
                         /\ L.bindings[m].version > 0
  /\ \A m1, m2 \in Bound(L) :
       m1 # m2 => L.bindings[m1].stored # L.bindings[m2].stored

IsStored(L, stored) == \E m \in Bound(L) : L.bindings[m].stored = stored

Indexed(L) ==
  /\ \A id \in DOMAIN L.turns :
       /\ TurnFits(L.turns[id])
       /\ IsStored(L, L.turns[id].stored)
       /\ L.byClient[<<L.turns[id].stored, L.turns[id].client>>] = id
  /\ \A key \in Key :
       L.byClient[key] # 0 =>
         /\ L.byClient[key] \in DOMAIN L.turns
         /\ LET t == L.turns[L.byClient[key]] IN <<t.stored, t.client>> = key

Binding == [stored : Stored \cup {0}, version : Nat]
Ledger == [bindings : [Mobile -> Binding], turns : Seq(Turn),
           byClient : [Key -> Nat], submits : 0 .. MaxSubmits,
           executions : Nat]

Fits(L) ==
  /\ L \in Ledger
  /\ Identified(L)
  /\ Indexed(L)
  /\ L.executions = Len(L.turns)
  /\ Len(L.turns) <= L.submits

-----------------------------------------------------------------------------
(* How a ledger goes on *)

TurnGrows(t, u) ==
  /\ u.stored = t.stored /\ u.client = t.client
  /\ u.last >= t.last /\ u.first >= t.first
  /\ \A n \in u.first .. t.last :
       u.events[n - u.first + 1].kind = t.events[n - t.first + 1].kind
  /\ t.whole => u.whole /\ u.last = t.last

Grows(L, N) ==
  /\ \A m \in Mobile :
       /\ N.bindings[m].version >= L.bindings[m].version
       /\ L.bindings[m] # NoBinding =>
            /\ N.bindings[m] # NoBinding
            /\ N.bindings[m].stored = L.bindings[m].stored
  /\ \A id \in DOMAIN L.turns : /\ id \in DOMAIN N.turns
                                /\ TurnGrows(L.turns[id], N.turns[id])

-----------------------------------------------------------------------------
(* Handlers T, runtimes R, links K and what was told, W, of a memory D and a *)
(* file S                                                                    *)

\* So far the turn has made k steps of its course, and was perhaps interrupted.
OnCourse(t, k) ==
  \/ t.status = "accepted" /\ k = 0
  \/ t.status = "running" /\ k > 0 /\ t.last = k + 1
  \/ t.status = "interrupted" /\ t.last = k + 2

HandlerFits(h, D, S) ==
  h.at # "idle" =>
    /\ h.turn \in DOMAIN D.turns /\ h.turn \in DOMAIN S.turns
    /\ h.at = "ack" => h.step = 0 /\ OnCourse(D.turns[h.turn], 0)
    /\ h.at = "emit" =>
         /\ h.step \in 1 .. 6
         /\ h.step < 6 => OnCourse(D.turns[h.turn], h.step)
         /\ h.step = 6 => IsOver(D.turns[h.turn])
    /\ h.at = "close" =>
         IF h.fault = "mid_stream"
         THEN h.step = SecondDelta /\ OnCourse(D.turns[h.turn], SecondDelta)
         ELSE IsOver(D.turns[h.turn])

Task == [at : {"idle", "ack", "emit", "close"}, turn : 0 .. MaxSubmits,
         step : 0 .. 6, fault : Faults \cup {None}]

Handlers(T, D, S) ==
  /\ T \in [Conn -> Task]
  /\ \A c \in Conn : HandlerFits(T[c], D, S)
  /\ \A c, d \in Conn : /\ T[c].at # "idle" /\ T[d].at # "idle"
                        /\ T[c].turn = T[d].turn
                        => c = d

Tended(T, D, w) ==
  w = 0 => \A id \in DOMAIN D.turns :
             \/ IsOver(D.turns[id])
             \/ \E c \in Conn : T[c].turn = id /\ T[c].at # "idle"

Linked(K, w) ==
  /\ w \in 0 .. MaxTrouble
  /\ K \in [Conn -> {"open", "gone"}]
  /\ \A c \in Conn : K[c] = "gone" => w > 0

Runtimes(R, D) ==
  /\ R \in [Conn -> Stored \cup {0}]
  /\ \A c \in Conn : R[c] # 0 => IsStored(D, R[c])

Told(W, S) ==
  /\ W.bindings \in [Mobile -> Binding]
  /\ W = [bindings |-> W.bindings, turns |-> W.turns]
  /\ \A m \in Mobile :
       /\ S.bindings[m].version >= W.bindings[m].version
       /\ W.bindings[m] # NoBinding =>
            /\ S.bindings[m] # NoBinding
            /\ S.bindings[m].stored = W.bindings[m].stored
  /\ \A ack \in W.turns :
       /\ ack.turn \in DOMAIN S.turns
       /\ LET t == S.turns[ack.turn] IN ack.key = <<t.stored, t.client>>

LedgerInv ==
  /\ Fits(durable) /\ Fits(saved) /\ Grows(saved, durable)
  /\ Handlers(task, durable, saved)
  /\ Tended(task, durable, trouble)
  /\ Linked(link, trouble)
  /\ Runtimes(runtime, durable)
  /\ Told(told, saved)
-----------------------------------------------------------------------------
(* Turns *)

LEMMA CourseIs ==
  /\ Len(Course) = 6 /\ DOMAIN Course = 1 .. 6
  /\ Course[1] = "running" /\ Course[2] = "start" /\ Course[3] = "delta"
  /\ Course[4] = "delta" /\ Course[5] = "delta" /\ Course[6] = "complete"
BY DEF Course

LEMMA EventsOf ==
  ASSUME NEW t \in Turn
  PROVE  /\ t.events \in Seq(AnEvent) /\ Len(t.events) \in Nat
         /\ DOMAIN t.events = 1 .. Len(t.events)
BY LenProperties DEF Turn

\* One more event.
LEMMA AppendKeeps ==
  ASSUME NEW t, Consecutive(t), NEW kind \in Kind
  PROVE  LET u == AppendEvent(t, kind)
         IN  /\ Consecutive(u) /\ u.last = t.last + 1
             /\ u.stored = t.stored /\ u.client = t.client
             /\ u.status = t.status /\ u.whole = t.whole
             /\ ~ t.whole => TurnGrows(t, u)
<1> DEFINE e == [seq |-> t.last + 1, kind |-> kind]
           u == AppendEvent(t, kind)
<1>1. /\ t \in Turn /\ t.last \in Nat /\ t.first \in Nat
      /\ t.first \in 1 .. t.last + 1
      /\ Len(t.events) = t.last + 1 - t.first
      /\ \A i \in DOMAIN t.events : t.events[i].seq = t.first + i - 1
  BY DEF Consecutive, Turn
<1>2. u = [t EXCEPT !.last = t.last + 1, !.events = Append(t.events, e)]
  BY DEF AppendEvent
<1>3. e \in AnEvent /\ e.seq = t.last + 1
  BY <1>1 DEF AnEvent
<1>4. /\ t.events \in Seq(AnEvent) /\ Len(t.events) \in Nat
      /\ DOMAIN t.events = 1 .. Len(t.events)
  BY <1>1, EventsOf
<1> HIDE DEF e, u
<1>5. /\ Append(t.events, e) \in Seq(AnEvent)
      /\ Len(Append(t.events, e)) = Len(t.events) + 1
      /\ \A i \in 1 .. Len(t.events) : Append(t.events, e)[i] = t.events[i]
      /\ Append(t.events, e)[Len(t.events) + 1] = e
  BY <1>3, <1>4, AppendProperties
<1>6. /\ u \in Turn /\ u.last = t.last + 1 /\ u.first = t.first
      /\ u.events = Append(t.events, e)
      /\ u.stored = t.stored /\ u.client = t.client
      /\ u.status = t.status /\ u.whole = t.whole
  <2> DEFINE es == Append(t.events, e)
  <2> HIDE DEF es
  <2>1. es \in Seq(AnEvent) /\ u = [t EXCEPT !.last = t.last + 1, !.events = es]
    BY <1>2, <1>5 DEF es
  <2>2. /\ u.last = t.last + 1 /\ u.first = t.first /\ u.events = es
        /\ u.stored = t.stored /\ u.client = t.client
        /\ u.status = t.status /\ u.whole = t.whole
    BY <1>1, <2>1 DEF Turn
  <2>3. u = [stored |-> t.stored, client |-> t.client, request |-> t.request,
             status |-> t.status, last |-> t.last + 1, first |-> t.first,
             events |-> es, whole |-> t.whole]
    BY <1>1, <2>1 DEF Turn
  <2>4. u \in Turn
    BY <1>1, <2>1, <2>3 DEF Turn
  <2> QED  BY <2>2, <2>4 DEF es
<1>7. DOMAIN u.events = 1 .. Len(t.events) + 1
  BY <1>5, <1>6, LenProperties
<1>8. Consecutive(u)
  <2>1. ASSUME NEW i \in DOMAIN u.events
        PROVE  u.events[i].seq = u.first + i - 1
    <3>1. CASE i \in 1 .. Len(t.events)
      BY <1>1, <1>4, <1>5, <1>6, <3>1
    <3>2. CASE i = Len(t.events) + 1
      BY <1>1, <1>3, <1>4, <1>5, <1>6, <3>2
    <3> QED  BY <1>4, <1>7, <2>1, <3>1, <3>2
  <2>2. u.first \in 1 .. u.last + 1 /\ Len(u.events) = u.last + 1 - u.first
    BY SMTT(30), <1>1, <1>5, <1>6
  <2> QED  BY <1>6, <2>1, <2>2 DEF Consecutive
<1>9. TurnGrows(t, u) \/ t.whole
  <2>1. ASSUME NEW n \in u.first .. t.last
        PROVE  u.events[n - u.first + 1].kind = t.events[n - t.first + 1].kind
    <3> DEFINE i == n - t.first + 1
    <3>1. u.first = t.first /\ n \in t.first .. t.last
      BY <1>6, <2>1
    <3>2. i \in 1 .. Len(t.events)
      BY <1>1, <3>1
    <3> HIDE DEF i
    <3>3. u.events[i] = t.events[i]
      BY <1>5, <1>6, <3>2
    <3>4. n - u.first + 1 = i
      BY <3>1 DEF i
    <3> QED  BY <3>3, <3>4, Zenon DEF i
  <2>2. u.last >= t.last /\ u.first >= t.first
    BY <1>1, <1>6
  <2> QED  BY <1>6, <2>1, <2>2 DEF TurnGrows
<1> QED  BY <1>6, <1>8, <1>9 DEF u

\* What does not touch the events of a turn.
LEMMA RelabelKeeps ==
  ASSUME NEW t, Consecutive(t),
         NEW status \in {"accepted", "running", "completed", "interrupted"},
         NEW whole \in BOOLEAN, t.whole => whole
  PROVE  LET u == [t EXCEPT !.status = status, !.whole = whole]
         IN  /\ Consecutive(u) /\ u.last = t.last
             /\ u.stored = t.stored /\ u.client = t.client
             /\ u.status = status /\ u.whole = whole
             /\ TurnGrows(t, u)
<1> DEFINE u == [t EXCEPT !.status = status, !.whole = whole]
<1>1. t \in Turn
  BY DEF Consecutive
<1>2. /\ u \in Turn /\ u.last = t.last /\ u.first = t.first
      /\ u.events = t.events /\ u.stored = t.stored /\ u.client = t.client
      /\ u.status = status /\ u.whole = whole
  BY <1>1 DEF Turn
<1>3. t.last \in Nat /\ t.first \in Nat
  BY <1>1 DEF Turn
<1> HIDE DEF u
<1>4. Consecutive(u)
  BY <1>2 DEF Consecutive
<1>5. TurnGrows(t, u)
  BY <1>2, <1>3 DEF TurnGrows
<1> QED  BY <1>2, <1>4, <1>5 DEF u

LEMMA GrowsFurther ==
  ASSUME NEW t, NEW u, NEW v, Consecutive(t), Consecutive(u), Consecutive(v),
         TurnGrows(t, u), TurnGrows(u, v)
  PROVE  TurnGrows(t, v)
<1>1. /\ t.last \in Nat /\ u.last \in Nat /\ v.last \in Nat
      /\ t.first \in Nat /\ u.first \in Nat /\ v.first \in Nat
  BY DEF Consecutive, Turn
<1>2. ASSUME NEW n \in v.first .. t.last
      PROVE  v.events[n - v.first + 1].kind = t.events[n - t.first + 1].kind
  <2>1. n \in u.first .. t.last /\ n \in v.first .. u.last
    BY <1>1, <1>2 DEF TurnGrows
  <2> QED  BY <2>1 DEF TurnGrows
<1> QED  BY <1>1, <1>2 DEF TurnGrows

LEMMA NewTurnFits ==
  ASSUME NEW stored \in Stored, NEW client \in ClientTurn,
         NEW request \in Request
  PROVE  LET t == NewTurn(stored, client, request)
         IN  /\ TurnFits(t) /\ t.status = "accepted"
             /\ t.stored = stored /\ t.client = client
<1> DEFINE z == [stored |-> stored, client |-> client, request |-> request,
                 status |-> "accepted", last |-> 0, first |-> 1,
                 events |-> <<>>, whole |-> FALSE]
<1>1. /\ z \in Turn /\ z.last = 0 /\ z.first = 1 /\ z.events = <<>>
      /\ z.status = "accepted" /\ z.whole = FALSE
      /\ z.stored = stored /\ z.client = client
  BY EmptySeq DEF Turn
<1>2. NewTurn(stored, client, request) = AppendEvent(z, "accepted")
  BY Zenon DEF NewTurn
<1> HIDE DEF z
<1>3. Consecutive(z)
  BY <1>1, EmptySeq DEF Consecutive
<1>4. "accepted" \in Kind
  BY DEF Kind
<1> DEFINE u == AppendEvent(z, "accepted")
<1>5. /\ Consecutive(u) /\ u.last = 1 /\ u.status = "accepted"
      /\ u.whole = FALSE /\ u.stored = stored /\ u.client = client
  BY <1>1, <1>3, <1>4, AppendKeeps
<1> HIDE DEF u
<1>6. TurnFits(u)
  BY <1>5 DEF TurnFits
<1> QED  BY <1>2, <1>5, <1>6 DEF u

\* The next step of the course, unless the turn was stopped before the first.
LEMMA AdvanceGoes ==
  ASSUME NEW t, TurnFits(t), NEW k \in 0 .. 5, OnCourse(t, k),
         k = 0 => ~ IsOver(t)
  PROVE  LET u == Advance(t, k + 1)
         IN  /\ TurnFits(u) /\ TurnGrows(t, u)
             /\ k < 5 => OnCourse(u, k + 1)
             /\ k = 5 => IsOver(u)
<1> DEFINE a == AppendEvent(t, Course[k + 1])
           u == Advance(t, k + 1)
<1>1. /\ Consecutive(t) /\ t.last \in Nat /\ t.whole \in BOOLEAN
      /\ t.status \in {"accepted", "running", "interrupted"} /\ ~ t.whole
      /\ t.status = "accepted" => t.last = 1
  BY DEF TurnFits, Consecutive, Turn, OnCourse
<1>2. Course[k + 1] \in Kind
  BY CourseIs DEF Kind
<1>3. /\ Consecutive(a) /\ a.last = t.last + 1
      /\ a.stored = t.stored /\ a.client = t.client
      /\ a.status = t.status /\ a.whole = FALSE /\ TurnGrows(t, a)
  BY <1>1, <1>2, AppendKeeps
<1> HIDE DEF a
<1>4. CASE k = 0
  <2>1. u = [a EXCEPT !.status = "running"]
    BY <1>4, CourseIs DEF Advance, a
  <2>2. u = [a EXCEPT !.status = "running", !.whole = FALSE]
    BY <1>3, <2>1 DEF Consecutive, Turn
  <2> HIDE DEF u
  <2>3. Consecutive(u) /\ TurnGrows(a, u) /\ u.last = a.last
        /\ u.status = "running" /\ u.whole = FALSE
    <3> DEFINE v == [a EXCEPT !.status = "running", !.whole = FALSE]
    <3>1. /\ Consecutive(a) /\ FALSE \in BOOLEAN /\ (a.whole => FALSE)
          /\ "running" \in {"accepted", "running", "completed", "interrupted"}
      BY <1>3
    <3>2. /\ Consecutive(v) /\ v.last = a.last
          /\ v.status = "running" /\ v.whole = FALSE /\ TurnGrows(a, v)
      BY <3>1, RelabelKeeps, Zenon
    <3> QED  BY <2>2, <3>2, Zenon
  <2>4. TurnGrows(t, u)
    BY <1>1, <1>3, <2>3, GrowsFurther
  <2>5. t.status = "accepted" /\ t.last = 1
    BY <1>1, <1>4 DEF IsOver, Terminal, OnCourse
  <2>6. TurnFits(u) /\ OnCourse(u, 1)
    BY <1>3, <2>3, <2>5 DEF TurnFits, OnCourse
  <2> QED  BY <1>4, <2>4, <2>6 DEF u
<1>5. CASE k \in 1 .. 4
  <2>1. u = a
    BY <1>5, CourseIs DEF Advance, a
  <2> HIDE DEF u
  <2>2. TurnFits(a) /\ OnCourse(a, k + 1)
    BY <1>1, <1>3, <1>5 DEF TurnFits, OnCourse
  <2> QED  BY <1>3, <1>5, <2>1, <2>2 DEF u
<1>6. CASE k = 5
  <2>1. u = [a EXCEPT !.status = "completed", !.whole = TRUE]
    BY <1>6, CourseIs DEF Advance, a
  <2> HIDE DEF u
  <2>2. Consecutive(u) /\ TurnGrows(a, u) /\ u.last = a.last
        /\ u.status = "completed" /\ u.whole = TRUE
    BY <1>3, <2>1, RelabelKeeps
  <2>3. TurnGrows(t, u)
    BY <1>1, <1>3, <2>2, GrowsFurther
  <2>4. TurnFits(u) /\ IsOver(u)
    BY <1>1, <1>3, <1>6, <2>2 DEF TurnFits, OnCourse, IsOver, Terminal
  <2> QED  BY <1>6, <2>3, <2>4 DEF u
<1> QED  BY <1>4, <1>5, <1>6

LEMMA InterruptedGoes ==
  ASSUME NEW t, TurnFits(t), ~ IsOver(t)
  PROVE  LET u == Interrupted(t)
         IN  /\ TurnFits(u) /\ TurnGrows(t, u) /\ IsOver(u)
             /\ \A k \in 0 .. 5 : OnCourse(t, k) => OnCourse(u, k)
<1> DEFINE a == [t EXCEPT !.status = "interrupted"]
           u == AppendEvent(a, "interrupted")
<1>1. /\ Consecutive(t) /\ t \in Turn /\ t.last \in Nat
      /\ t.status \in {"accepted", "running"} /\ t.whole = FALSE
      /\ t.status = "accepted" => t.last = 1
      /\ t.status = "running" => t.last \in 2 .. 6
  BY DEF TurnFits, Consecutive, Turn, IsOver, Terminal
<1>2. a = [t EXCEPT !.status = "interrupted", !.whole = FALSE]
  BY <1>1 DEF Turn
<1> HIDE DEF a
<1>3. /\ Consecutive(a) /\ TurnGrows(t, a) /\ a.last = t.last
      /\ a.status = "interrupted" /\ a.whole = FALSE
  BY <1>1, <1>2, RelabelKeeps
<1>4. "interrupted" \in Kind
  BY DEF Kind
<1>5. /\ Consecutive(u) /\ TurnGrows(a, u) /\ u.last = t.last + 1
      /\ u.status = "interrupted" /\ u.whole = FALSE
  BY <1>3, <1>4, AppendKeeps
<1> HIDE DEF u
<1>6. TurnGrows(t, u)
  BY <1>1, <1>3, <1>5, GrowsFurther
<1>7. TurnFits(u) /\ IsOver(u)
  BY <1>1, <1>5 DEF TurnFits, IsOver, Terminal
<1>8. ASSUME NEW k \in 0 .. 5, OnCourse(t, k)
      PROVE  OnCourse(u, k)
  BY <1>1, <1>5, <1>8 DEF OnCourse
<1> QED  BY <1>6, <1>7, <1>8 DEF Interrupted, u, a

LEMMA PrunedGoes ==
  ASSUME NEW t, TurnFits(t)
  PROVE  LET u == Pruned(t)
         IN  /\ TurnFits(u) /\ TurnGrows(t, u) /\ (IsOver(t) <=> IsOver(u))
             /\ \A k \in 0 .. 5 : OnCourse(t, k) => OnCourse(u, k)
<1> DEFINE u == Pruned(t)
<1>1. t \in Turn /\ t.last \in Nat /\ t.first \in Nat /\ t.first <= t.last + 1
  BY DEF TurnFits, Consecutive, Turn
<1> DEFINE es == <<>>
<1>2. es \in Seq(AnEvent) /\ Len(es) = 0
  BY EmptySeq
<1>a. u = [t EXCEPT !.first = t.last + 1, !.events = es]
  BY DEF Pruned
<1> HIDE DEF es, u
<1>3. /\ u.first = t.last + 1 /\ u.events = es /\ u.last = t.last
      /\ u.status = t.status /\ u.whole = t.whole
      /\ u.stored = t.stored /\ u.client = t.client
  BY <1>1, <1>a DEF Turn
<1>4. u = [stored |-> t.stored, client |-> t.client, request |-> t.request,
           status |-> t.status, last |-> t.last, first |-> t.last + 1,
           events |-> es, whole |-> t.whole]
  BY <1>1, <1>a DEF Turn
<1>5. u \in Turn
  BY <1>1, <1>2, <1>4 DEF Turn
<1>b. DOMAIN es = {}
  BY EmptySeq DEF es
<1>6. Consecutive(u)
  BY <1>1, <1>2, <1>3, <1>5, <1>b DEF Consecutive
<1>7. TurnFits(u)
  BY <1>3, <1>6 DEF TurnFits
<1>8. TurnGrows(t, u)
  BY <1>1, <1>3 DEF TurnGrows
<1>9. (IsOver(t) <=> IsOver(u)) /\ \A k \in 0 .. 5 : OnCourse(t, k) => OnCourse(u, k)
  BY <1>3 DEF IsOver, OnCourse
<1> QED  BY <1>7, <1>8, <1>9 DEF u

\* The whole course of a turn that has not begun.
LEMMA FinishGoes ==
  ASSUME NEW t, TurnFits(t), OnCourse(t, 0), ~ IsOver(t)
  PROVE  LET u == Finish(t)
         IN  TurnFits(u) /\ TurnGrows(t, u) /\ IsOver(u)
<1> DEFINE es == [i \in 1 .. 6 |-> [seq |-> t.last + i, kind |-> Course[i]]]
           all == t.events \o es
           u == Finish(t)
<1>1. /\ Consecutive(t) /\ t \in Turn /\ t.last = 1 /\ t.first \in Nat
      /\ t.first <= t.last + 1 /\ t.whole = FALSE
  BY DEF TurnFits, Consecutive, Turn, OnCourse, IsOver, Terminal
<1>2. /\ t.events \in Seq(AnEvent) /\ Len(t.events) \in Nat
      /\ DOMAIN t.events = 1 .. Len(t.events) /\ Len(t.events) = 2 - t.first
      /\ \A i \in DOMAIN t.events : t.events[i].seq = t.first + i - 1
  BY <1>1, EventsOf DEF Consecutive
<1>3. es \in Seq(AnEvent) /\ Len(es) = 6
  <2>1. \A i \in 1 .. 6 : [seq |-> t.last + i, kind |-> Course[i]] \in AnEvent
    BY <1>1, CourseIs DEF AnEvent, Kind
  <2>2. es \in [1 .. 6 -> AnEvent]
    BY <2>1
  <2> HIDE DEF es
  <2>3. [1 .. 6 -> AnEvent] \in {[1 .. n -> AnEvent] : n \in Nat}
    OBVIOUS
  <2>4. es \in Seq(AnEvent)
    BY <2>2, <2>3, SeqDef
  <2>5. Len(es) \in Nat /\ 1 .. Len(es) = 1 .. 6
    BY <2>2, <2>4, LenProperties
  <2>6. Len(es) = 6
    <3>1. \A i : i \in 1 .. 6 <=> i \in 1 .. Len(es)
      BY <2>5, Zenon
    <3>2. 6 \in 1 .. Len(es)
      BY <3>1
    <3>3. Len(es) \in 1 .. Len(es)
      BY <2>5, <3>2
    <3>4. Len(es) \in 1 .. 6
      BY <3>1, <3>3, Zenon
    <3> DEFINE n == Len(es)
    <3>5. n \in Nat /\ 6 \in 1 .. n /\ n \in 1 .. 6
      BY <2>5, <3>2, <3>4
    <3> HIDE DEF n
    <3>6. n = 6
      BY <3>5
    <3> QED  BY <3>6 DEF n
  <2> QED  BY <2>4, <2>6
<1>4. \A i \in 1 .. 6 : es[i].seq = 1 + i
  BY <1>1
<1>5. u = [t EXCEPT !.status = "completed", !.whole = TRUE, !.last = t.last + 6,
                    !.events = all]
  BY CourseIs DEF Finish
<1> HIDE DEF es, u
<1>a. /\ all \in Seq(AnEvent) /\ Len(all) = Len(t.events) + Len(es)
      /\ \A i \in 1 .. Len(t.events) + Len(es) :
           all[i] = IF i <= Len(t.events) THEN t.events[i]
                    ELSE es[i - Len(t.events)]
  BY <1>2, <1>3, ConcatProperties
<1>6. /\ all \in Seq(AnEvent) /\ Len(all) = Len(t.events) + 6
      /\ \A i \in 1 .. Len(t.events) + 6 :
           all[i] = IF i <= Len(t.events) THEN t.events[i]
                    ELSE es[i - Len(t.events)]
  BY <1>3, <1>a
<1> HIDE DEF all
<1>7. /\ u.last = 7 /\ u.first = t.first /\ u.events = all
      /\ u.status = "completed" /\ u.whole = TRUE
      /\ u.stored = t.stored /\ u.client = t.client
  BY <1>1, <1>5 DEF Turn
<1>8. u = [stored |-> t.stored, client |-> t.client, request |-> t.request,
           status |-> "completed", last |-> 7, first |-> t.first,
           events |-> all, whole |-> TRUE]
  <2> DEFINE v == [t EXCEPT !.status = "completed", !.whole = TRUE]
  <2>1. v \in Turn /\ v = [t EXCEPT !.status = "completed", !.whole = TRUE]
    BY <1>1 DEF Turn
  <2>2. u = [v EXCEPT !.last = t.last + 6, !.events = all]
    BY <1>1, <1>5 DEF Turn
  <2> HIDE DEF v
  <2>3. /\ v.stored = t.stored /\ v.client = t.client /\ v.request = t.request
        /\ v.status = "completed" /\ v.first = t.first /\ v.whole = TRUE
    BY <1>1, <2>1 DEF Turn
  <2>4. u = [stored |-> v.stored, client |-> v.client, request |-> v.request,
             status |-> v.status, last |-> t.last + 6, first |-> v.first,
             events |-> all, whole |-> v.whole]
    BY <2>1, <2>2 DEF Turn
  <2>5. t.last + 6 = 7
    BY <1>1
  <2> QED  BY <2>3, <2>4, <2>5, Zenon
<1>9. u \in Turn
  BY <1>1, <1>6, <1>8 DEF Turn
<1>10. DOMAIN all = 1 .. Len(t.events) + 6
  BY <1>6, LenProperties
<1>11. ASSUME NEW i \in 1 .. Len(t.events) + 6
       PROVE  all[i].seq = t.first + i - 1
  <2>0. all[i] = IF i <= Len(t.events) THEN t.events[i]
                 ELSE es[i - Len(t.events)]
    BY <1>6, <1>11
  <2>1. CASE i <= Len(t.events)
    <3>1. i \in DOMAIN t.events
      BY <1>2, <2>1
    <3>2. t.events[i].seq = t.first + i - 1
      BY <1>2, <3>1
    <3> QED  BY <2>0, <2>1, <3>2
  <2>2. CASE ~ i <= Len(t.events)
    <3> DEFINE n == Len(t.events)
               k == i - n
    <3>1. n \in Nat /\ n = 2 - t.first /\ i \in 1 .. n + 6 /\ ~ i <= n
      BY <1>2, <2>2
    <3>2. all[i] = es[k]
      BY <2>0, <2>2
    <3>a. t.first \in Nat
      BY <1>1
    <3> HIDE DEF n
    <3>b. i \in Nat /\ i <= n + 6 /\ i > n
      BY <3>1
    <3>c. \A x, y, z \in Int : y = 2 - x /\ z <= y + 6 /\ z > y
            => z - y \in 1 .. 6 /\ 1 + (z - y) = x + z - 1
      OBVIOUS
    <3>d. n = 2 - t.first
      BY <3>1
    <3>e. n \in Int /\ i \in Int /\ t.first \in Int
      BY <3>1, <3>a, <3>b
    <3>3. k \in 1 .. 6 /\ 1 + k = t.first + i - 1
      BY <3>b, <3>c, <3>d, <3>e, Zenon
    <3> HIDE DEF k
    <3>4. es[k].seq = 1 + k
      BY <1>4, <3>3
    <3> QED  BY <3>2, <3>3, <3>4
  <2> QED  BY <2>1, <2>2
<1>12. Consecutive(u)
  <2>1. u.first \in 1 .. u.last + 1 /\ Len(u.events) = u.last + 1 - u.first
    BY <1>1, <1>2, <1>6, <1>7 DEF Consecutive
  <2> QED  BY <1>7, <1>9, <1>10, <1>11, <2>1 DEF Consecutive
<1>13. TurnFits(u) /\ IsOver(u)
  BY <1>7, <1>12 DEF TurnFits, IsOver, Terminal
<1>14. TurnGrows(t, u)
  <2>1. ASSUME NEW n \in u.first .. t.last
        PROVE  u.events[n - u.first + 1].kind = t.events[n - t.first + 1].kind
    <3>1. n - t.first + 1 \in 1 .. Len(t.events)
      BY <1>1, <1>2, <1>7
    <3> DEFINE i == n - t.first + 1
    <3>3. i \in 1 .. Len(t.events) + 6 /\ i <= Len(t.events)
      BY <1>2, <3>1
    <3> HIDE DEF i
    <3>4. all[i] = t.events[i]
      BY <1>6, <3>3
    <3>2. all[n - t.first + 1] = t.events[n - t.first + 1]
      BY <3>4 DEF i
    <3> QED  BY <1>7, <3>2
  <2> QED  BY <1>1, <1>7, <2>1 DEF TurnGrows
<1> QED  BY <1>13, <1>14 DEF u
-----------------------------------------------------------------------------
(* Ledgers *)

LEMMA ATurn ==
  ASSUME NEW L, Fits(L), NEW id \in DOMAIN L.turns
  PROVE  TurnFits(L.turns[id]) /\ Consecutive(L.turns[id]) /\ L.turns[id] \in Turn
BY DEF Fits, Indexed, TurnFits, Consecutive

LEMMA TurnsOf ==
  ASSUME NEW L, Fits(L)
  PROVE  /\ L.turns \in Seq(Turn) /\ Len(L.turns) \in Nat
         /\ DOMAIN L.turns = 1 .. Len(L.turns)
BY LenProperties DEF Fits, Ledger

LEMMA GrowsSelf ==
  ASSUME NEW L, Fits(L)
  PROVE  Grows(L, L)
<1>1. ASSUME NEW id \in DOMAIN L.turns
      PROVE  TurnGrows(L.turns[id], L.turns[id])
  <2>1. L.turns[id].last \in Nat /\ L.turns[id].first \in Nat
    BY ATurn DEF Turn
  <2> QED  BY <2>1 DEF TurnGrows
<1>2. \A m \in Mobile : L.bindings[m].version \in Nat
  BY DEF Fits, Ledger, Binding
<1> QED  BY <1>1, <1>2 DEF Grows

LEMMA LedgerGrowsFurther ==
  ASSUME NEW L, NEW M, NEW N, Fits(L), Fits(M), Fits(N),
         Grows(L, M), Grows(M, N)
  PROVE  Grows(L, N)
<1>1. ASSUME NEW id \in DOMAIN L.turns
      PROVE  id \in DOMAIN N.turns /\ TurnGrows(L.turns[id], N.turns[id])
  <2>1. id \in DOMAIN M.turns /\ TurnGrows(L.turns[id], M.turns[id])
    BY DEF Grows
  <2>2. id \in DOMAIN N.turns /\ TurnGrows(M.turns[id], N.turns[id])
    BY <2>1 DEF Grows
  <2>3. /\ Consecutive(L.turns[id]) /\ Consecutive(M.turns[id])
        /\ Consecutive(N.turns[id])
    BY <2>1, <2>2, ATurn
  <2> QED  BY <2>1, <2>2, <2>3, GrowsFurther
<1>2. ASSUME NEW m \in Mobile
      PROVE  /\ N.bindings[m].version >= L.bindings[m].version
             /\ L.bindings[m] # NoBinding =>
                  /\ N.bindings[m] # NoBinding
                  /\ N.bindings[m].stored = L.bindings[m].stored
  <2>1. /\ L.bindings[m].version \in Nat /\ M.bindings[m].version \in Nat
        /\ N.bindings[m].version \in Nat
    BY DEF Fits, Ledger, Binding
  <2>2. /\ M.bindings[m].version >= L.bindings[m].version
        /\ N.bindings[m].version >= M.bindings[m].version
    BY DEF Grows
  <2>3. L.bindings[m] # NoBinding =>
          /\ N.bindings[m] # NoBinding
          /\ N.bindings[m].stored = L.bindings[m].stored
    BY DEF Grows
  <2> QED  BY <2>1, <2>2, <2>3
<1> QED  BY <1>1, <1>2 DEF Grows

\* One turn goes on.
LEMMA PutTurn ==
  ASSUME NEW L, Fits(L), NEW id \in DOMAIN L.turns, NEW u, TurnFits(u),
         TurnGrows(L.turns[id], u)
  PROVE  LET N == [L EXCEPT !.turns[id] = u]
         IN  /\ Fits(N) /\ Grows(L, N)
             /\ DOMAIN N.turns = DOMAIN L.turns /\ N.turns[id] = u
             /\ \A i \in DOMAIN L.turns \ {id} : N.turns[i] = L.turns[i]
<1> DEFINE N == [L EXCEPT !.turns[id] = u]
           us == [L.turns EXCEPT ![id] = u]
<1>1. /\ L.turns \in Seq(Turn) /\ Len(L.turns) \in Nat
      /\ DOMAIN L.turns = 1 .. Len(L.turns) /\ u \in Turn
  BY TurnsOf DEF TurnFits, Consecutive
<1>2. us \in Seq(Turn) /\ Len(us) = Len(L.turns) /\ us[id] = u
      /\ \A i \in DOMAIN L.turns \ {id} : us[i] = L.turns[i]
  BY <1>1, ExceptSeq
<1>3. DOMAIN us = DOMAIN L.turns
  OBVIOUS
<1> HIDE DEF us
<1>4. /\ N \in Ledger /\ N.bindings = L.bindings /\ N.turns = us
      /\ N.byClient = L.byClient /\ N.submits = L.submits
      /\ N.executions = L.executions
  <2>1. L \in Ledger
    BY DEF Fits
  <2>2. N = [L EXCEPT !.turns = us]
    BY DEF us
  <2> HIDE DEF N
  <2> QED  BY <1>2, <2>1, <2>2 DEF Ledger
<1> HIDE DEF N
<1>5. Bound(N) = Bound(L)
  BY <1>4 DEF Bound
<1>6. Identified(N)
  BY <1>4, <1>5 DEF Fits, Identified
<1>7. \A stored : IsStored(L, stored) => IsStored(N, stored)
  BY <1>4, <1>5 DEF IsStored
<1>8. \A i \in DOMAIN L.turns : /\ N.turns[i].stored = L.turns[i].stored
                                /\ N.turns[i].client = L.turns[i].client
                                /\ TurnFits(N.turns[i])
  BY <1>2, <1>4, ATurn DEF TurnGrows
<1>9. Indexed(N)
  <2>1. ASSUME NEW i \in DOMAIN N.turns
        PROVE  /\ TurnFits(N.turns[i])
               /\ IsStored(N, N.turns[i].stored)
               /\ N.byClient[<<N.turns[i].stored, N.turns[i].client>>] = i
    BY <1>3, <1>4, <1>7, <1>8 DEF Fits, Indexed
  <2>2. ASSUME NEW key \in Key, N.byClient[key] # 0
        PROVE  /\ N.byClient[key] \in DOMAIN N.turns
               /\ LET t == N.turns[N.byClient[key]] IN <<t.stored, t.client>> = key
    BY <1>3, <1>4, <1>8, <2>2 DEF Fits, Indexed
  <2> QED  BY <2>1, <2>2 DEF Indexed
<1>10. Fits(N)
  BY <1>2, <1>4, <1>6, <1>9 DEF Fits
<1>11. Grows(L, N)
  <2>1. Grows(L, L)
    BY GrowsSelf
  <2>2. \A i \in DOMAIN L.turns : TurnGrows(L.turns[i], N.turns[i])
    BY <1>2, <1>4, <2>1 DEF Grows
  <2> QED  BY <1>3, <1>4, <2>1, <2>2 DEF Grows
<1> QED  BY <1>2, <1>3, <1>4, <1>10, <1>11 DEF N

LEMMA CountedFits ==
  ASSUME Fits(durable), durable.submits < MaxSubmits
  PROVE  /\ Fits(Counted) /\ Grows(durable, Counted)
         /\ Counted.turns = durable.turns
         /\ Counted.bindings = durable.bindings
         /\ Counted.byClient = durable.byClient
         /\ Counted.executions = durable.executions
         /\ Counted.submits = durable.submits + 1
<1> DEFINE N == Counted
<1>1. durable \in Ledger /\ MaxSubmits \in Nat
  BY ServerAssumption DEF Fits
<1>2. /\ N \in Ledger /\ N.bindings = durable.bindings
      /\ N.turns = durable.turns /\ N.byClient = durable.byClient
      /\ N.submits = durable.submits + 1 /\ N.executions = durable.executions
  <2>1. N = [durable EXCEPT !.submits = durable.submits + 1]
    BY Zenon DEF Counted
  <2>2. durable.submits + 1 \in 0 .. MaxSubmits
    BY <1>1 DEF Ledger
  <2> DEFINE k == durable.submits + 1
  <2>3. N = [durable EXCEPT !.submits = k] /\ k \in 0 .. MaxSubmits
    BY <2>1, <2>2
  <2> HIDE DEF N, k
  <2>4. /\ N \in Ledger /\ N.bindings = durable.bindings
        /\ N.turns = durable.turns /\ N.byClient = durable.byClient
        /\ N.submits = k /\ N.executions = durable.executions
    BY <1>1, <2>3 DEF Ledger
  <2> QED  BY <2>4 DEF k
<1> HIDE DEF N
<1>3. Identified(N) /\ Indexed(N)
  <2>1. Bound(N) = Bound(durable)
    BY <1>2 DEF Bound
  <2> QED  BY SMTT(30), <1>2, <2>1 DEF Fits, Identified, Indexed, IsStored
<1>4. Fits(N)
  <2>1. Len(N.turns) \in Nat /\ durable.submits \in Nat
    BY <1>1, <1>2, TurnsOf DEF Ledger
  <2> QED  BY <1>2, <1>3, <2>1 DEF Fits
<1>5. Grows(durable, N)
  BY <1>2, GrowsSelf DEF Grows
<1> QED  BY <1>2, <1>4, <1>5 DEF N

\* A new turn, for a session that is stored.
LEMMA CommittedFits ==
  ASSUME Fits(durable), durable.submits < MaxSubmits,
         NEW c \in Conn, NEW client \in ClientTurn, NEW request \in Request,
         runtime[c] \in Stored, IsStored(durable, runtime[c]),
         durable.byClient[<<runtime[c], client>>] = 0
  PROVE  LET N == Committed(c, client, request)
             id == Len(durable.turns) + 1
         IN  /\ Fits(N) /\ Grows(durable, N)
             /\ DOMAIN N.turns = DOMAIN durable.turns \cup {id}
             /\ id \notin DOMAIN durable.turns /\ Len(N.turns) = id
             /\ \A i \in DOMAIN durable.turns : N.turns[i] = durable.turns[i]
             /\ TurnFits(N.turns[id]) /\ N.turns[id].status = "accepted"
<1> DEFINE stored == runtime[c]
           key == <<stored, client>>
           id == Len(durable.turns) + 1
           t == NewTurn(stored, client, request)
           ts == Append(durable.turns, t)
           index == [durable.byClient EXCEPT ![key] = id]
           N == Committed(c, client, request)
<1>1. /\ TurnFits(t) /\ t.status = "accepted" /\ t.stored = stored
      /\ t.client = client /\ t \in Turn
  BY NewTurnFits DEF TurnFits, Consecutive
<1> HIDE DEF t
<1>2. /\ durable.turns \in Seq(Turn) /\ Len(durable.turns) \in Nat
      /\ DOMAIN durable.turns = 1 .. Len(durable.turns)
  BY TurnsOf
<1>3. /\ ts \in Seq(Turn) /\ Len(ts) = id /\ ts[id] = t
      /\ \A i \in DOMAIN durable.turns : ts[i] = durable.turns[i]
  BY <1>1, <1>2, AppendProperties
<1>4. DOMAIN ts = DOMAIN durable.turns \cup {id}
  <2>1. DOMAIN ts = 1 .. Len(ts)
    BY <1>3, LenProperties
  <2> QED  BY <1>2, <1>3, <2>1
<1> HIDE DEF ts
<1>5. id \in Nat \ {0} /\ id \notin DOMAIN durable.turns
  BY <1>2
<1>6. key \in Key /\ durable.byClient \in [Key -> Nat]
  BY DEF Key, Fits, Ledger
<1>7. /\ index \in [Key -> Nat] /\ index[key] = id
      /\ \A k \in Key \ {key} : index[k] = durable.byClient[k]
  BY <1>5, <1>6
<1>8. /\ Fits(Counted) /\ Counted.turns = durable.turns
      /\ Counted.bindings = durable.bindings
      /\ Counted.byClient = durable.byClient
      /\ Counted.executions = durable.executions
      /\ Counted.submits = durable.submits + 1
  BY CountedFits
<1>9. /\ N \in Ledger /\ N.bindings = durable.bindings /\ N.turns = ts
      /\ N.byClient = index /\ N.submits = durable.submits + 1
      /\ N.executions = durable.executions + 1
  <2>1. Counted \in Ledger
    BY <1>8 DEF Fits
  <2>2. N = [Counted EXCEPT !.executions = Counted.executions + 1,
                            !.turns = ts, !.byClient = index]
    BY <1>8, Zenon DEF Committed, ts, t
  <2> HIDE DEF N, index
  <2>3. /\ N.bindings = Counted.bindings /\ N.turns = ts /\ N.byClient = index
        /\ N.submits = Counted.submits /\ N.executions = Counted.executions + 1
    BY <2>1, <2>2 DEF Ledger
  <2>4. N = [bindings |-> Counted.bindings, turns |-> ts, byClient |-> index,
             submits |-> Counted.submits,
             executions |-> Counted.executions + 1]
    BY <2>1, <2>2 DEF Ledger
  <2>5. Counted.executions + 1 \in Nat
    BY <2>1 DEF Ledger
  <2>6. N \in Ledger
    BY <1>3, <1>7, <2>1, <2>4, <2>5 DEF Ledger
  <2> QED  BY <1>8, <2>3, <2>6
<1> HIDE DEF N, index
<1>10. Bound(N) = Bound(durable)
  BY <1>9 DEF Bound
<1>11. Identified(N)
  BY <1>9, <1>10 DEF Fits, Identified
<1>12. \A x : IsStored(durable, x) => IsStored(N, x)
  BY <1>9, <1>10 DEF IsStored
<1>13. Indexed(durable)
  BY DEF Fits
<1>14. Indexed(N)
  <2>1. ASSUME NEW i \in DOMAIN N.turns
        PROVE  /\ TurnFits(N.turns[i])
               /\ IsStored(N, N.turns[i].stored)
               /\ N.byClient[<<N.turns[i].stored, N.turns[i].client>>] = i
    <3>1. CASE i = id
      BY <1>1, <1>3, <1>7, <1>9, <1>12, <3>1
    <3>2. CASE i \in DOMAIN durable.turns
      <4>1. N.turns[i] = durable.turns[i]
        BY <1>3, <1>9, <3>2
      <4> DEFINE k == <<durable.turns[i].stored, durable.turns[i].client>>
      <4>2. durable.byClient[k] = i /\ i # 0
        BY <1>2, <1>13, <3>2 DEF Indexed
      <4>3. k \in Key /\ k # key
        <5>1. durable.turns[i] \in Turn
          BY <3>2, ATurn
        <5> QED  BY <4>2, <5>1 DEF Key, Turn
      <4>4. index[k] = i
        BY <1>7, <4>2, <4>3
      <4> QED  BY <1>9, <1>12, <1>13, <3>2, <4>1, <4>4 DEF Indexed
    <3> QED  BY <1>4, <1>9, <3>1, <3>2
  <2>2. ASSUME NEW k \in Key, N.byClient[k] # 0
        PROVE  /\ N.byClient[k] \in DOMAIN N.turns
               /\ LET u == N.turns[N.byClient[k]] IN <<u.stored, u.client>> = k
    <3>1. CASE k = key
      BY <1>1, <1>3, <1>4, <1>7, <1>9, <3>1
    <3>2. CASE k # key
      <4>1. N.byClient[k] = durable.byClient[k]
        BY <1>7, <1>9, <3>2
      <4>2. durable.byClient[k] \in DOMAIN durable.turns
        BY <1>13, <2>2, <4>1 DEF Indexed
      <4> QED  BY <1>3, <1>4, <1>9, <1>13, <2>2, <4>1, <4>2 DEF Indexed
    <3> QED  BY <3>1, <3>2
  <2> QED  BY <2>1, <2>2 DEF Indexed
<1>15. Fits(N)
  <2>1. /\ durable.executions = Len(durable.turns)
        /\ Len(durable.turns) <= durable.submits /\ durable.submits \in Nat
    BY DEF Fits, Ledger
  <2>2. N.executions = Len(N.turns) /\ Len(N.turns) <= N.submits
    BY <1>2, <1>3, <1>9, <2>1
  <2> QED  BY <1>9, <1>11, <1>14, <2>2 DEF Fits
<1>16. Grows(durable, N)
  <2>1. Grows(durable, durable)
    BY GrowsSelf
  <2> QED  BY <1>3, <1>4, <1>9, <2>1 DEF Grows
<1>17. TurnFits(N.turns[id]) /\ N.turns[id].status = "accepted"
  BY <1>1, <1>3, <1>9
<1> QED  BY <1>3, <1>4, <1>5, <1>9, <1>15, <1>16, <1>17 DEF N

\* A session keeps its identity, a new one takes the next.
LEMMA OpenedFits ==
  ASSUME Fits(durable), NEW m \in Mobile
  PROVE  LET N == [durable EXCEPT !.bindings[m] = Opened(m)]
         IN  /\ Fits(N) /\ Grows(durable, N)
             /\ N.turns = durable.turns /\ N.bindings[m] = Opened(m)
             /\ \A x : IsStored(durable, x) => IsStored(N, x)
             /\ Opened(m) \in Binding /\ Opened(m) # NoBinding
             /\ Opened(m).stored \in Stored
             /\ IsStored(N, Opened(m).stored)
<1> DEFINE b == Opened(m)
           N == [durable EXCEPT !.bindings[m] = b]
           B == Bound(durable)
           n == Cardinality(B)
           bs == [durable.bindings EXCEPT ![m] = b]
<1>1. durable \in Ledger /\ Identified(durable) /\ Indexed(durable)
  BY DEF Fits
<1>2. /\ durable.bindings \in [Mobile -> Binding]
      /\ durable.bindings[m] \in Binding
  BY <1>1 DEF Ledger
<1>3. B \subseteq Mobile
  BY DEF Bound
<1>4. IsFiniteSet(Mobile)
  BY LedgerAssumption
<1>5. IsFiniteSet(B)
  BY <1>3, <1>4, FS_Subset
<1>6. n \in Nat /\ Cardinality(Mobile) \in Nat /\ n <= Cardinality(Mobile)
  BY <1>3, <1>4, <1>5, FS_Subset, FS_CardinalityType
<1>7. IsFiniteSet(B \cup {m})
  BY <1>5, FS_AddElement
<1>8. Cardinality(B \cup {m}) = IF m \in B THEN n ELSE n + 1
  BY <1>5, FS_AddElement
<1>9. Cardinality(B \cup {m}) <= Cardinality(Mobile)
  <2>1. B \cup {m} \subseteq Mobile
    BY <1>3
  <2> QED  BY <1>4, <2>1, FS_Subset
<1> HIDE DEF n
<1>10. /\ b.version = durable.bindings[m].version + 1
       /\ b.stored = IF m \in B THEN durable.bindings[m].stored ELSE n + 1
  BY DEF Opened, n
<1>11. \A x \in B : durable.bindings[x].stored \in 1 .. n
  BY <1>1 DEF Identified, n
<1>12. b.stored \in 1 .. Cardinality(B \cup {m}) /\ b.stored \in Stored
  <2>1. CASE m \in B
    BY <1>6, <1>8, <1>9, <1>10, <1>11, <2>1 DEF Stored
  <2>2. CASE m \notin B
    BY <1>6, <1>8, <1>9, <1>10, <2>2 DEF Stored
  <2> QED  BY <2>1, <2>2
<1>13. b.version \in Nat /\ b.version > 0
       /\ b.version >= durable.bindings[m].version
  BY <1>2, <1>10 DEF Binding
<1>14. b = [stored |-> b.stored, version |-> b.version]
  BY Zenon DEF Opened
<1> HIDE DEF b
<1>15. b \in Binding /\ b # NoBinding
  <2>1. b \in Binding
    BY <1>12, <1>13, <1>14 DEF Binding
  <2> QED  BY <1>13, <2>1 DEF NoBinding
<1>16. /\ bs \in [Mobile -> Binding] /\ bs[m] = b
       /\ \A x \in Mobile \ {m} : bs[x] = durable.bindings[x]
  BY <1>2, <1>15
<1> HIDE DEF bs
<1>17. /\ N \in Ledger /\ N.bindings = bs /\ N.turns = durable.turns
       /\ N.byClient = durable.byClient /\ N.submits = durable.submits
       /\ N.executions = durable.executions
  <2>1. N = [durable EXCEPT !.bindings = bs]
    BY DEF bs
  <2> HIDE DEF N
  <2> QED  BY <1>1, <1>16, <2>1 DEF Ledger
<1> HIDE DEF N
<1>18. Bound(N) = B \cup {m}
  <2>1. \A x \in Mobile : x \in Bound(N) <=> x \in B \/ x = m
    BY <1>15, <1>16, <1>17 DEF Bound
  <2>2. Bound(N) \subseteq Mobile
    BY DEF Bound
  <2> QED  BY <1>3, <2>1, <2>2
<1>19. Identified(N)
  <2>1. ASSUME NEW x \in Bound(N)
        PROVE  /\ N.bindings[x].stored \in 1 .. Cardinality(Bound(N))
               /\ N.bindings[x].version > 0
    <3>1. CASE x = m
      BY <1>12, <1>13, <1>16, <1>17, <1>18, <3>1
    <3>2. CASE x # m
      <4>1. x \in B /\ N.bindings[x] = durable.bindings[x]
        BY <1>3, <1>16, <1>17, <1>18, <3>2
      <4>2. durable.bindings[x].stored \in 1 .. n
        BY <1>11, <4>1
      <4>3. durable.bindings[x].version > 0
        BY <1>1, <4>1 DEF Identified
      <4>4. durable.bindings[x].stored \in 1 .. Cardinality(B \cup {m})
        BY <1>6, <1>8, <4>2
      <4> QED  BY <1>18, <4>1, <4>3, <4>4
    <3> QED  BY <3>1, <3>2
  <2>2. ASSUME NEW x \in Bound(N), NEW y \in Bound(N), x # y
        PROVE  N.bindings[x].stored # N.bindings[y].stored
    <3>1. /\ x # m => x \in B /\ N.bindings[x] = durable.bindings[x]
          /\ y # m => y \in B /\ N.bindings[y] = durable.bindings[y]
      BY <1>3, <1>16, <1>17, <1>18
    <3>2. CASE x # m /\ y # m
      BY <1>1, <2>2, <3>1, <3>2 DEF Identified
    <3>3. ASSUME NEW z \in B, z # m
          PROVE  durable.bindings[z].stored # b.stored
      <4>1. CASE m \in B
        BY <1>1, <1>10, <3>3, <4>1 DEF Identified
      <4>2. CASE m \notin B
        <5>1. durable.bindings[z].stored \in 1 .. n /\ b.stored = n + 1
          BY <1>10, <1>11, <4>2
        <5> QED  BY <1>6, <5>1
      <4> QED  BY <4>1, <4>2
    <3>4. N.bindings[m] = b
      BY <1>16, <1>17
    <3> QED  BY <2>2, <3>1, <3>2, <3>3, <3>4
  <2> QED  BY <2>1, <2>2 DEF Identified
<1>20. ASSUME NEW x, IsStored(durable, x)
       PROVE  IsStored(N, x)
  <2>1. PICK y \in B : durable.bindings[y].stored = x
    BY <1>20 DEF IsStored
  <2>2. y \in Bound(N)
    BY <1>18, <2>1
  <2>3. N.bindings[y].stored = x
    BY <1>3, <1>10, <1>16, <1>17, <2>1
  <2> QED  BY <2>2, <2>3 DEF IsStored
<1>21. Indexed(N)
  BY <1>1, <1>17, <1>20 DEF Indexed
<1>22. Fits(N)
  BY <1>17, <1>19, <1>21 DEF Fits
<1>23. Grows(durable, N)
  <2>1. Grows(durable, durable)
    BY GrowsSelf
  <2>2. ASSUME NEW x \in Mobile
        PROVE  /\ N.bindings[x].version >= durable.bindings[x].version
               /\ durable.bindings[x] # NoBinding =>
                    /\ N.bindings[x] # NoBinding
                    /\ N.bindings[x].stored = durable.bindings[x].stored
    <3>1. CASE x = m
      BY <1>10, <1>13, <1>15, <1>16, <1>17, <3>1 DEF Bound
    <3>2. CASE x # m
      BY <1>16, <1>17, <2>1, <3>2 DEF Grows
    <3> QED  BY <3>1, <3>2
  <2> QED  BY <1>17, <2>1, <2>2 DEF Grows
<1>24. IsStored(N, b.stored)
  BY <1>16, <1>17, <1>18 DEF IsStored
<1> QED  BY <1>12, <1>15, <1>16, <1>17, <1>20, <1>22, <1>23, <1>24 DEF N, b
-----------------------------------------------------------------------------
(* Handlers *)

\* What a handler relies on stays.
Abides(t, u) ==
  /\ IsOver(t) => IsOver(u)
  /\ \A k \in 0 .. 5 : OnCourse(t, k) => OnCourse(u, k)

LEMMA HandlerStays ==
  ASSUME NEW h \in Task, NEW D, NEW S, NEW N, NEW F, HandlerFits(h, D, S),
         DOMAIN D.turns \subseteq DOMAIN N.turns,
         DOMAIN S.turns \subseteq DOMAIN F.turns,
         h.at # "idle" => Abides(D.turns[h.turn], N.turns[h.turn])
  PROVE  HandlerFits(h, N, F)
<1> SUFFICES ASSUME h.at # "idle"
             PROVE  HandlerFits(h, N, F)
  BY DEF HandlerFits
<1> DEFINE t == D.turns[h.turn]
           u == N.turns[h.turn]
<1>1. Abides(t, u) /\ h.turn \in DOMAIN N.turns /\ h.turn \in DOMAIN F.turns
  BY DEF HandlerFits
<1>2. /\ h.at = "ack" => h.step = 0 /\ OnCourse(t, 0)
      /\ h.at = "emit" => /\ h.step \in 1 .. 6
                          /\ h.step < 6 => OnCourse(t, h.step)
                          /\ h.step = 6 => IsOver(t)
      /\ h.at = "close" => IF h.fault = "mid_stream"
                           THEN h.step = 4 /\ OnCourse(t, 4)
                           ELSE IsOver(t)
  BY DEF HandlerFits, SecondDelta
<1> HIDE DEF t, u
<1>3. h.step \in 0 .. 6
  BY DEF Task
<1>4. h.at = "ack" => h.step = 0 /\ OnCourse(u, 0)
  BY <1>1, <1>2 DEF Abides
<1>5. h.at = "emit" => /\ h.step \in 1 .. 6
                       /\ h.step < 6 => OnCourse(u, h.step)
                       /\ h.step = 6 => IsOver(u)
  BY <1>1, <1>2, <1>3 DEF Abides
<1>6. h.at = "close" => IF h.fault = "mid_stream"
                        THEN h.step = 4 /\ OnCourse(u, 4)
                        ELSE IsOver(u)
  BY <1>1, <1>2 DEF Abides
<1> QED  BY <1>1, <1>4, <1>5, <1>6 DEF HandlerFits, SecondDelta, u

LEMMA HandlersMove ==
  ASSUME NEW T, NEW D, NEW S, NEW N, NEW F, Handlers(T, D, S),
         NEW c \in Conn, NEW h \in Task, HandlerFits(h, N, F),
         DOMAIN D.turns \subseteq DOMAIN N.turns,
         DOMAIN S.turns \subseteq DOMAIN F.turns,
         \A d \in Conn \ {c} : T[d].at # "idle" =>
           /\ Abides(D.turns[T[d].turn], N.turns[T[d].turn])
           /\ h.at # "idle" => T[d].turn # h.turn
  PROVE  Handlers([T EXCEPT ![c] = h], N, F)
<1> DEFINE U == [T EXCEPT ![c] = h]
<1>1. T \in [Conn -> Task]
  BY DEF Handlers
<1>2. U \in [Conn -> Task] /\ U[c] = h /\ \A d \in Conn \ {c} : U[d] = T[d]
  BY <1>1
<1> HIDE DEF U
<1>3. ASSUME NEW d \in Conn
      PROVE  HandlerFits(U[d], N, F)
  <2>1. CASE d = c
    BY <1>2, <2>1
  <2>2. CASE d # c
    <3>1. U[d] = T[d] /\ T[d] \in Task /\ HandlerFits(T[d], D, S)
      BY <1>1, <1>2, <2>2 DEF Handlers
    <3>2. T[d].at # "idle" => Abides(D.turns[T[d].turn], N.turns[T[d].turn])
      BY <2>2
    <3>3. HandlerFits(T[d], N, F)
      BY <3>1, <3>2, HandlerStays
    <3> QED  BY <3>1, <3>3
  <2> QED  BY <2>1, <2>2
<1>4. ASSUME NEW d \in Conn, NEW e \in Conn, U[d].at # "idle",
             U[e].at # "idle", U[d].turn = U[e].turn
      PROVE  d = e
  <2>1. CASE d # c /\ e # c
    BY <1>2, <1>4, <2>1 DEF Handlers
  <2>2. CASE d = c \/ e = c
    BY <1>2, <1>4, <2>2
  <2> QED  BY <2>1, <2>2
<1> QED  BY <1>2, <1>3, <1>4 DEF Handlers, U

LEMMA HandlersStay ==
  ASSUME NEW T, NEW D, NEW S, NEW N, NEW F, Handlers(T, D, S),
         DOMAIN D.turns \subseteq DOMAIN N.turns,
         DOMAIN S.turns \subseteq DOMAIN F.turns,
         \A id \in DOMAIN D.turns : Abides(D.turns[id], N.turns[id])
  PROVE  Handlers(T, N, F)
<1>1. ASSUME NEW d \in Conn
      PROVE  HandlerFits(T[d], N, F)
  <2>1. T[d] \in Task /\ HandlerFits(T[d], D, S)
    BY DEF Handlers
  <2>2. T[d].at # "idle" => Abides(D.turns[T[d].turn], N.turns[T[d].turn])
    BY <2>1 DEF HandlerFits
  <2> QED  BY <2>1, <2>2, HandlerStays
<1> QED  BY <1>1 DEF Handlers

LEMMA TendedMove ==
  ASSUME NEW T \in [Conn -> Task], NEW D, NEW N, NEW w, NEW x,
         Tended(T, D, w), x = 0 => w = 0,
         NEW c \in Conn, NEW h \in Task,
         \A id \in DOMAIN N.turns :
           \/ IsOver(N.turns[id])
           \/ h.turn = id /\ h.at # "idle"
           \/ /\ id \in DOMAIN D.turns
              /\ IsOver(D.turns[id]) => IsOver(N.turns[id])
              /\ T[c].turn # id \/ T[c].at = "idle"
  PROVE  Tended([T EXCEPT ![c] = h], N, x)
<1> DEFINE U == [T EXCEPT ![c] = h]
<1>1. U[c] = h /\ \A d \in Conn \ {c} : U[d] = T[d]
  OBVIOUS
<1> HIDE DEF U
<1> SUFFICES ASSUME x = 0, NEW id \in DOMAIN N.turns, ~ IsOver(N.turns[id])
             PROVE  \E d \in Conn : U[d].turn = id /\ U[d].at # "idle"
  BY DEF Tended, U
<1>2. CASE h.turn = id /\ h.at # "idle"
  BY <1>1, <1>2
<1>3. CASE /\ id \in DOMAIN D.turns
           /\ IsOver(D.turns[id]) => IsOver(N.turns[id])
           /\ T[c].turn # id \/ T[c].at = "idle"
  <2>1. PICK d \in Conn : T[d].turn = id /\ T[d].at # "idle"
    BY <1>3 DEF Tended
  <2>2. d # c
    BY <1>3, <2>1
  <2> QED  BY <1>1, <2>1, <2>2
<1> QED  BY <1>2, <1>3

LEMMA TendedStay ==
  ASSUME NEW T, NEW D, NEW N, NEW w, NEW x, Tended(T, D, w), x = 0 => w = 0,
         \A id \in DOMAIN N.turns :
           \/ IsOver(N.turns[id])
           \/ id \in DOMAIN D.turns /\ (IsOver(D.turns[id]) => IsOver(N.turns[id]))
  PROVE  Tended(T, N, x)
BY DEF Tended

-----------------------------------------------------------------------------
(* Steps *)

LEMMA ToldStays ==
  ASSUME NEW W, NEW S, NEW F, Told(W, S), Fits(S), Fits(F), Grows(S, F)
  PROVE  Told(W, F)
<1>1. ASSUME NEW m \in Mobile
      PROVE  /\ F.bindings[m].version >= W.bindings[m].version
             /\ W.bindings[m] # NoBinding =>
                  /\ F.bindings[m] # NoBinding
                  /\ F.bindings[m].stored = W.bindings[m].stored
  <2>1. /\ F.bindings[m].version \in Nat /\ S.bindings[m].version \in Nat
        /\ W.bindings[m].version \in Nat
    BY DEF Fits, Ledger, Binding, Told
  <2>2. /\ F.bindings[m].version >= S.bindings[m].version
        /\ S.bindings[m].version >= W.bindings[m].version
    BY DEF Grows, Told
  <2>3. W.bindings[m] # NoBinding =>
          /\ F.bindings[m] # NoBinding
          /\ F.bindings[m].stored = W.bindings[m].stored
    BY DEF Grows, Told
  <2> QED  BY <2>1, <2>2, <2>3
<1>2. ASSUME NEW ack \in W.turns
      PROVE  /\ ack.turn \in DOMAIN F.turns
             /\ LET t == F.turns[ack.turn] IN ack.key = <<t.stored, t.client>>
  BY DEF Told, Grows, TurnGrows
<1> QED  BY <1>1, <1>2 DEF Told

\* Memory and file, N and F, after a step of the process.
Moves(N, F) ==
  /\ Fits(N) /\ Grows(durable, N)
  /\ \/ F = saved
     \/ Fits(F) /\ Grows(durable, F) /\ Grows(F, N)

LEMMA MovesKeep ==
  ASSUME LedgerInv, NEW N, NEW F, Moves(N, F)
  PROVE  /\ Fits(F) /\ Grows(saved, F) /\ Grows(F, N)
         /\ Told(told, F) /\ Runtimes(runtime, N)
         /\ DOMAIN durable.turns \subseteq DOMAIN N.turns
         /\ DOMAIN saved.turns \subseteq DOMAIN F.turns
<1>1. /\ Fits(durable) /\ Fits(saved) /\ Grows(saved, durable)
      /\ Told(told, saved) /\ Runtimes(runtime, durable)
  BY DEF LedgerInv
<1>2. Fits(N) /\ Grows(durable, N)
  BY DEF Moves
<1>3. Fits(F) /\ Grows(saved, F) /\ Grows(F, N)
  <2>1. CASE F = saved
    BY <1>1, <1>2, <2>1, GrowsSelf, LedgerGrowsFurther
  <2>2. CASE Fits(F) /\ Grows(durable, F) /\ Grows(F, N)
    BY <1>1, <2>2, LedgerGrowsFurther
  <2> QED  BY <2>1, <2>2 DEF Moves
<1>4. Told(told, F)
  BY <1>1, <1>3, ToldStays
<1>5. Runtimes(runtime, N)
  <2>1. ASSUME NEW x, IsStored(durable, x)
        PROVE  IsStored(N, x)
    BY <1>2, <2>1 DEF IsStored, Bound, Grows
  <2> QED  BY <1>1, <2>1 DEF Runtimes
<1>6. /\ DOMAIN durable.turns \subseteq DOMAIN N.turns
      /\ DOMAIN saved.turns \subseteq DOMAIN F.turns
  BY <1>2, <1>3 DEF Grows
<1> QED  BY <1>3, <1>4, <1>5, <1>6

LEMMA StepKeeps ==
  ASSUME LedgerInv, Moves(durable', saved'),
         Handlers(task', durable', saved'), Tended(task', durable', trouble'),
         Linked(link', trouble'), Runtimes(runtime', durable'),
         Told(told', saved')
  PROVE  LedgerInv' /\ Grows(saved, saved')
<1>1. Fits(saved') /\ Grows(saved, saved') /\ Grows(saved', durable')
  BY MovesKeep
<1> QED  BY <1>1 DEF LedgerInv, Moves

LEMMA IdleFits ==
  /\ Idle \in Task /\ Idle.at = "idle"
  /\ \A N, F : HandlerFits(Idle, N, F)
BY ServerAssumption DEF Idle, Task, HandlerFits

LEMMA TroubleIs ==
  ASSUME LedgerInv
  PROVE  /\ trouble \in Nat
         /\ Goes => trouble' > 0 /\ trouble' \in 0 .. MaxTrouble
BY ServerAssumption DEF LedgerInv, Linked, Goes

\* The other handlers find what they rely on.
OthersAbide(c, N) ==
  \A d \in Conn \ {c} :
    task[d].at # "idle" => Abides(durable.turns[task[d].turn],
                                  N.turns[task[d].turn])
AllAbide(N) ==
  \A id \in DOMAIN durable.turns : Abides(durable.turns[id], N.turns[id])

LEMMA AllThenOthers ==
  ASSUME LedgerInv, NEW N, AllAbide(N), NEW c \in Conn
  PROVE  OthersAbide(c, N)
BY DEF LedgerInv, Handlers, HandlerFits, AllAbide, OthersAbide

LEMMA SameAbides ==
  ASSUME NEW N, \A id \in DOMAIN durable.turns : N.turns[id] = durable.turns[id]
  PROVE  AllAbide(N)
BY DEF AllAbide, Abides

\* Only the turn of handler c is another one.
LEMMA OneAbides ==
  ASSUME LedgerInv, NEW c \in Conn, task[c].at # "idle", NEW N,
         \A id \in DOMAIN durable.turns \ {task[c].turn} :
           N.turns[id] = durable.turns[id]
  PROVE  OthersAbide(c, N)
<1>1. ASSUME NEW d \in Conn \ {c}, task[d].at # "idle"
      PROVE  Abides(durable.turns[task[d].turn], N.turns[task[d].turn])
  <2>1. task[d].turn \in DOMAIN durable.turns /\ task[d].turn # task[c].turn
    BY <1>1 DEF LedgerInv, Handlers, HandlerFits
  <2>2. N.turns[task[d].turn] = durable.turns[task[d].turn]
    BY <2>1
  <2> QED  BY <2>2 DEF Abides
<1> QED  BY <1>1 DEF OthersAbide

\* A handler goes on: from T[c] to h.
LEMMA HandlerMoves ==
  ASSUME LedgerInv, NEW c \in Conn, NEW h \in Task,
         task' = [task EXCEPT ![c] = h],
         Moves(durable', saved'), OthersAbide(c, durable'),
         HandlerFits(h, durable', saved'),
         h.at # "idle" =>
           \A d \in Conn \ {c} : task[d].at # "idle" => task[d].turn # h.turn
  PROVE  Handlers(task', durable', saved')
<1>1. Handlers(task, durable, saved)
  BY DEF LedgerInv
<1>2. /\ DOMAIN durable.turns \subseteq DOMAIN durable'.turns
      /\ DOMAIN saved.turns \subseteq DOMAIN saved'.turns
  BY MovesKeep
<1>3. \A d \in Conn \ {c} : task[d].at # "idle" =>
        /\ Abides(durable.turns[task[d].turn], durable'.turns[task[d].turn])
        /\ h.at # "idle" => task[d].turn # h.turn
  BY DEF OthersAbide
<1>4. Handlers([task EXCEPT ![c] = h], durable', saved')
  BY <1>1, <1>2, <1>3, HandlersMove
<1> QED  BY <1>4, Zenon

\* A connection ends, and with it what its handler did.
LEMMA Released ==
  ASSUME LedgerInv, NEW c \in Conn, Release(c),
         Moves(durable', saved'), OthersAbide(c, durable'),
         UNCHANGED told \/ Told(told', saved'),
         Goes \/ UNCHANGED trouble,
         trouble' = 0 => Tended(task', durable', 0)
  PROVE  LedgerInv' /\ Grows(saved, saved')
<1>1. task' = [task EXCEPT ![c] = Idle]
  BY DEF Release
<1>2. Handlers(task', durable', saved')
  BY <1>1, IdleFits, HandlerMoves
<1>3. Tended(task', durable', trouble')
  BY DEF Tended
<1>4. Linked(link', trouble')
  BY TroubleIs DEF LedgerInv, Linked, Release
<1>5. Runtimes(runtime', durable') /\ Told(told', saved')
  <2>1. Told(told, saved') /\ Runtimes(runtime, durable')
    BY MovesKeep
  <2>2. runtime' = [runtime EXCEPT ![c] = 0]
    BY DEF Release, NoRuntime
  <2> QED  BY <2>1, <2>2 DEF Runtimes
<1> QED  BY <1>2, <1>3, <1>4, <1>5, StepKeeps

\* What was written fails to reach the file.
LEMMA FailureKeeps ==
  ASSUME LedgerInv, NEW c \in Conn, NEW N, Fits(N), Grows(durable, N),
         OthersAbide(c, N), WriteFails(N), Release(c),
         UNCHANGED told \/ Told(told', saved')
  PROVE  LedgerInv' /\ Grows(saved, saved')
<1>1. durable' = N /\ saved' = saved /\ Goes
  BY DEF WriteFails
<1>2. Moves(durable', saved') /\ OthersAbide(c, durable')
  <2>1. Moves(N, saved)
    BY DEF Moves
  <2> QED  BY <1>1, <2>1, Zenon
<1>3. trouble' # 0
  BY <1>1, TroubleIs
<1> QED  BY <1>1, <1>2, <1>3, Released

LEMMA WriteMoves ==
  ASSUME LedgerInv, NEW N, Fits(N), Grows(durable, N), Write(N)
  PROVE  /\ Moves(durable', saved') /\ durable' = N /\ saved' = N
         /\ trouble' = trouble
BY GrowsSelf DEF Moves, Write

LEMMA NothingMoves ==
  ASSUME LedgerInv, UNCHANGED <<durable, saved>>
  PROVE  Moves(durable', saved') /\ AllAbide(durable')
<1>1. Moves(durable, saved)
  <2>1. Fits(durable)
    BY DEF LedgerInv
  <2>2. Grows(durable, durable)
    BY <2>1, GrowsSelf
  <2> QED  BY <2>1, <2>2 DEF Moves
<1>2. AllAbide(durable)
  BY SameAbides
<1>3. durable' = durable /\ saved' = saved
  OBVIOUS
<1> QED  BY <1>1, <1>2, <1>3, Zenon

-----------------------------------------------------------------------------
(* Connections and the process *)

\* An idle handler and turns that are as they were.
LEMMA StillTended ==
  ASSUME LedgerInv, NEW c \in Conn, NEW h \in Task,
         task[c].at = "idle" \/ (h.at # "idle" /\ h.turn = task[c].turn),
         task' = [task EXCEPT ![c] = h], trouble' = trouble,
         durable'.turns = durable.turns
  PROVE  Tended(task', durable', trouble')
<1>1. task \in [Conn -> Task] /\ Tended(task, durable, trouble)
  BY DEF LedgerInv, Handlers
<1>2. \A id \in DOMAIN durable'.turns :
        \/ IsOver(durable'.turns[id])
        \/ h.turn = id /\ h.at # "idle"
        \/ /\ id \in DOMAIN durable.turns
           /\ IsOver(durable.turns[id]) => IsOver(durable'.turns[id])
           /\ task[c].turn # id \/ task[c].at = "idle"
  OBVIOUS
<1>3. trouble' = 0 => trouble = 0
  OBVIOUS
<1>4. Tended([task EXCEPT ![c] = h], durable', trouble')
  BY <1>1, <1>2, <1>3, TendedMove
<1> QED  BY <1>4, Zenon

LEMMA DisconnectKeeps ==
  ASSUME LedgerInv, NEW c \in Conn, Disconnect(c)
  PROVE  LedgerInv' /\ Grows(saved, saved')
<1>1. /\ task[c] = Idle /\ Release(c) /\ durable' = durable
      /\ UNCHANGED <<durable, saved>> /\ UNCHANGED told /\ trouble' = trouble
  BY DEF Disconnect
<1>2. Moves(durable', saved') /\ AllAbide(durable')
  BY <1>1, NothingMoves
<1>3. OthersAbide(c, durable')
  BY <1>2, AllThenOthers
<1>4. task' = [task EXCEPT ![c] = Idle] /\ task[c].at = "idle"
  BY <1>1, IdleFits DEF Release
<1>5. Tended(task', durable', trouble')
  BY <1>1, <1>4, IdleFits, StillTended
<1> QED  BY <1>1, <1>2, <1>3, <1>5, Released

LEMMA LoseKeeps ==
  ASSUME LedgerInv, NEW c \in Conn, Lose(c)
  PROVE  LedgerInv' /\ Grows(saved, saved')
<1>1. /\ durable' = durable /\ saved' = saved /\ runtime' = runtime
      /\ task' = task /\ told' = told /\ Goes
      /\ link' = [link EXCEPT ![c] = "gone"]
  BY DEF Lose
<1>2. Moves(durable', saved')
  BY <1>1, NothingMoves
<1>3. trouble' > 0 /\ trouble' \in 0 .. MaxTrouble
  BY <1>1, TroubleIs
<1>4. Handlers(task', durable', saved') /\ Tended(task', durable', trouble')
  BY <1>1, <1>3 DEF LedgerInv, Tended
<1>5. Linked(link', trouble')
  BY <1>1, <1>3 DEF LedgerInv, Linked
<1>6. Runtimes(runtime', durable') /\ Told(told', saved')
  BY <1>1 DEF LedgerInv
<1> QED  BY <1>2, <1>4, <1>5, <1>6, StepKeeps

\* A send that raises was on a connection that is gone.
LEMMA SendFailsKeeps ==
  ASSUME LedgerInv, NEW c \in Conn, SendFails(c)
  PROVE  LedgerInv' /\ Grows(saved, saved')
<1>1. /\ Release(c) /\ UNCHANGED <<durable, saved>> /\ UNCHANGED told
      /\ trouble' = trouble /\ link[c] = "gone"
  BY DEF SendFails
<1>2. Moves(durable', saved') /\ AllAbide(durable')
  BY <1>1, NothingMoves
<1>3. OthersAbide(c, durable')
  BY <1>2, AllThenOthers
<1>4. trouble' # 0
  BY <1>1, TroubleIs DEF LedgerInv, Linked
<1> QED  BY <1>1, <1>2, <1>3, <1>4, Released

LEMMA RestartKeeps ==
  ASSUME LedgerInv, Restart
  PROVE  LedgerInv' /\ Grows(saved, saved')
<1>1. /\ durable' = saved /\ saved' = saved /\ told' = told /\ Goes
      /\ link' = [c \in Conn |-> "open"] /\ runtime' = [c \in Conn |-> 0]
      /\ task' = [c \in Conn |-> Idle]
  BY DEF Restart, NoRuntime
<1>2. Fits(saved) /\ Grows(saved, saved) /\ Told(told, saved)
  BY GrowsSelf DEF LedgerInv
<1>3. trouble' > 0 /\ trouble' \in 0 .. MaxTrouble
  BY <1>1, TroubleIs
<1>4. Handlers(task', durable', saved')
  <2>1. task' \in [Conn -> Task] /\ \A c \in Conn : task'[c] = Idle
    BY <1>1, IdleFits
  <2> QED  BY <2>1, IdleFits DEF Handlers
<1>5. Tended(task', durable', trouble')
  BY <1>3 DEF Tended
<1>6. Linked(link', trouble') /\ Runtimes(runtime', durable')
  BY <1>1, <1>3 DEF Linked, Runtimes
<1>7. /\ Fits(durable') /\ Fits(saved') /\ Grows(saved', durable')
      /\ Told(told', saved') /\ Grows(saved, saved')
  BY <1>1, <1>2, Zenon
<1> QED  BY <1>4, <1>5, <1>6, <1>7 DEF LedgerInv

LEMMA ForgetRuntimesKeeps ==
  ASSUME LedgerInv, NEW c \in Conn, ForgetRuntimes(c)
  PROVE  LedgerInv' /\ Grows(saved, saved')
<1>1. /\ durable' = durable /\ saved' = saved /\ link' = link /\ task' = task
      /\ told' = told /\ trouble' = trouble /\ runtime' = [d \in Conn |-> 0]
  BY DEF ForgetRuntimes, NoRuntime
<1>2. Moves(durable', saved')
  BY <1>1, NothingMoves
<1>3. Runtimes(runtime', durable')
  BY <1>1 DEF Runtimes
<1>4. /\ Handlers(task', durable', saved') /\ Tended(task', durable', trouble')
      /\ Linked(link', trouble') /\ Told(told', saved')
  BY <1>1 DEF LedgerInv
<1> QED  BY <1>2, <1>3, <1>4, StepKeeps

-----------------------------------------------------------------------------
(* Requests *)

\* The handler of a request that is answered stays idle.
LEMMA AnswerKeeps ==
  ASSUME LedgerInv, Moves(durable', saved'), AllAbide(durable'),
         DOMAIN durable'.turns = DOMAIN durable.turns,
         UNCHANGED <<link, task, trouble>>,
         Runtimes(runtime', durable'), Told(told', saved')
  PROVE  LedgerInv' /\ Grows(saved, saved')
<1>1. task' = task /\ link' = link /\ trouble' = trouble
  OBVIOUS
<1>2. /\ DOMAIN durable.turns \subseteq DOMAIN durable'.turns
      /\ DOMAIN saved.turns \subseteq DOMAIN saved'.turns
  BY MovesKeep
<1>3. Handlers(task, durable', saved')
  <2>1. Handlers(task, durable, saved)
    BY DEF LedgerInv
  <2>2. \A id \in DOMAIN durable.turns :
          Abides(durable.turns[id], durable'.turns[id])
    BY DEF AllAbide
  <2> QED  BY <1>2, <2>1, <2>2, HandlersStay
<1>4. Tended(task, durable', trouble)
  <2>1. Tended(task, durable, trouble)
    BY DEF LedgerInv
  <2>2. \A id \in DOMAIN durable'.turns :
          \/ IsOver(durable'.turns[id])
          \/ /\ id \in DOMAIN durable.turns
             /\ IsOver(durable.turns[id]) => IsOver(durable'.turns[id])
    BY DEF AllAbide, Abides
  <2> QED  BY <2>1, <2>2, TendedStay
<1>5. Linked(link, trouble)
  BY DEF LedgerInv
<1>6. /\ Handlers(task', durable', saved') /\ Tended(task', durable', trouble')
      /\ Linked(link', trouble')
  BY <1>1, <1>3, <1>4, <1>5, Zenon
<1> QED  BY <1>6, StepKeeps

LEMMA SessionOpenKeeps ==
  ASSUME LedgerInv, NEW c \in Conn, NEW m \in Mobile, SessionOpen(c, m)
  PROVE  LedgerInv' /\ Grows(saved, saved')
<1> DEFINE b == Opened(m)
           N == [durable EXCEPT !.bindings[m] = b]
<1>1. Fits(durable)
  BY DEF LedgerInv
<1>2. /\ Fits(N) /\ Grows(durable, N) /\ N.turns = durable.turns
      /\ N.bindings[m] = b /\ b \in Binding /\ b # NoBinding
      /\ b.stored \in Stored /\ IsStored(N, b.stored)
  BY <1>1, OpenedFits
<1>3. \/ /\ Write(N) /\ runtime' = [runtime EXCEPT ![c] = b.stored]
         /\ told' = [told EXCEPT !.bindings[m] = b] /\ UNCHANGED <<link, task>>
      \/ WriteFails(N) /\ Release(c) /\ UNCHANGED told
  BY Zenon DEF SessionOpen
<1> HIDE DEF N, b
<1>4. AllAbide(N)
  BY <1>2, SameAbides
<1>5. CASE WriteFails(N) /\ Release(c) /\ UNCHANGED told
  BY <1>2, <1>4, <1>5, AllThenOthers, FailureKeeps
<1>6. CASE /\ Write(N) /\ runtime' = [runtime EXCEPT ![c] = b.stored]
           /\ told' = [told EXCEPT !.bindings[m] = b] /\ UNCHANGED <<link, task>>
  <2>1. /\ Moves(durable', saved') /\ durable' = N /\ saved' = N
        /\ trouble' = trouble
    BY <1>2, <1>6, WriteMoves
  <2>2. AllAbide(durable') /\ durable'.turns = durable.turns
    BY <1>2, <1>4, <2>1, Zenon
  <2>3. Told(told, saved') /\ Runtimes(runtime, durable')
    BY <2>1, MovesKeep
  <2>4. Runtimes(runtime', durable')
    <3>1. IsStored(durable', b.stored)
      BY <1>2, <2>1, Zenon
    <3> QED  BY <1>2, <1>6, <2>3, <3>1 DEF Runtimes
  <2>5. Told(told', saved')
    <3> DEFINE bs == [told.bindings EXCEPT ![m] = b]
    <3>1. told.bindings \in [Mobile -> Binding]
      BY <2>3 DEF Told
    <3>2. /\ bs \in [Mobile -> Binding] /\ bs[m] = b
          /\ \A x \in Mobile \ {m} : bs[x] = told.bindings[x]
      BY <1>2, <3>1
    <3>3. told' = [told EXCEPT !.bindings = bs]
      BY <1>6
    <3> HIDE DEF bs
    <3>4. told' = [bindings |-> bs, turns |-> told.turns]
      BY <2>3, <3>3 DEF Told
    <3>5. told'.bindings = bs /\ told'.turns = told.turns
      BY <3>4
    <3>6. saved'.bindings[m] = b /\ b.version \in Nat
      BY <1>2, <2>1 DEF Binding
    <3>7. ASSUME NEW x \in Mobile
          PROVE  /\ saved'.bindings[x].version >= bs[x].version
                 /\ bs[x] # NoBinding =>
                      /\ saved'.bindings[x] # NoBinding
                      /\ saved'.bindings[x].stored = bs[x].stored
      <4>1. CASE x = m
        BY <1>2, <3>2, <3>6, <4>1
      <4>2. CASE x # m
        BY <2>3, <3>2, <4>2 DEF Told
      <4> QED  BY <4>1, <4>2
    <3> QED  BY <2>3, <3>2, <3>4, <3>5, <3>7 DEF Told
  <2> QED  BY <1>6, <2>1, <2>2, <2>4, <2>5, AnswerKeeps
<1> QED  BY <1>3, <1>5, <1>6

\* A binding or a turn that the answer is about.
LEMMA Acknowledged ==
  ASSUME LedgerInv, Moves(durable', saved'), NEW id \in DOMAIN durable.turns,
         id \in DOMAIN saved'.turns, Acknowledge(id)
  PROVE  Told(told', saved')
<1> DEFINE key == <<durable.turns[id].stored, durable.turns[id].client>>
           acks == told.turns \cup {[key |-> key, turn |-> id]}
<1>1. told' = [told EXCEPT !.turns = acks]
  BY DEF Acknowledge
<1>2. Told(told, saved') /\ Grows(saved', durable') /\ Grows(durable, durable')
  BY MovesKeep DEF Moves
<1>3. LET t == saved'.turns[id] IN key = <<t.stored, t.client>>
  BY <1>2 DEF Grows, TurnGrows
<1> HIDE DEF key
<1>4. \A ack \in acks :
        /\ ack.turn \in DOMAIN saved'.turns
        /\ LET t == saved'.turns[ack.turn] IN ack.key = <<t.stored, t.client>>
  BY <1>2, <1>3 DEF Told
<1> HIDE DEF acks
<1>5. told' = [bindings |-> told.bindings, turns |-> acks]
  BY <1>1, <1>2 DEF Told
<1>6. told'.bindings = told.bindings /\ told'.turns = acks
  BY <1>5
<1> QED  BY <1>2, <1>4, <1>5, <1>6 DEF Told

LEMMA KnownKey ==
  ASSUME LedgerInv, NEW c \in Conn, runtime[c] # NoRuntime,
         NEW client \in ClientTurn
  PROVE  /\ runtime[c] \in Stored /\ IsStored(durable, runtime[c])
         /\ <<runtime[c], client>> \in Key
BY DEF LedgerInv, Runtimes, NoRuntime, Key

LEMMA SubmitAgainKeeps ==
  ASSUME LedgerInv, NEW c \in Conn, NEW client \in ClientTurn,
         NEW request \in Request, SubmitAgain(c, client, request)
  PROVE  LedgerInv' /\ Grows(saved, saved')
<1> DEFINE id == Known(c, client)
           N == Counted
<1>1. /\ durable.submits < MaxSubmits /\ runtime[c] # NoRuntime /\ id # 0
      /\ \/ /\ Write(N) /\ (Acknowledge(id) \/ UNCHANGED told)
            /\ UNCHANGED connVars
         \/ WriteFails(N) /\ Release(c) /\ UNCHANGED told
  BY Zenon DEF SubmitAgain, Asked
<1>2. Fits(durable)
  BY DEF LedgerInv
<1>3. Fits(N) /\ Grows(durable, N) /\ N.turns = durable.turns
  BY <1>1, <1>2, CountedFits
<1>4. id \in DOMAIN durable.turns
  BY <1>1, <1>2, KnownKey DEF Known, Fits, Indexed
<1> HIDE DEF N, id
<1>5. AllAbide(N)
  BY <1>3, SameAbides
<1>6. CASE WriteFails(N) /\ Release(c) /\ UNCHANGED told
  BY <1>3, <1>5, <1>6, AllThenOthers, FailureKeeps
<1>7. CASE Write(N) /\ (Acknowledge(id) \/ UNCHANGED told) /\ UNCHANGED connVars
  <2>1. /\ Moves(durable', saved') /\ durable' = N /\ saved' = N
        /\ trouble' = trouble
    BY <1>3, <1>7, WriteMoves
  <2>2. /\ AllAbide(durable') /\ durable'.turns = durable.turns
        /\ saved'.turns = durable.turns
    BY <1>3, <1>5, <2>1, Zenon
  <2>3. link' = link /\ runtime' = runtime /\ task' = task
    BY <1>7 DEF connVars
  <2>4. Told(told, saved') /\ Runtimes(runtime, durable')
    BY <2>1, MovesKeep
  <2>5. Runtimes(runtime', durable')
    BY <2>3, <2>4, Zenon
  <2>6. Told(told', saved')
    <3>1. CASE Acknowledge(id)
      BY <1>4, <2>1, <2>2, <3>1, Acknowledged
    <3>2. CASE UNCHANGED told
      BY <2>4, <3>2
    <3> QED  BY <1>7, <3>1, <3>2
  <2> QED  BY <2>1, <2>2, <2>3, <2>5, <2>6, AnswerKeeps
<1> QED  BY <1>1, <1>6, <1>7

\* A turn that is put in the place of one that it goes on from.
LEMMA ChangeKeeps ==
  ASSUME LedgerInv, NEW c \in Conn, NEW id \in DOMAIN durable.turns, NEW u,
         TurnFits(u), TurnGrows(durable.turns[id], u),
         Abides(durable.turns[id], u), Change(c, id, u)
  PROVE  LedgerInv' /\ Grows(saved, saved')
<1> DEFINE N == [durable EXCEPT !.turns[id] = u]
<1>1. \/ Write(N) /\ UNCHANGED connVars
      \/ WriteFails(N) /\ Release(c)
  BY Zenon DEF Change
<1>2. UNCHANGED told
  BY DEF Change
<1>3. Fits(durable)
  BY DEF LedgerInv
<1>4. /\ Fits(N) /\ Grows(durable, N) /\ DOMAIN N.turns = DOMAIN durable.turns
      /\ N.turns[id] = u
      /\ \A i \in DOMAIN durable.turns \ {id} : N.turns[i] = durable.turns[i]
  BY <1>3, PutTurn
<1> HIDE DEF N
<1>5. AllAbide(N)
  <2>1. ASSUME NEW i \in DOMAIN durable.turns
        PROVE  Abides(durable.turns[i], N.turns[i])
    <3>1. CASE i = id
      BY <1>4, <3>1
    <3>2. CASE i # id
      BY <1>4, <3>2 DEF Abides
    <3> QED  BY <3>1, <3>2
  <2> QED  BY <2>1 DEF AllAbide
<1>6. CASE WriteFails(N) /\ Release(c)
  BY <1>2, <1>4, <1>5, <1>6, AllThenOthers, FailureKeeps
<1>7. CASE Write(N) /\ UNCHANGED connVars
  <2>1. /\ Moves(durable', saved') /\ durable' = N /\ saved' = N
        /\ trouble' = trouble
    BY <1>4, <1>7, WriteMoves
  <2>2. AllAbide(durable') /\ DOMAIN durable'.turns = DOMAIN durable.turns
    BY <1>4, <1>5, <2>1, Zenon
  <2>3. link' = link /\ runtime' = runtime /\ task' = task
    BY <1>7 DEF connVars
  <2>4. Told(told, saved') /\ Runtimes(runtime, durable')
    BY <2>1, MovesKeep
  <2>5. Runtimes(runtime', durable') /\ Told(told', saved')
    BY <1>2, <2>3, <2>4, Zenon
  <2> QED  BY <2>1, <2>2, <2>3, <2>5, AnswerKeeps
<1> QED  BY <1>1, <1>6, <1>7

LEMMA InterruptKeeps ==
  ASSUME LedgerInv, NEW c \in Conn, NEW id \in DOMAIN durable.turns,
         Interrupt(c, id)
  PROVE  LedgerInv' /\ Grows(saved, saved')
<1> DEFINE t == durable.turns[id]
           u == Interrupted(t)
<1>1. ~ IsOver(t) /\ Change(c, id, u)
  BY DEF Interrupt
<1>2. TurnFits(t)
  BY ATurn DEF LedgerInv
<1> HIDE DEF t
<1>3. /\ TurnFits(u) /\ TurnGrows(t, u) /\ IsOver(u)
      /\ \A k \in 0 .. 5 : OnCourse(t, k) => OnCourse(u, k)
  BY <1>1, <1>2, InterruptedGoes
<1> HIDE DEF u
<1>4. Abides(t, u)
  BY <1>3 DEF Abides
<1> QED  BY <1>1, <1>3, <1>4, ChangeKeeps DEF t

LEMMA PruneKeeps ==
  ASSUME LedgerInv, NEW c \in Conn, NEW id \in DOMAIN durable.turns,
         Prune(c, id)
  PROVE  LedgerInv' /\ Grows(saved, saved')
<1> DEFINE t == durable.turns[id]
           u == Pruned(t)
<1>1. Change(c, id, u)
  BY DEF Prune
<1>2. TurnFits(t)
  BY ATurn DEF LedgerInv
<1> HIDE DEF t
<1>3. /\ TurnFits(u) /\ TurnGrows(t, u) /\ (IsOver(t) <=> IsOver(u))
      /\ \A k \in 0 .. 5 : OnCourse(t, k) => OnCourse(u, k)
  BY <1>2, PrunedGoes
<1> HIDE DEF u
<1>4. Abides(t, u)
  BY <1>3 DEF Abides
<1> QED  BY <1>1, <1>3, <1>4, ChangeKeeps DEF t

\* A turn is committed and waits for its acknowledgement, or is run at once.
LEMMA SubmitKeeps ==
  ASSUME LedgerInv, NEW c \in Conn, NEW client \in ClientTurn,
         NEW request \in Request, NEW fault \in Faults \cup {None},
         Submit(c, client, request, fault)
  PROVE  LedgerInv' /\ Grows(saved, saved')
<1> DEFINE N == Committed(c, client, request)
           n == Len(N.turns)
           M == Finished(N, n)
           L == IF fault = "before_ack" THEN M ELSE N
           h == [at |-> IF fault = "before_ack" THEN "close" ELSE "ack",
                 turn |-> n, step |-> 0, fault |-> fault]
<1>1. /\ durable.submits < MaxSubmits /\ runtime[c] # NoRuntime
      /\ Known(c, client) = 0 /\ task[c] = Idle
  BY DEF Submit, Asked, Ready
<1>2. told' = told
  BY DEF Submit
<1>3. \/ WriteFails(N) /\ Release(c)
      \/ durable' = M /\ saved' = N /\ Goes /\ Release(c)
      \/ Write(L) /\ task' = [task EXCEPT ![c] = h] /\ UNCHANGED <<link, runtime>>
  BY Zenon DEF Submit, Waits
<1>4. Fits(durable)
  BY DEF LedgerInv
<1>5. /\ Fits(N) /\ Grows(durable, N)
      /\ n = Len(durable.turns) + 1
      /\ DOMAIN N.turns = DOMAIN durable.turns \cup {n}
      /\ n \notin DOMAIN durable.turns
      /\ \A i \in DOMAIN durable.turns : N.turns[i] = durable.turns[i]
      /\ TurnFits(N.turns[n]) /\ N.turns[n].status = "accepted"
  <2>1. runtime[c] \in Stored /\ IsStored(durable, runtime[c])
    BY <1>1, KnownKey
  <2>2. durable.byClient[<<runtime[c], client>>] = 0
    BY <1>1 DEF Known
  <2> QED  BY <1>1, <1>4, <2>1, <2>2, CommittedFits
<1> HIDE DEF N
<1>6. n \in 0 .. MaxSubmits
  BY <1>5, TurnsOf, ServerAssumption DEF Fits, Ledger
<1> DEFINE t == N.turns[n]
<1>7. OnCourse(t, 0) /\ ~ IsOver(t)
  BY <1>5 DEF OnCourse, IsOver, Terminal
<1> DEFINE u == Finish(t)
<1>8. TurnFits(u) /\ TurnGrows(t, u) /\ IsOver(u)
  <2>1. TurnFits(t)
    BY <1>5
  <2> HIDE DEF t
  <2> QED  BY <1>7, <2>1, FinishGoes
<1>9. M = [N EXCEPT !.turns[n] = u]
  BY Zenon DEF Finished
<1> HIDE DEF n, u, M
<1>10. /\ Fits(M) /\ Grows(N, M) /\ DOMAIN M.turns = DOMAIN N.turns
       /\ M.turns[n] = u
       /\ \A i \in DOMAIN N.turns \ {n} : M.turns[i] = N.turns[i]
  BY <1>5, <1>8, <1>9, PutTurn
<1>11. Grows(durable, M)
  BY <1>4, <1>5, <1>10, LedgerGrowsFurther
<1>12. \A i \in DOMAIN durable.turns : M.turns[i] = durable.turns[i]
  BY <1>5, <1>10
<1>13. AllAbide(N) /\ AllAbide(M)
  BY <1>5, <1>12, SameAbides
<1> HIDE DEF t
<1>14. CASE WriteFails(N) /\ Release(c)
  BY <1>2, <1>5, <1>13, <1>14, AllThenOthers, FailureKeeps
<1>15. CASE durable' = M /\ saved' = N /\ Goes /\ Release(c)
  <2>1. Moves(M, N)
    BY <1>5, <1>10, <1>11 DEF Moves
  <2>2. Moves(durable', saved')
    BY <1>15, <2>1, Zenon
  <2>3. OthersAbide(c, M)
    BY <1>13, AllThenOthers
  <2>4. OthersAbide(c, durable')
    BY <1>15, <2>3, Zenon
  <2>5. trouble' # 0
    BY <1>15, TroubleIs
  <2> QED  BY <1>2, <1>15, <2>2, <2>4, <2>5, Released
<1>16. CASE /\ Write(L) /\ task' = [task EXCEPT ![c] = h]
            /\ UNCHANGED <<link, runtime>>
  <2>1. /\ Fits(L) /\ Grows(durable, L) /\ AllAbide(L)
        /\ DOMAIN L.turns = DOMAIN durable.turns \cup {n}
        /\ \A i \in DOMAIN durable.turns : L.turns[i] = durable.turns[i]
    BY <1>5, <1>10, <1>11, <1>12, <1>13
  <2>2. /\ Moves(durable', saved') /\ durable' = L /\ saved' = L
        /\ trouble' = trouble
    BY <1>16, <2>1, WriteMoves
  <2>3. h \in Task /\ h.turn = n /\ h.at # "idle"
    BY <1>6 DEF Task
  <2>4. HandlerFits(h, L, L)
    <3>1. CASE fault = "before_ack"
      <4>1. IsOver(L.turns[n])
        BY <1>8, <1>10, <3>1
      <4>2. h.at = "close" /\ h.turn = n /\ h.fault = "before_ack"
        BY <3>1
      <4> HIDE DEF L, h
      <4> QED  BY <2>1, <4>1, <4>2 DEF HandlerFits
    <3>2. CASE fault # "before_ack"
      <4>1. OnCourse(L.turns[n], 0)
        BY <1>7, <3>2 DEF t
      <4>2. h.at = "ack" /\ h.turn = n /\ h.step = 0
        BY <3>2
      <4> HIDE DEF L, h
      <4> QED  BY <2>1, <4>1, <4>2 DEF HandlerFits
    <3> QED  BY <3>1, <3>2
  <2> HIDE DEF L, h
  <2>5. HandlerFits(h, durable', saved')
    BY <2>2, <2>4, Zenon
  <2>6. OthersAbide(c, L)
    BY <2>1, AllThenOthers
  <2>7. OthersAbide(c, durable')
    BY <2>2, <2>6, Zenon
  <2>8. \A d \in Conn \ {c} : task[d].at # "idle" => task[d].turn # h.turn
    BY <1>5, <2>3 DEF LedgerInv, Handlers, HandlerFits
  <2>9. Handlers(task', durable', saved')
    BY <1>16, <2>2, <2>3, <2>5, <2>7, <2>8, HandlerMoves
  <2>10. Tended(task', durable', trouble')
    <3>1. task \in [Conn -> Task] /\ Tended(task, durable, trouble)
      BY DEF LedgerInv, Handlers
    <3>2. \A id \in DOMAIN L.turns :
            \/ IsOver(L.turns[id])
            \/ h.turn = id /\ h.at # "idle"
            \/ /\ id \in DOMAIN durable.turns
               /\ IsOver(durable.turns[id]) => IsOver(L.turns[id])
               /\ task[c].turn # id \/ task[c].at = "idle"
      BY <1>1, <2>1, <2>3, IdleFits
    <3>3. Tended([task EXCEPT ![c] = h], L, trouble)
      BY <2>3, <3>1, <3>2, TendedMove
    <3> QED  BY <1>16, <2>2, <3>3, Zenon
  <2>11. Linked(link', trouble')
    BY <1>16, <2>2 DEF LedgerInv
  <2>12. Runtimes(runtime, durable') /\ Told(told, saved')
    BY <2>2, MovesKeep
  <2>13. Runtimes(runtime', durable') /\ Told(told', saved')
    BY <1>2, <1>16, <2>12
  <2> QED  BY <2>2, <2>9, <2>10, <2>11, <2>13, StepKeeps
<1> QED  BY <1>3, <1>14, <1>15, <1>16

-----------------------------------------------------------------------------
(* The handler of a prompt *)

\* All turns but the one that handler c serves are as they were.
OnlyTurnOf(c, N) ==
  /\ DOMAIN N.turns = DOMAIN durable.turns
  /\ \A id \in DOMAIN durable.turns \ {task[c].turn} :
       N.turns[id] = durable.turns[id]

LEMMA ServedTurn ==
  ASSUME LedgerInv, NEW c \in Conn, task[c].at # "idle"
  PROVE  LET id == task[c].turn
         IN  /\ id \in DOMAIN durable.turns /\ id \in DOMAIN saved.turns
             /\ TurnFits(durable.turns[id]) /\ task[c] \in Task
             /\ HandlerFits(task[c], durable, saved)
             /\ \A d \in Conn \ {c} : task[d].at # "idle" => task[d].turn # id
<1>1. /\ HandlerFits(task[c], durable, saved) /\ task[c] \in Task
      /\ \A d \in Conn \ {c} :
           task[d].at # "idle" => task[d].turn # task[c].turn
  BY DEF LedgerInv, Handlers
<1>2. task[c].turn \in DOMAIN durable.turns /\ task[c].turn \in DOMAIN saved.turns
  BY <1>1 DEF HandlerFits
<1>3. TurnFits(durable.turns[task[c].turn])
  BY <1>2, ATurn DEF LedgerInv
<1> QED  BY <1>1, <1>2, <1>3

LEMMA AnswerTold ==
  ASSUME LedgerInv, Moves(durable', saved'), NEW c \in Conn,
         task[c].at # "idle", UNCHANGED told \/ Acknowledge(task[c].turn)
  PROVE  Told(told', saved')
<1>1. CASE UNCHANGED told
  <2>1. Told(told, saved') /\ told' = told
    BY <1>1, MovesKeep
  <2> QED  BY <2>1, Zenon
<1>2. CASE Acknowledge(task[c].turn)
  <2>1. task[c].turn \in DOMAIN durable.turns /\ task[c].turn \in DOMAIN saved'.turns
    BY ServedTurn, MovesKeep
  <2> QED  BY <1>2, <2>1, Acknowledged
<1> QED  BY <1>1, <1>2

LEMMA OnlyThenOthers ==
  ASSUME LedgerInv, NEW c \in Conn, task[c].at # "idle", NEW N, OnlyTurnOf(c, N)
  PROVE  OthersAbide(c, N)
BY OneAbides DEF OnlyTurnOf

LEMMA TendedFurther ==
  ASSUME LedgerInv, NEW c \in Conn, task[c].at # "idle", NEW h \in Task,
         task' = [task EXCEPT ![c] = h], trouble' = trouble,
         OnlyTurnOf(c, durable'),
         \/ h.at # "idle" /\ h.turn = task[c].turn
         \/ IsOver(durable'.turns[task[c].turn])
  PROVE  Tended(task', durable', trouble')
<1>1. task \in [Conn -> Task] /\ Tended(task, durable, trouble)
  BY DEF LedgerInv, Handlers
<1>2. \A id \in DOMAIN durable'.turns :
        \/ IsOver(durable'.turns[id])
        \/ h.turn = id /\ h.at # "idle"
        \/ /\ id \in DOMAIN durable.turns
           /\ IsOver(durable.turns[id]) => IsOver(durable'.turns[id])
           /\ task[c].turn # id \/ task[c].at = "idle"
  BY DEF OnlyTurnOf
<1>3. trouble' = 0 => trouble = 0
  OBVIOUS
<1>4. Tended([task EXCEPT ![c] = h], durable', trouble')
  BY <1>1, <1>2, <1>3, TendedMove
<1> QED  BY <1>4, Zenon

\* The handler goes on to h.
LEMMA ServingKeeps ==
  ASSUME LedgerInv, NEW c \in Conn, task[c].at # "idle", NEW h \in Task,
         task' = [task EXCEPT ![c] = h], trouble' = trouble,
         UNCHANGED <<link, runtime>>,
         UNCHANGED told \/ Acknowledge(task[c].turn),
         Moves(durable', saved'), OnlyTurnOf(c, durable'),
         HandlerFits(h, durable', saved'),
         h.at # "idle" => h.turn = task[c].turn,
         h.at = "idle" => IsOver(durable'.turns[task[c].turn])
  PROVE  LedgerInv' /\ Grows(saved, saved')
<1>1. OthersAbide(c, durable')
  BY OnlyThenOthers
<1>2. h.at # "idle" =>
        \A d \in Conn \ {c} : task[d].at # "idle" => task[d].turn # h.turn
  BY ServedTurn
<1>3. Handlers(task', durable', saved')
  BY <1>1, <1>2, HandlerMoves
<1>4. Tended(task', durable', trouble')
  BY TendedFurther
<1>5. Linked(link', trouble')
  BY DEF LedgerInv
<1>6. Runtimes(runtime', durable')
  <2>1. Runtimes(runtime, durable') /\ runtime' = runtime
    BY MovesKeep
  <2> QED  BY <2>1, Zenon
<1>7. Told(told', saved')
  BY AnswerTold
<1> QED  BY <1>3, <1>4, <1>5, <1>6, <1>7, StepKeeps

\* The write of a handler fails.
LEMMA ServingFails ==
  ASSUME LedgerInv, NEW c \in Conn, task[c].at # "idle",
         NEW N, Fits(N), Grows(durable, N), OnlyTurnOf(c, N), WriteFails(N),
         Release(c), UNCHANGED told \/ Acknowledge(task[c].turn)
  PROVE  LedgerInv' /\ Grows(saved, saved')
<1>1. OthersAbide(c, N)
  BY OnlyThenOthers
<1>2. Moves(N, saved)
  BY DEF Moves
<1>3. durable' = N /\ saved' = saved
  BY DEF WriteFails
<1>4. Moves(durable', saved')
  BY <1>2, <1>3, Zenon
<1>5. Told(told', saved')
  BY <1>4, AnswerTold
<1> QED  BY <1>1, <1>5, FailureKeeps

\* One turn of the memory goes on.
LEMMA OneTurn ==
  ASSUME LedgerInv, NEW c \in Conn, task[c].at # "idle", NEW u, TurnFits(u),
         TurnGrows(durable.turns[task[c].turn], u)
  PROVE  LET N == [durable EXCEPT !.turns[task[c].turn] = u]
         IN  /\ Fits(N) /\ Grows(durable, N) /\ OnlyTurnOf(c, N)
             /\ N.turns[task[c].turn] = u
             /\ task[c].turn \in DOMAIN N.turns
<1> DEFINE id == task[c].turn
           N == [durable EXCEPT !.turns[id] = u]
<1>1. Fits(durable) /\ id \in DOMAIN durable.turns
  BY ServedTurn DEF LedgerInv
<1> HIDE DEF id
<1>2. TurnGrows(durable.turns[id], u)
  BY DEF id
<1>3. /\ Fits(N) /\ Grows(durable, N) /\ DOMAIN N.turns = DOMAIN durable.turns
      /\ N.turns[id] = u
      /\ \A i \in DOMAIN durable.turns \ {id} : N.turns[i] = durable.turns[i]
  BY <1>1, <1>2, PutTurn
<1> HIDE DEF N
<1>4. OnlyTurnOf(c, N)
  BY <1>3 DEF OnlyTurnOf, id
<1> QED  BY <1>1, <1>3, <1>4 DEF N, id

LEMMA EmitKeeps ==
  ASSUME LedgerInv, NEW c \in Conn, task[c].at # "idle", NEW k \in 0 .. 5,
         OnCourse(durable.turns[task[c].turn], k),
         k = 0 => ~ IsOver(durable.turns[task[c].turn]),
         Emit(c, k + 1), UNCHANGED told \/ Acknowledge(task[c].turn)
  PROVE  LedgerInv' /\ Grows(saved, saved')
<1> DEFINE id == task[c].turn
           t == durable.turns[id]
           u == Advance(t, k + 1)
           N == [durable EXCEPT !.turns[id] = u]
           h == [at |-> "emit", turn |-> id, step |-> k + 1,
                 fault |-> task[c].fault]
<1>1. \/ /\ Write(N) /\ task' = [task EXCEPT ![c] = h]
         /\ UNCHANGED <<link, runtime>>
      \/ WriteFails(N) /\ Release(c)
  BY Zenon DEF Emit, Waits
<1>2. /\ TurnFits(u) /\ TurnGrows(t, u)
      /\ k < 5 => OnCourse(u, k + 1)
      /\ k = 5 => IsOver(u)
  <2>1. TurnFits(t)
    BY ServedTurn
  <2> DEFINE x == t
  <2>2. TurnFits(x) /\ OnCourse(x, k) /\ (k = 0 => ~ IsOver(x)) /\ x = t
    BY <2>1
  <2> HIDE DEF x
  <2>3. /\ TurnFits(Advance(x, k + 1)) /\ TurnGrows(x, Advance(x, k + 1))
        /\ k < 5 => OnCourse(Advance(x, k + 1), k + 1)
        /\ k = 5 => IsOver(Advance(x, k + 1))
    BY <2>2, AdvanceGoes
  <2> QED  BY <2>2, <2>3, Zenon
<1> HIDE DEF u
<1>3. /\ Fits(N) /\ Grows(durable, N) /\ OnlyTurnOf(c, N) /\ N.turns[id] = u
      /\ id \in DOMAIN N.turns
  BY <1>2, OneTurn
<1> HIDE DEF N
<1>4. CASE WriteFails(N) /\ Release(c)
  BY <1>3, <1>4, ServingFails
<1>5. CASE /\ Write(N) /\ task' = [task EXCEPT ![c] = h]
           /\ UNCHANGED <<link, runtime>>
  <2>1. /\ Moves(durable', saved') /\ durable' = N /\ saved' = N
        /\ trouble' = trouble
    BY <1>3, <1>5, WriteMoves
  <2>2. h \in Task /\ h.at = "emit" /\ h.turn = id /\ h.step = k + 1
    <3>1. task[c] \in Task
      BY ServedTurn
    <3> QED  BY <3>1 DEF Task
  <2> HIDE DEF h
  <2>3. HandlerFits(h, N, N)
    <3>1. h.step \in 1 .. 6
      BY <2>2
    <3>2. h.step < 6 => OnCourse(N.turns[h.turn], h.step)
      BY <1>2, <1>3, <2>2
    <3>3. h.step = 6 => IsOver(N.turns[h.turn])
      BY <1>2, <1>3, <2>2
    <3>4. h.turn \in DOMAIN N.turns
      BY <1>3, <2>2
    <3> QED  BY <2>2, <3>1, <3>2, <3>3, <3>4 DEF HandlerFits
  <2>4. HandlerFits(h, durable', saved') /\ OnlyTurnOf(c, durable')
    BY <1>3, <2>1, <2>3, Zenon
  <2> QED  BY <1>5, <2>1, <2>2, <2>4, ServingKeeps
<1> QED  BY <1>1, <1>4, <1>5

\* Nothing is written: the handler ends, or closes its connection.
LEMMA ServedKeeps ==
  ASSUME LedgerInv, NEW c \in Conn, task[c].at # "idle", Served(c),
         IsOver(durable.turns[task[c].turn]),
         UNCHANGED told \/ Acknowledge(task[c].turn)
  PROVE  LedgerInv' /\ Grows(saved, saved')
<1>1. /\ task' = [task EXCEPT ![c] = Idle] /\ durable' = durable
      /\ UNCHANGED <<durable, saved>> /\ UNCHANGED <<link, runtime>>
      /\ trouble' = trouble
  BY DEF Served
<1>2. Moves(durable', saved')
  BY <1>1, NothingMoves
<1>3. OnlyTurnOf(c, durable') /\ IsOver(durable'.turns[task[c].turn])
  BY <1>1 DEF OnlyTurnOf
<1>4. HandlerFits(Idle, durable', saved') /\ Idle.at = "idle" /\ Idle \in Task
  BY IdleFits
<1> QED  BY <1>1, <1>2, <1>3, <1>4, ServingKeeps

Closer(c) == [at |-> "close", turn |-> task[c].turn, step |-> task[c].step,
              fault |-> task[c].fault]

LEMMA CloserIs ==
  ASSUME LedgerInv, NEW c \in Conn, task[c].at # "idle"
  PROVE  /\ Closer(c) \in Task /\ Closer(c).at = "close"
         /\ Closer(c).turn = task[c].turn /\ Closer(c).step = task[c].step
         /\ Closer(c).fault = task[c].fault
<1>1. task[c] \in Task
  BY ServedTurn
<1> QED  BY <1>1 DEF Closer, Task

LEMMA ClosingKeeps ==
  ASSUME LedgerInv, NEW c \in Conn, task[c].at # "idle", Closing(c),
         UNCHANGED told \/ Acknowledge(task[c].turn), trouble' = trouble,
         Moves(durable', saved'), OnlyTurnOf(c, durable'),
         IF task[c].fault = "mid_stream"
         THEN /\ task[c].step = SecondDelta
              /\ OnCourse(durable'.turns[task[c].turn], SecondDelta)
         ELSE IsOver(durable'.turns[task[c].turn])
  PROVE  LedgerInv' /\ Grows(saved, saved')
<1> DEFINE h == Closer(c)
<1>1. /\ h \in Task /\ h.at = "close" /\ h.turn = task[c].turn
      /\ h.step = task[c].step /\ h.fault = task[c].fault
  BY CloserIs
<1>2. task' = [task EXCEPT ![c] = h] /\ UNCHANGED <<link, runtime>>
  BY DEF Closing, Waits, Closer
<1> HIDE DEF h
<1>3. task[c].turn \in DOMAIN durable'.turns /\ task[c].turn \in DOMAIN saved'.turns
  BY ServedTurn, MovesKeep
<1>4. HandlerFits(h, durable', saved')
  BY <1>1, <1>3 DEF HandlerFits
<1> QED  BY <1>1, <1>2, <1>4, ServingKeeps

LEMMA AckSentKeeps ==
  ASSUME LedgerInv, NEW c \in Conn, AckSent(c)
  PROVE  LedgerInv' /\ Grows(saved, saved')
<1> DEFINE id == task[c].turn
           t == durable.turns[id]
           u == Finish(t)
           N == [durable EXCEPT !.turns[id] = u]
<1>1. task[c].at = "ack" /\ task[c].at # "idle" /\ Acknowledge(id)
  BY DEF AckSent
<1>2. \/ /\ task[c].fault = "before_first_delta"
         /\ \/ IsOver(t) /\ Closing(c) /\ UNCHANGED <<durable, saved, trouble>>
            \/ ~ IsOver(t) /\ Write(N) /\ Closing(c)
            \/ ~ IsOver(t) /\ WriteFails(N) /\ Release(c)
      \/ task[c].fault # "before_first_delta" /\ IsOver(t) /\ Served(c)
      \/ task[c].fault # "before_first_delta" /\ ~ IsOver(t) /\ Emit(c, 1)
  BY Zenon DEF AckSent, Finished
<1>3. task[c].step = 0 /\ OnCourse(t, 0) /\ TurnFits(t)
  BY <1>1, ServedTurn DEF HandlerFits
<1>4. CASE /\ task[c].fault = "before_first_delta" /\ IsOver(t) /\ Closing(c)
           /\ UNCHANGED <<durable, saved, trouble>>
  <2>1. Moves(durable', saved') /\ durable' = durable /\ trouble' = trouble
    BY <1>4, NothingMoves
  <2>2. OnlyTurnOf(c, durable') /\ IsOver(durable'.turns[id])
    BY <1>4, <2>1 DEF OnlyTurnOf
  <2>3. task[c].fault # "mid_stream"
    BY <1>4
  <2> QED  BY <1>1, <1>4, <2>1, <2>2, <2>3, ClosingKeeps
<1>5. CASE ~ IsOver(t) /\ task[c].fault = "before_first_delta"
  <2>1. TurnFits(u) /\ TurnGrows(t, u) /\ IsOver(u)
    <3> DEFINE x == t
    <3>1. x = t /\ TurnFits(x) /\ OnCourse(x, 0) /\ ~ IsOver(x)
      BY <1>3, <1>5
    <3> HIDE DEF x
    <3>2. TurnFits(Finish(x)) /\ TurnGrows(x, Finish(x)) /\ IsOver(Finish(x))
      BY <3>1, FinishGoes
    <3> QED  BY <3>1, <3>2, Zenon
  <2> HIDE DEF u
  <2>2. /\ Fits(N) /\ Grows(durable, N) /\ OnlyTurnOf(c, N) /\ N.turns[id] = u
    BY <1>1, <2>1, OneTurn
  <2>3. \/ Write(N) /\ Closing(c)
        \/ WriteFails(N) /\ Release(c)
    BY <1>2, <1>5 DEF u
  <2> HIDE DEF N
  <2>4. CASE WriteFails(N) /\ Release(c)
    BY <1>1, <2>2, <2>4, ServingFails
  <2>5. CASE Write(N) /\ Closing(c)
    <3>1. /\ Moves(durable', saved') /\ durable' = N /\ saved' = N
          /\ trouble' = trouble
      BY <2>2, <2>5, WriteMoves
    <3>2. OnlyTurnOf(c, durable') /\ IsOver(durable'.turns[id])
      BY <2>1, <2>2, <3>1, Zenon
    <3>3. task[c].fault # "mid_stream"
      BY <1>5
    <3> QED  BY <1>1, <2>5, <3>1, <3>2, <3>3, ClosingKeeps
  <2> QED  BY <2>3, <2>4, <2>5
<1>6. CASE IsOver(t) /\ Served(c)
  BY <1>1, <1>6, ServedKeeps
<1>7. CASE ~ IsOver(t) /\ Emit(c, 1)
  <2>1. 0 + 1 = 1 /\ 0 \in 0 .. 5
    OBVIOUS
  <2>2. Emit(c, 0 + 1)
    BY <1>7, <2>1, Zenon
  <2> QED  BY <1>1, <1>3, <1>7, <2>1, <2>2, EmitKeeps
<1> QED  BY <1>2, <1>4, <1>5, <1>6, <1>7

LEMMA EventSentKeeps ==
  ASSUME LedgerInv, NEW c \in Conn, EventSent(c)
  PROVE  LedgerInv' /\ Grows(saved, saved')
<1> DEFINE t == durable.turns[task[c].turn]
           step == task[c].step
           closes == \/ step = 4 /\ task[c].fault = "mid_stream"
                     \/ step = 6 /\ task[c].fault = "after_completion"
<1>1. /\ task[c].at = "emit" /\ task[c].at # "idle" /\ UNCHANGED told
      /\ \/ closes /\ Closing(c) /\ UNCHANGED <<durable, saved, trouble>>
         \/ step = 6 /\ Served(c)
         \/ step < 6 /\ Emit(c, step + 1)
  BY CourseIs DEF EventSent, SecondDelta
<1>2. /\ step \in 1 .. 6
      /\ step < 6 => OnCourse(t, step)
      /\ step = 6 => IsOver(t)
  BY <1>1, ServedTurn DEF HandlerFits
<1>3. CASE closes /\ Closing(c) /\ UNCHANGED <<durable, saved, trouble>>
  <2>1. Moves(durable', saved') /\ durable' = durable /\ trouble' = trouble
    BY <1>3, NothingMoves
  <2>2. OnlyTurnOf(c, durable')
    BY <2>1 DEF OnlyTurnOf
  <2>3. IF task[c].fault = "mid_stream"
        THEN step = SecondDelta /\ OnCourse(t, SecondDelta)
        ELSE IsOver(t)
    BY <1>2, <1>3 DEF SecondDelta
  <2>4. IF task[c].fault = "mid_stream"
        THEN /\ task[c].step = SecondDelta
             /\ OnCourse(durable'.turns[task[c].turn], SecondDelta)
        ELSE IsOver(durable'.turns[task[c].turn])
    BY <2>1, <2>3, Zenon
  <2> QED  BY <1>1, <1>3, <2>1, <2>2, <2>4, ClosingKeeps
<1>4. CASE step = 6 /\ Served(c)
  BY <1>1, <1>2, <1>4, ServedKeeps
<1>5. CASE step < 6 /\ Emit(c, step + 1)
  <2>1. step \in 0 .. 5 /\ step # 0
    BY <1>2, <1>5
  <2> QED  BY <1>1, <1>2, <1>5, <2>1, EmitKeeps
<1> QED  BY <1>1, <1>3, <1>4, <1>5

\* The two steps that a turn still has when its connection was closed between
\* its deltas.
LEMMA ClosedKeeps ==
  ASSUME LedgerInv, NEW c \in Conn, Closed(c)
  PROVE  LedgerInv' /\ Grows(saved, saved')
<1> DEFINE id == task[c].turn
           t == durable.turns[id]
           u == Advance(t, 5)
           N == [durable EXCEPT !.turns[id] = u]
           M == [N EXCEPT !.turns[id] = Advance(N.turns[id], 6)]
<1>1. task[c].at = "close" /\ task[c].at # "idle" /\ Release(c) /\ UNCHANGED told
  BY DEF Closed
<1>2. IF task[c].fault = "mid_stream"
      THEN Write(M) \/ WriteFails(N) \/ (durable' = M /\ saved' = N /\ Goes)
      ELSE UNCHANGED <<durable, saved, trouble>>
  <2>1. SecondDelta + 1 = 5 /\ SecondDelta + 2 = 6
    BY DEF SecondDelta
  <2> QED  BY <2>1, Zenon DEF Closed
<1>3. /\ TurnFits(t) /\ id \in DOMAIN durable.turns /\ Fits(durable)
      /\ IF task[c].fault = "mid_stream" THEN OnCourse(t, 4) ELSE IsOver(t)
  BY <1>1, ServedTurn DEF HandlerFits, LedgerInv, SecondDelta
<1>a. task' = [task EXCEPT ![c] = Idle] /\ Idle \in Task
  BY <1>1, IdleFits DEF Release
<1>4. CASE task[c].fault # "mid_stream"
  <2>1. /\ UNCHANGED <<durable, saved>> /\ UNCHANGED trouble /\ durable' = durable
        /\ trouble' = trouble
    BY <1>2, <1>4
  <2>2. Moves(durable', saved')
    BY <2>1, NothingMoves
  <2>3. OnlyTurnOf(c, durable') /\ IsOver(durable'.turns[id])
    BY <1>3, <1>4, <2>1 DEF OnlyTurnOf
  <2>4. OthersAbide(c, durable')
    BY <1>1, <2>3, OnlyThenOthers
  <2>5. Tended(task', durable', trouble')
    BY <1>1, <1>a, <2>1, <2>3, TendedFurther
  <2> QED  BY <1>1, <2>1, <2>2, <2>4, <2>5, Released
<1>5. CASE task[c].fault = "mid_stream"
  <2>1. TurnFits(u) /\ TurnGrows(t, u) /\ OnCourse(u, 5)
    <3> DEFINE x == t
    <3>1. x = t /\ TurnFits(x) /\ OnCourse(x, 4)
      BY <1>3, <1>5
    <3> HIDE DEF x
    <3>2. 4 \in 0 .. 5 /\ 4 + 1 = 5 /\ 4 # 0 /\ 4 < 5
      OBVIOUS
    <3>3. /\ TurnFits(Advance(x, 4 + 1)) /\ TurnGrows(x, Advance(x, 4 + 1))
          /\ OnCourse(Advance(x, 4 + 1), 4 + 1)
      BY <3>1, <3>2, AdvanceGoes
    <3> QED  BY <3>1, <3>2, <3>3, Zenon
  <2> HIDE DEF u
  <2>2. /\ Fits(N) /\ Grows(durable, N) /\ OnlyTurnOf(c, N) /\ N.turns[id] = u
        /\ id \in DOMAIN N.turns
    BY <1>1, <2>1, OneTurn
  <2> DEFINE v == Advance(u, 6)
  <2>3. TurnFits(v) /\ TurnGrows(u, v) /\ IsOver(v)
    <3>2. 5 \in 0 .. 5 /\ 5 + 1 = 6 /\ 5 # 0
      OBVIOUS
    <3>3. /\ TurnFits(Advance(u, 5 + 1)) /\ TurnGrows(u, Advance(u, 5 + 1))
          /\ IsOver(Advance(u, 5 + 1))
      BY <2>1, <3>2, AdvanceGoes
    <3> QED  BY <3>2, <3>3, Zenon
  <2> HIDE DEF N
  <2>4. M = [N EXCEPT !.turns[id] = v]
    BY <2>2
  <2> HIDE DEF v, M
  <2>5. /\ Fits(M) /\ Grows(N, M) /\ DOMAIN M.turns = DOMAIN N.turns
        /\ M.turns[id] = v
        /\ \A i \in DOMAIN N.turns \ {id} : M.turns[i] = N.turns[i]
    <3>1. Fits(N) /\ id \in DOMAIN N.turns /\ TurnGrows(N.turns[id], v)
      BY <2>2, <2>3
    <3> HIDE DEF id
    <3> DEFINE P == [N EXCEPT !.turns[id] = v]
    <3>2. /\ Fits(P) /\ Grows(N, P) /\ DOMAIN P.turns = DOMAIN N.turns
          /\ P.turns[id] = v
          /\ \A i \in DOMAIN N.turns \ {id} : P.turns[i] = N.turns[i]
      BY <2>3, <3>1, PutTurn
    <3>3. M = P
      BY <2>4
    <3> QED  BY <3>2, <3>3, Zenon
  <2>6. Grows(durable, M)
    BY <1>3, <2>2, <2>5, LedgerGrowsFurther
  <2>7. OnlyTurnOf(c, M) /\ IsOver(M.turns[id])
    BY <2>2, <2>3, <2>5 DEF OnlyTurnOf
  <2>8. OthersAbide(c, N) /\ OthersAbide(c, M)
    BY <1>1, <2>2, <2>7, OnlyThenOthers
  <2>9. CASE WriteFails(N)
    BY <1>1, <2>2, <2>8, <2>9, FailureKeeps
  <2>10. CASE durable' = M /\ saved' = N /\ Goes
    <3>1. Moves(M, N)
      BY <2>2, <2>5, <2>6 DEF Moves
    <3>2. Moves(durable', saved') /\ OthersAbide(c, durable')
      BY <2>8, <2>10, <3>1, Zenon
    <3>3. trouble' # 0
      BY <2>10, TroubleIs
    <3> QED  BY <1>1, <2>10, <3>2, <3>3, Released
  <2>11. CASE Write(M)
    <3>1. /\ Moves(durable', saved') /\ durable' = M /\ trouble' = trouble
      BY <2>5, <2>6, <2>11, WriteMoves
    <3>2. /\ OthersAbide(c, durable') /\ OnlyTurnOf(c, durable')
          /\ IsOver(durable'.turns[id])
      BY <2>7, <2>8, <3>1, Zenon
    <3>3. Tended(task', durable', trouble')
      BY <1>1, <1>a, <3>1, <3>2, TendedFurther
    <3> QED  BY <1>1, <3>1, <3>2, <3>3, Released
  <2> QED  BY <1>2, <1>5, <2>9, <2>10, <2>11
<1> QED  BY <1>4, <1>5

-----------------------------------------------------------------------------
(* The invariant is inductive *)

LEMMA InitFits == Init => LedgerInv
<1> SUFFICES ASSUME Init
             PROVE  LedgerInv
  OBVIOUS
<1> DEFINE E == EmptyLedger
<1>1. /\ durable = E /\ saved = E /\ link = [c \in Conn |-> "open"]
      /\ runtime = [c \in Conn |-> 0] /\ task = [c \in Conn |-> Idle]
      /\ told = [bindings |-> [m \in Mobile |-> NoBinding], turns |-> {}]
      /\ trouble = 0
  BY DEF Init, NoRuntime
<1>2. NoBinding \in Binding /\ NoBinding.version = 0
  BY DEF NoBinding, Binding
<1>3. /\ E.bindings = [m \in Mobile |-> NoBinding] /\ E.turns = <<>>
      /\ E.byClient = [key \in Key |-> 0] /\ E.submits = 0 /\ E.executions = 0
      /\ E = [bindings |-> E.bindings, turns |-> E.turns,
              byClient |-> E.byClient, submits |-> E.submits,
              executions |-> E.executions]
  BY DEF EmptyLedger
<1> HIDE DEF E
<1>4. E.turns \in Seq(Turn) /\ Len(E.turns) = 0 /\ DOMAIN E.turns = {}
  BY <1>3, EmptySeq
<1>5. E \in Ledger
  <2>1. /\ E.bindings \in [Mobile -> Binding] /\ E.byClient \in [Key -> Nat]
        /\ E.submits \in 0 .. MaxSubmits /\ E.executions \in Nat
    BY <1>2, <1>3, ServerAssumption
  <2> QED  BY <1>3, <1>4, <2>1 DEF Ledger
<1>6. Bound(E) = {}
  BY <1>3 DEF Bound
<1>7. Identified(E) /\ Indexed(E)
  BY <1>3, <1>4, <1>6 DEF Identified, Indexed
<1>8. Fits(E)
  BY <1>3, <1>4, <1>5, <1>7 DEF Fits
<1>9. Grows(E, E)
  BY <1>8, GrowsSelf
<1>10. Handlers(task, E, E) /\ Tended(task, E, 0)
  <2>1. task \in [Conn -> Task] /\ \A c \in Conn : task[c] = Idle
    BY <1>1, IdleFits
  <2> QED  BY <1>4, <2>1, IdleFits DEF Handlers, Tended
<1>11. Linked(link, 0) /\ Runtimes(runtime, E)
  BY <1>1, ServerAssumption DEF Linked, Runtimes
<1>12. Told(told, E)
  <2>1. \A m \in Mobile : E.bindings[m] = NoBinding
    BY <1>3
  <2>2. /\ told.bindings = [m \in Mobile |-> NoBinding] /\ told.turns = {}
        /\ told = [bindings |-> told.bindings, turns |-> told.turns]
    BY <1>1
  <2> QED  BY <1>2, <2>1, <2>2 DEF Told
<1>13. /\ Fits(durable) /\ Fits(saved) /\ Grows(saved, durable)
       /\ Handlers(task, durable, saved) /\ Tended(task, durable, trouble)
       /\ Linked(link, trouble) /\ Runtimes(runtime, durable)
       /\ Told(told, saved)
  BY <1>1, <1>8, <1>9, <1>10, <1>11, <1>12, Zenon
<1> QED  BY <1>13 DEF LedgerInv

LEMMA NextKeeps ==
  ASSUME LedgerInv, [Next]_vars
  PROVE  LedgerInv' /\ Grows(saved, saved')
<1>1. CASE UNCHANGED vars
  <2>1. /\ durable' = durable /\ saved' = saved /\ link' = link
        /\ runtime' = runtime /\ task' = task /\ told' = told
        /\ trouble' = trouble
    BY <1>1 DEF vars, connVars
  <2>2. Grows(saved, saved)
    BY GrowsSelf DEF LedgerInv
  <2>3. LedgerInv'
    BY <2>1 DEF LedgerInv
  <2> QED  BY <2>1, <2>2, <2>3, Zenon
<1>2. CASE Restart
  BY <1>2, RestartKeeps
<1>3. ASSUME NEW c \in Conn,
             Disconnect(c) \/ Lose(c) \/ RequestStep(c) \/ HandlerStep(c)
      PROVE  LedgerInv' /\ Grows(saved, saved')
  <2>1. CASE Disconnect(c)
    BY <2>1, DisconnectKeeps
  <2>2. CASE Lose(c)
    BY <2>2, LoseKeeps
  <2>3. CASE RequestStep(c)
    <3>1. ASSUME NEW m \in Mobile, SessionOpen(c, m)
          PROVE  LedgerInv' /\ Grows(saved, saved')
      BY <3>1, SessionOpenKeeps
    <3>2. ASSUME NEW client \in ClientTurn, NEW request \in Request,
                 NEW fault \in Faults \cup {None},
                 Submit(c, client, request, fault)
          PROVE  LedgerInv' /\ Grows(saved, saved')
      BY <3>2, SubmitKeeps
    <3>3. ASSUME NEW client \in ClientTurn, NEW request \in Request,
                 SubmitAgain(c, client, request)
          PROVE  LedgerInv' /\ Grows(saved, saved')
      BY <3>3, SubmitAgainKeeps
    <3>4. ASSUME NEW id \in DOMAIN durable.turns, Interrupt(c, id)
          PROVE  LedgerInv' /\ Grows(saved, saved')
      BY <3>4, InterruptKeeps
    <3>5. ASSUME NEW id \in DOMAIN durable.turns, Prune(c, id)
          PROVE  LedgerInv' /\ Grows(saved, saved')
      BY <3>5, PruneKeeps
    <3>6. CASE ForgetRuntimes(c)
      BY <3>6, ForgetRuntimesKeeps
    <3> QED  BY <2>3, <3>1, <3>2, <3>3, <3>4, <3>5, <3>6 DEF RequestStep
  <2>4. CASE HandlerStep(c)
    <3>1. CASE AckSent(c)
      BY <3>1, AckSentKeeps
    <3>2. CASE EventSent(c)
      BY <3>2, EventSentKeeps
    <3>3. CASE Closed(c)
      BY <3>3, ClosedKeeps
    <3>4. CASE SendFails(c)
      BY <3>4, SendFailsKeeps
    <3> QED  BY <2>4, <3>1, <3>2, <3>3, <3>4 DEF HandlerStep
  <2> QED  BY <1>3, <2>1, <2>2, <2>3, <2>4
<1> QED  BY <1>1, <1>2, <1>3 DEF Next

\* The ledger in memory and the one in the file are whole at every step, the
\* file is behind the memory, and every handler waits where its turn has got to.
THEOREM LedgerInvariant == Spec => []LedgerInv
<1>1. Init => LedgerInv
  BY InitFits
<1>2. LedgerInv /\ [Next]_vars => LedgerInv'
  BY NextKeeps
<1> QED  BY <1>1, <1>2, PTL DEF Spec

-----------------------------------------------------------------------------
(* What follows *)

\* _validate_loaded_ledger accepts what fits.
LEMMA FitsThenLoads ==
  ASSUME NEW L, Fits(L)
  PROVE  Loads(L)
<1>1. Identified(L) /\ Indexed(L) /\ L.executions = Len(L.turns)
  BY DEF Fits
<1>2. ASSUME NEW id \in DOMAIN L.turns
      PROVE  TurnLoads(L.turns[id])
  <2> DEFINE t == L.turns[id]
  <2>1. Consecutive(t)
    BY ATurn
  <2> HIDE DEF t
  <2>2. t.last \in Nat /\ t.first \in Nat
    BY <2>1 DEF Consecutive, Turn
  <2> QED  BY <2>1, <2>2 DEF Consecutive, TurnLoads, t
<1>3. ASSUME NEW key \in Key
      PROVE  LET ids == {id \in DOMAIN L.turns :
                           <<L.turns[id].stored, L.turns[id].client>> = key}
             IN ids = IF L.byClient[key] = 0 THEN {} ELSE {L.byClient[key]}
  <2>0. \A id \in DOMAIN L.turns : id # 0
    BY TurnsOf
  <2>1. \A id \in DOMAIN L.turns :
          <<L.turns[id].stored, L.turns[id].client>> = key
            => L.byClient[key] = id /\ id # 0
    BY <1>1, <2>0 DEF Indexed
  <2>2. L.byClient[key] # 0 =>
          /\ L.byClient[key] \in DOMAIN L.turns
          /\ LET t == L.turns[L.byClient[key]] IN <<t.stored, t.client>> = key
    BY <1>1 DEF Indexed
  <2> QED  BY <2>1, <2>2
<1> QED  BY <1>1, <1>2, <1>3 DEF Loads, Identified, Indexed, IsStored

\* The file can be loaded whenever the process ends.
THEOREM LedgerStaysLoadable == Spec => []LedgerLoads
<1>1. LedgerInv => LedgerLoads
  BY FitsThenLoads DEF LedgerInv, LedgerLoads
<1> QED  BY <1>1, LedgerInvariant, PTL

\* No crash and no failed write takes back a binding or an acknowledgement.
THEOREM AcksStayKept == Spec => []AcksAreKept
<1>1. LedgerInv => AcksAreKept
  <2> SUFFICES ASSUME LedgerInv
               PROVE  AcksAreKept
    OBVIOUS
  <2>1. Told(told, saved) /\ Indexed(saved)
    BY DEF LedgerInv, Fits
  <2>2. ASSUME NEW ack \in told.turns
        PROVE  saved.byClient[ack.key] = ack.turn
    BY <2>1 DEF Told, Indexed
  <2> QED  BY <2>1, <2>2 DEF Told, AcksAreKept
<1> QED  BY <1>1, LedgerInvariant, PTL

\* Where those that pass are the ones behind position k, they are the rest.
LEMMA NewerIsRest ==
  ASSUME NEW S, NEW events \in Seq(S), NEW k \in 0 .. Len(events), NEW after,
         \A i \in 1 .. Len(events) : events[i].seq > after <=> i > k
  PROVE  Newer(events, after) = [n \in 1 .. (Len(events) - k) |-> events[k + n]]
<1> DEFINE kept == {i \in DOMAIN events : events[i].seq > after}
           At(n) == CHOOSE i \in kept : Cardinality({j \in kept : j <= i}) = n
<1>1. PICK len \in Nat : len = Len(events)
  OBVIOUS
<1>2. kept = (k + 1) .. len /\ k \in Nat /\ k <= len
  BY <1>1
<1> HIDE DEF kept
<1>3. Cardinality(kept) = len - k /\ len - k \in Nat
  <2>1. Cardinality((k + 1) .. len)
          = IF k + 1 > len THEN 0 ELSE len - (k + 1) + 1
    BY <1>2, FS_Interval
  <2>2. (IF k + 1 > len THEN 0 ELSE len - (k + 1) + 1) = len - k
    BY <1>2
  <2> QED  BY <1>2, <2>1, <2>2
<1>4. ASSUME NEW i \in kept
      PROVE  Cardinality({j \in kept : j <= i}) = i - k
  <2>1. i \in Int /\ i >= k + 1 /\ i <= len
    BY <1>2
  <2>2. {j \in kept : j <= i} = (k + 1) .. i
    BY <1>2, <2>1
  <2>3. Cardinality((k + 1) .. i) = IF k + 1 > i THEN 0 ELSE i - (k + 1) + 1
    BY <1>2, <2>1, FS_Interval
  <2>4. (IF k + 1 > i THEN 0 ELSE i - (k + 1) + 1) = i - k
    BY <1>2, <2>1
  <2> QED  BY <2>2, <2>3, <2>4
<1>5. ASSUME NEW n \in 1 .. (len - k)
      PROVE  At(n) = k + n
  <2>1. k + n \in kept /\ (k + n) - k = n
    BY <1>2
  <2>2. \A i \in kept : i - k = n => i = k + n
    BY <1>2
  <2>3. \A i \in kept : Cardinality({j \in kept : j <= i}) = n <=> i = k + n
    BY <1>4, <2>1, <2>2
  <2> QED  BY <2>1, <2>3
<1>6. Newer(events, after) = [n \in 1 .. (len - k) |-> events[At(n)]]
  BY <1>3 DEF Newer, kept
<1> HIDE DEF At
<1>7. Newer(events, after) = [n \in 1 .. (len - k) |-> events[k + n]]
  BY <1>5, <1>6
<1> QED  BY <1>1, <1>7

\* The events after a cursor are the very next ones, up to the last.
LEMMA NewerAreNext ==
  ASSUME NEW t, Consecutive(t), NEW after \in Nat,
         after <= t.last, after >= t.first - 1
  PROVE  LET newer == Newer(t.events, after)
         IN /\ newer \in Seq(AnEvent) /\ Len(newer) = t.last - after
            /\ \A i \in 1 .. Len(newer) : newer[i].seq = after + i
<1> DEFINE newer == Newer(t.events, after)
<1>1. PICK last \in Nat, first \in Nat, events \in Seq(AnEvent), k \in Nat :
        /\ t.last = last /\ t.first = first /\ t.events = events
        /\ k = after + 1 - first
  <2>1. t.last \in Nat /\ t.first \in Nat /\ t.events \in Seq(AnEvent)
    BY DEF Consecutive, Turn
  <2>2. after + 1 - t.first \in Nat
    BY <2>1
  <2> QED  BY <2>1, <2>2
<1>2. PICK len \in Nat : len = Len(events)
  BY <1>1
<1>3. len = last + 1 - first /\ k <= len /\ len - k = last - after
  BY <1>1, <1>2 DEF Consecutive
<1>4. \A i \in 1 .. len : events[i].seq = first + i - 1
  BY <1>1, <1>2 DEF Consecutive
<1>5. \A i \in 1 .. len : events[i].seq > after <=> i > k
  BY <1>1, <1>3, <1>4
<1>6. PICK m \in Nat : m = len - k
  BY <1>3
<1>7. newer = [n \in 1 .. m |-> events[k + n]]
  <2>1. k \in 0 .. Len(events)
    BY <1>2, <1>3
  <2>2. \A i \in 1 .. Len(events) : events[i].seq > after <=> i > k
    BY <1>2, <1>5
  <2>3. Newer(events, after) = [n \in 1 .. (Len(events) - k) |-> events[k + n]]
    BY ONLY <2>1, <2>2, events \in Seq(AnEvent), NewerIsRest
  <2> QED  BY <1>1, <1>2, <1>6, <2>3
<1> HIDE DEF newer
<1>8. ASSUME NEW i \in 1 .. m
      PROVE  events[k + i] \in AnEvent /\ events[k + i].seq = after + i
  <2>1. PICK j \in 1 .. len : j = k + i /\ first + j - 1 = after + i
    BY <1>1, <1>3, <1>6
  <2>2. events[j].seq = after + i
    BY <1>4, <2>1
  <2>3. events[j] \in AnEvent
    BY <1>2
  <2> QED  BY <2>1, <2>2, <2>3
<1>9. newer \in [1 .. m -> AnEvent] /\ \A i \in 1 .. m : newer[i].seq = after + i
  BY <1>7, <1>8
<1>10. newer \in Seq(AnEvent) /\ Len(newer) = m
  BY ONLY <1>6, <1>9, m \in Nat, SeqDef, LenProperties
<1> QED  BY <1>1, <1>3, <1>6, <1>9, <1>10 DEF newer

\* A phone that reconciles from a cursor the gateway had reached misses no
\* event: it gets the very next ones, and is told that there are more, or that
\* they are gone, exactly when it is so.
THEOREM PagesStayContiguous == Spec => []PagesAreContiguous
<1>1. LedgerInv => PagesAreContiguous
  <2> SUFFICES ASSUME LedgerInv, NEW id \in DOMAIN durable.turns,
                      NEW after \in 0 .. durable.turns[id].last
               PROVE  LET turn == durable.turns[id]
                          page == Page(turn, after)
                      IN /\ page.mode = "events" =>
                              /\ \A i \in DOMAIN page.events :
                                   page.events[i].seq = after + i
                              /\ page.next = after + Len(page.events)
                              /\ after < turn.last => page.events # <<>>
                         /\ page.more <=> page.mode = "events" /\ page.next < turn.last
                         /\ page.mode # "events" <=> after + 1 < turn.first
    BY DEF PagesAreContiguous
  <2> DEFINE turn == durable.turns[id]
             newer == Newer(turn.events, after)
             size == Min({PageSize, Len(newer)})
             page == SubSeq(newer, 1, size)
             next == IF page = <<>> THEN after ELSE Last(page).seq
  <2>1. Consecutive(turn)
    BY ATurn DEF LedgerInv, Fits
  <2> HIDE DEF turn
  <2>2. turn.first \in Nat /\ turn.last \in Nat /\ after \in Nat
    BY <2>1 DEF Consecutive, Turn, turn
  <2>3. CASE after < turn.first - 1
    BY <2>2, <2>3 DEF Page, turn
  <2>4. CASE ~(after < turn.first - 1)
    <3>1. /\ newer \in Seq(AnEvent) /\ Len(newer) = turn.last - after
          /\ \A i \in 1 .. Len(newer) : newer[i].seq = after + i
      BY <2>1, <2>2, <2>4, NewerAreNext DEF turn
    <3> HIDE DEF newer
    <3>2. /\ size \in {PageSize, Len(newer)}
          /\ size <= PageSize /\ size <= Len(newer)
      <4>1. PageSize \in Nat /\ Len(newer) \in Nat
        BY <3>1, LedgerAssumption
      <4>2. \E x \in {PageSize, Len(newer)} :
              \A y \in {PageSize, Len(newer)} : x <= y
        BY <4>1
      <4> QED  BY <4>2 DEF Min
    <3> HIDE DEF size
    <3>3. size \in 0 .. Len(newer) /\ (after < turn.last => size > 0)
      BY <2>2, <3>1, <3>2, LedgerAssumption
    <3>4. /\ page \in Seq(AnEvent) /\ Len(page) = size
          /\ \A i \in 1 .. size : page[i] = newer[i]
      BY <3>1, <3>3
    <3> HIDE DEF page
    <3>5. /\ \A i \in DOMAIN page : page[i].seq = after + i
          /\ page = <<>> <=> size = 0
      BY <3>1, <3>3, <3>4
    <3>6. next = after + Len(page)
      <4>1. CASE page = <<>>
        BY <2>2, <3>3, <3>4, <3>5, <4>1
      <4>2. CASE page # <<>>
        <5>1. size \in 1 .. Len(newer)
          BY <3>1, <3>3, <3>5, <4>2
        <5> QED  BY <3>1, <3>4, <4>2, <5>1 DEF Last
      <4> QED  BY <4>1, <4>2
    <3> HIDE DEF next
    <3> DEFINE answer == Page(turn, after)
               more == next < turn.last
    <3>7. answer = [mode |-> "events", events |-> page, next |-> next, more |-> more]
      BY <2>4 DEF Page, next, page, size, newer
    <3> HIDE DEF more
    <3>8. /\ answer.mode = "events" /\ answer.events = page /\ answer.next = next
          /\ answer.more <=> next < turn.last
      <4>1. answer.mode = "events" /\ answer.events = page /\ answer.next = next
        BY <3>7
      <4>2. answer.more = more
        BY <3>7
      <4> QED  BY <4>1, <4>2 DEF more
    <3> HIDE DEF answer
    <3>9. after < turn.last => page # <<>>
      BY <3>3, <3>5
    <3>10. after + 1 < turn.first <=> after < turn.first - 1
      BY <2>2
    <3>11. \A i \in DOMAIN answer.events : answer.events[i].seq = after + i
      BY <3>5, <3>8
    <3>12. /\ answer.next = after + Len(answer.events)
           /\ after < turn.last => answer.events # <<>>
           /\ answer.more <=> answer.mode = "events" /\ answer.next < turn.last
           /\ answer.mode # "events" <=> after + 1 < turn.first
      BY <2>4, <3>6, <3>8, <3>9, <3>10
    <3> QED  BY <3>11, <3>12 DEF answer, turn
  <2> QED  BY <2>3, <2>4
<1> QED  BY <1>1, LedgerInvariant, PTL

\* A turn has one handler at most, and one that will end it unless something
\* failed in earnest.
THEOREM TurnsStayServedOnce == Spec => []TurnsAreServedOnce
<1>1. LedgerInv => TurnsAreServedOnce
  <2> SUFFICES ASSUME LedgerInv, NEW id \in DOMAIN durable.turns
               PROVE  LET handlers == {c \in Conn : Serves(c, id)}
                      IN  /\ Cardinality(handlers) <= 1
                          /\ ~ IsOver(durable.turns[id]) /\ trouble = 0
                               => handlers # {}
    BY DEF TurnsAreServedOnce
  <2> DEFINE handlers == {c \in Conn : Serves(c, id)}
  <2>1. \A c, d \in handlers : c = d
    BY DEF LedgerInv, Handlers, Serves
  <2>2. ~ IsOver(durable.turns[id]) /\ trouble = 0 => handlers # {}
    BY DEF LedgerInv, Tended, Serves
  <2> HIDE DEF handlers
  <2>3. Cardinality(handlers) <= 1
    <3>1. CASE handlers = {}
      <4>1. Cardinality({}) = 0
        BY FS_EmptySet
      <4> QED  BY <3>1, <4>1
    <3>2. CASE handlers # {}
      <4>1. PICK c : handlers = {c}
        BY <2>1, <3>2
      <4>2. Cardinality({c}) = 1
        BY FS_Singleton
      <4> QED  BY <4>1, <4>2
    <3> QED  BY <3>1, <3>2
  <2> QED  BY <2>2, <2>3 DEF handlers
<1> QED  BY <1>1, LedgerInvariant, PTL

\* Every variable stays in its range; in particular a turn never has more
\* events than its acceptance, its course and one interrupt make.
THEOREM LedgerTypes == Spec => []TypeOK
<1>1. LedgerInv => TypeOK
  <2> SUFFICES ASSUME LedgerInv
               PROVE  TypeOK
    OBVIOUS
  <2>1. ASSUME NEW L, Fits(L)
        PROVE  /\ L.bindings \in [Mobile -> [stored : Stored \cup {0},
                                            version : Nat]]
               /\ L.byClient \in [Key -> 0 .. Len(L.turns)]
               /\ L.submits \in 0 .. MaxSubmits
               /\ \A id \in DOMAIN L.turns :
                    /\ L.turns[id].stored \in Stored
                    /\ L.turns[id].client \in ClientTurn
                    /\ L.turns[id].request \in Request
                    /\ L.turns[id].status \in {"accepted", "running"} \cup Terminal
                    /\ L.turns[id].last \in 1 .. Len(Course) + 2
                    /\ L.turns[id].whole \in BOOLEAN
    <3>1. /\ L.bindings \in [Mobile -> Binding] /\ L.byClient \in [Key -> Nat]
          /\ L.submits \in 0 .. MaxSubmits
      BY <2>1 DEF Fits, Ledger
    <3>2. ASSUME NEW key \in Key
          PROVE  L.byClient[key] \in 0 .. Len(L.turns)
      <4>1. L.byClient[key] # 0 => L.byClient[key] \in 1 .. Len(L.turns)
        BY <2>1, TurnsOf DEF Fits, Indexed
      <4>2. Len(L.turns) \in Nat
        BY <2>1, TurnsOf
      <4> QED  BY <4>1, <4>2
    <3>3. L.byClient \in [Key -> 0 .. Len(L.turns)]
      BY <3>1, <3>2
    <3>4. ASSUME NEW id \in DOMAIN L.turns
          PROVE  /\ L.turns[id].stored \in Stored
                 /\ L.turns[id].client \in ClientTurn
                 /\ L.turns[id].request \in Request
                 /\ L.turns[id].status \in {"accepted", "running"} \cup Terminal
                 /\ L.turns[id].last \in 1 .. Len(Course) + 2
                 /\ L.turns[id].whole \in BOOLEAN
      <4> DEFINE t == L.turns[id]
      <4>1. t \in Turn /\ TurnFits(t)
        BY <2>1, ATurn
      <4> HIDE DEF t
      <4>2. t.last \in 1 .. 8
        BY <4>1 DEF TurnFits, Turn
      <4>3. t.last \in 1 .. Len(Course) + 2
        BY <4>2, CourseIs
      <4>4. t.status \in {"accepted", "running"} \cup Terminal
        BY <4>1 DEF Turn, Terminal
      <4>5. /\ t.stored \in Stored /\ t.client \in ClientTurn
            /\ t.request \in Request /\ t.whole \in BOOLEAN
        BY <4>1 DEF Turn
      <4> QED  BY <4>3, <4>4, <4>5 DEF t
    <3> QED  BY <3>1, <3>3, <3>4 DEF Binding
  <2>2. Fits(durable) /\ Fits(saved)
    BY DEF LedgerInv
  <2>3. /\ link \in [Conn -> {"open", "gone"}] /\ trouble \in 0 .. MaxTrouble
        /\ runtime \in [Conn -> Stored \cup {NoRuntime}]
    BY DEF LedgerInv, Linked, Runtimes, NoRuntime
  <2>4. task \in [Conn -> [at : {"idle", "ack", "emit", "close"},
                           turn : 0 .. MaxSubmits, step : 0 .. Len(Course),
                           fault : Faults \cup {None}]]
    <3>1. Len(Course) = 6
      BY CourseIs
    <3>2. task \in [Conn -> Task]
      BY DEF LedgerInv, Handlers
    <3> QED  BY <3>1, <3>2 DEF Task
  <2> QED  BY <2>1, <2>2, <2>3, <2>4 DEF TypeOK
<1> QED  BY <1>1, LedgerInvariant, PTL

-----------------------------------------------------------------------------
(* TurnBook *)

\* The entry of a client turn, as its turn grows.
LEMMA EntryGoes ==
  ASSUME NEW S, NEW F, Fits(S), Fits(F), Grows(S, F), NEW key \in Key
  PROVE  LET e == EntryOf(S, key)
             f == EntryOf(F, key)
         IN  \/ f = e
             \/ e = [id |-> 0] /\ f.id > 0
             \/ /\ e # [id |-> 0] /\ f.id = e.id /\ f.last >= e.last
                /\ \A n \in DOMAIN f.kinds \cap 1 .. e.last :
                     n \in DOMAIN e.kinds /\ f.kinds[n] = e.kinds[n]
                /\ e.whole => f.whole /\ f.last = e.last
<1> DEFINE id == S.byClient[key]
           ie == F.byClient[key]
           t == S.turns[id]
           u == F.turns[ie]
           Entry(i, x) ==
             [id |-> i, last |-> x.last, whole |-> x.whole,
              kinds |-> [n \in x.first .. x.last |->
                           x.events[n - x.first + 1].kind]]
           e == EntryOf(S, key)
           f == EntryOf(F, key)
<1>1. id \in Nat /\ ie \in Nat
  BY DEF Fits, Ledger
<1>2. /\ id = 0 => e = [id |-> 0]
      /\ id # 0 => e = Entry(id, t)
      /\ ie = 0 => f = [id |-> 0]
      /\ ie # 0 => f = Entry(ie, u)
  BY Zenon DEF EntryOf
<1> HIDE DEF e, f
<1>3. CASE id = 0
  <2>1. CASE ie = 0
    <3>1. f = e
      BY <1>2, <1>3, <2>1, Zenon
    <3> QED  BY <3>1 DEF e, f
  <2>2. CASE ie # 0
    <3>1. f = Entry(ie, u) /\ e = [id |-> 0]
      BY <1>2, <1>3, <2>2
    <3> HIDE DEF ie, u
    <3>2. f.id = ie
      BY <3>1
    <3>3. f.id > 0
      BY <1>1, <2>2, <3>2
    <3> QED  BY <3>1, <3>3 DEF e, f
  <2> QED  BY <2>1, <2>2
<1>4. CASE id # 0
  <2>1. id \in DOMAIN S.turns /\ <<t.stored, t.client>> = key
    BY <1>4 DEF Fits, Indexed
  <2>2. id \in DOMAIN F.turns /\ TurnGrows(t, F.turns[id])
    BY <2>1 DEF Grows
  <2>3. <<F.turns[id].stored, F.turns[id].client>> = key
    BY <2>1, <2>2 DEF TurnGrows
  <2>4. ie = id
    BY <2>2, <2>3 DEF Fits, Indexed
  <2>5. TurnGrows(t, u) /\ Consecutive(t) /\ Consecutive(u)
    BY <2>1, <2>2, <2>4, ATurn
  <2>6. e = Entry(id, t) /\ f = Entry(id, u)
    BY <1>2, <1>4, <2>4
  <2> HIDE DEF t, u, id, ie
  <2>7. /\ t.last \in Nat /\ t.first \in Nat /\ u.last \in Nat /\ u.first \in Nat
        /\ t.first \in 1 .. t.last + 1
    BY <2>5 DEF Consecutive, Turn
  <2>8. /\ e.id = id /\ e.last = t.last /\ e.whole = t.whole
        /\ DOMAIN e.kinds = t.first .. t.last
        /\ \A n \in t.first .. t.last :
             e.kinds[n] = t.events[n - t.first + 1].kind
        /\ f.id = id /\ f.last = u.last /\ f.whole = u.whole
        /\ DOMAIN f.kinds = u.first .. u.last
        /\ \A n \in u.first .. u.last :
             f.kinds[n] = u.events[n - u.first + 1].kind
    BY <2>6
  <2>9. ASSUME NEW n \in DOMAIN f.kinds \cap 1 .. e.last
        PROVE  n \in DOMAIN e.kinds /\ f.kinds[n] = e.kinds[n]
    <3>1. n \in u.first .. u.last /\ n \in 1 .. t.last
      BY <2>8, <2>9
    <3>2. n \in t.first .. t.last /\ n \in u.first .. t.last
      BY <2>5, <2>7, <3>1 DEF TurnGrows
    <3>3. u.events[n - u.first + 1].kind = t.events[n - t.first + 1].kind
      BY <2>5, <3>2 DEF TurnGrows
    <3> QED  BY <2>8, <3>1, <3>2, <3>3
  <2>10. e # [id |-> 0]
    <3>1. e.id # 0
      BY <1>4, <2>8 DEF id
    <3> QED  BY <3>1
  <2>11. f.last >= e.last /\ (e.whole => f.whole /\ f.last = e.last)
    BY <2>5, <2>8 DEF TurnGrows
  <2> QED  BY <2>8, <2>9, <2>10, <2>11 DEF e, f
<1> QED  BY <1>3, <1>4

\* The file implements the book of turns that a phone relies on.
THEOREM LedgerImplementsBook == Spec => ImplementsBook
<1> DEFINE book == [key \in Key |-> EntryOf(saved, key)]
<1>1. Init => Book!Init
  <2> SUFFICES ASSUME Init
               PROVE  Book!Init
    OBVIOUS
  <2>1. \A key \in Key : EntryOf(saved, key) = [id |-> 0]
    BY DEF Init, EmptyLedger, EntryOf
  <2> QED  BY <2>1 DEF Book!Init, Book!Unknown
<1>2. LedgerInv /\ [Next]_vars /\ LedgerInv' => [Book!Next]_book
  <2> SUFFICES ASSUME LedgerInv, [Next]_vars, LedgerInv'
               PROVE  Book!Next
    OBVIOUS
  <2>1. Grows(saved, saved') /\ Fits(saved) /\ Fits(saved')
    BY NextKeeps DEF LedgerInv
  <2>2. ASSUME NEW key \in Key
        PROVE  \/ book'[key] = book[key]
               \/ Book!Accepted(key)
               \/ Book!Continued(key)
    <3>1. book[key] = EntryOf(saved, key) /\ book'[key] = EntryOf(saved', key)
      OBVIOUS
    <3> DEFINE e == EntryOf(saved, key)
               f == EntryOf(saved', key)
    <3>2. \/ f = e
          \/ e = [id |-> 0] /\ f.id > 0
          \/ /\ e # [id |-> 0] /\ f.id = e.id /\ f.last >= e.last
             /\ \A n \in DOMAIN f.kinds \cap 1 .. e.last :
                  n \in DOMAIN e.kinds /\ f.kinds[n] = e.kinds[n]
             /\ e.whole => f.whole /\ f.last = e.last
      BY <2>1, EntryGoes
    <3> QED  BY <3>1, <3>2, Zenon DEF Book!Accepted, Book!Continued, Book!Unknown
  <2> QED  BY <2>2 DEF Book!Next
<1> QED  BY <1>1, <1>2, LedgerInvariant, PTL DEF Spec, ImplementsBook, Book!Spec

=============================================================================
