--------------------------- MODULE PushInvariants ---------------------------
(***************************************************************************)
(* What the proofs know of a reachable state of PushServer beyond its      *)
(* types: the keys of the tables (Sound, in PushStore), how the hints that *)
(* were sent relate to the rows that are left, and who was captured when   *)
(* an event happened.  Each part is a predicate of a database and of a     *)
(* history, so that a transaction is shown to keep it once, for every      *)
(* actor that runs it.                                                     *)
(***************************************************************************)
EXTENDS PushServer

\* Nothing with the event of x can be sent any more: it is gone or cancelled.
Over(d, x) == \A e \in d.events : e.cursor = x.event => e.cancelled

SendsIn(W, x) == {w \in W : SameKey(w, x)}

-----------------------------------------------------------------------------
(* The wire and the store.  W: the sends that were begun.  A: the hints      *)
(* whose acceptance was recorded.                                            *)

\* Cursors and generations are never taken back.
SendsKnown(d, W) ==
  \A w \in W : /\ w.event <= d.cursor
               /\ w.generation <= d.reg[w.installation].generation

\* The secret a registration waits for was sent to it, or to nobody.
SecretsKept(d, W) ==
  \A w \in W, i \in Installation :
    w.kind = "challenge" /\ w.event = d.reg[i].challenge /\ w.event # 0 =>
      /\ w.installation = i
      /\ w.generation = d.reg[i].generation
      /\ w.endpoint = d.reg[i].endpoint

\* A hint that was sent keeps its row, and with it the count of its attempts,
\* as long as its event could be announced to the same generation again.
SentKeepsRow(d, W) ==
  \A w \in W, e \in d.events :
    /\ e.cursor = w.event
    /\ ~ e.cancelled
    /\ e.kind # "challenge"
    /\ w.generation = d.reg[w.installation].generation
    => \E j \in d.outbox : SameKey(j, w)

AttemptsCounted(d, W) ==
  \A j \in d.outbox : Over(d, j) \/ Cardinality(SendsIn(W, j)) <= j.attempts

AcceptedClosed(d, W, A) ==
  \A a \in A : /\ \E w \in W : SameKey(w, a)
               /\ \A j \in d.outbox : SameKey(j, a) => j.done \/ Over(d, j)

Recorded(d, W, A) ==
  /\ SendsKnown(d, W)
  /\ SecretsKept(d, W)
  /\ SentKeepsRow(d, W)
  /\ AttemptsCounted(d, W)
  /\ AcceptedClosed(d, W, A)

\* A claim pays for the send it allows.
LeaseCounted(r) ==
  rt[r].pc = "leased" =>
    \A j \in LeasedRow(r) : Over(db, j) \/ Cardinality(SendsIn(wire, j)) < j.attempts

\* What is being sent is on the wire's record.
SendRecorded(r) ==
  rt[r].pc = "sending" => \A j \in LeasedRow(r) : \E w \in wire : SameKey(w, j)

HistoryInv ==
  /\ PushInv
  /\ Sound(db)
  /\ Recorded(db, wire, accepted)
  /\ \A r \in Runtime : LeaseCounted(r) /\ SendRecorded(r)
  /\ AttemptsBounded

\* A confirmation in flight holds a secret that was sent, or none.
SecretsSent ==
  \A c \in confirms :
    c.secret # 0 => \E w \in wire : w.kind = "challenge" /\ w.event = c.secret

ProofInv == HistoryInv /\ SecretsSent /\ ActiveIsProved

-----------------------------------------------------------------------------
(* Who may hear of an event *)

Capturing(ev, targets) ==
  \A i \in Installation : targets[i] # 0 =>
    [event |-> ev, installation |-> i, generation |-> targets[i]] \in captured

\* Wherever an event waits, its targets are those of the moment it happened.
TargetsCaptured ==
  /\ \A h \in Hook : hook[h].pc \in {"targeted", "write", "queue"} =>
       Capturing(hook[h].event, hook[h].targets)
  /\ \A x \in inbox : Capturing(x.event, x.targets)
  /\ \A r \in Runtime : \A x \in rt[r].item : Capturing(x.event, x.targets)

CaptureInv == HistoryInv /\ TargetsCaptured /\ QueuedWasCaptured

-----------------------------------------------------------------------------
(* Limits *)

InboxKeyed ==
  /\ IsFiniteSet(inbox)
  /\ \A x, y \in inbox : x.id = y.id => x = y
  /\ \A x \in inbox : x.id <= inboxSeq

LimitInv == HistoryInv /\ Bounded(db) /\ InboxKeyed /\ RetentionBounded

-----------------------------------------------------------------------------
(* What the first file of a history may hold for the histories to be whole:  *)
(* no authority proved, and no event queued, before they begin.              *)

FirstFileUnproved ==
  \A d \in InitialDBs, i \in Installation :
    d.reg[i].status = "active" => Legacy(d, i)

FirstFileQuiet ==
  \A d \in InitialDBs : \A j \in d.outbox :
    d.reg[j.installation].status # "active"

=============================================================================
