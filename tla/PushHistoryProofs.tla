-------------------------- MODULE PushHistoryProofs --------------------------
(***************************************************************************)
(* Safety of the mobile-push server, for every set of installations,       *)
(* principals, runtimes and callbacks.  First its state: it is typed, its  *)
(* queue is current, and what a send was built from stays as it is until   *)
(* the send ends.  PushStoreProofs shows what a transaction does to a      *)
(* database; here every step of every actor is shown to be such a          *)
(* transaction, or to leave the database alone.                            *)
(*                                                                         *)
(* Then its history: no hint is sent more often than the policy grants,    *)
(* none again once its acceptance was recorded, none for a request that is *)
(* resolved, and nothing is kept beyond its limit.  A transaction of the   *)
(* store is shown once to keep what the records of the wire say of the     *)
(* tables; then each step of each actor is shown to be such a transaction, *)
(* a claim, the begin of a send, or its acceptance.                        *)
(***************************************************************************)
EXTENDS PushInvariants, PushStoreProofs

-----------------------------------------------------------------------------
(* The initial state *)

LEMMA InitialState ==
  ASSUME Init
  PROVE  PushInv
<1> USE DEF Init
<1>1. NoPolicy \in Policy /\ NoTargets \in Targets
  BY DEF NoPolicy, NoTargets, Policy, Targets
<1>2. DownWorker \in Worker /\ NewObserver \in Observer
  BY <1>1 DEF DownWorker, NewObserver, Worker, WorkerPc, Observer, HookPc
<1>3. Consistent(db) /\ policy \in Policy /\ durable \in SUBSET Session
  BY StateAssumption
<1>4. TypeOK
  BY <1>2, <1>3 DEF TypeOK, Consistent
<1>5. IsFiniteSet(wire)
  BY FS_EmptySet
<1>6. HooksHold
  BY DEF HooksHold, NewObserver
<1>7. OneSender /\ SendIsCurrent
  BY DEF OneSender, SendIsCurrent, DownWorker
<1> QED  BY <1>3, <1>4, <1>5, <1>6, <1>7 DEF PushInv, TypedInv

-----------------------------------------------------------------------------
(* Types and the queue *)

\* Handlers.
LEMMA ApiTyped ==
  ASSUME TypedInv, ApiStep
  PROVE  TypedInv'
<1> USE DEF storeVars, operatorVars, apiVars, historyVars
<1>1. TypeOK /\ Consistent(db) /\ IsFiniteSet(wire) /\ HooksHold
  BY DEF TypedInv
<1>2. CASE OpenStore
  <2>1. Consistent(db')
    BY <1>1, <1>2, MigrateConsistent DEF OpenStore
  <2> QED  BY <1>1, <1>2, <2>1 DEF OpenStore, TypedInv, TypeOK, HooksHold, Consistent
<1>3. ASSUME NEW p \in Principal, NEW i \in Installation, NEW body \in Bodies,
             SubmitPut(p, i, body)
      PROVE  TypedInv'
  <2>1. puts' \subseteq PutCall
    BY <1>1, <1>3, StateAssumption DEF SubmitPut, TypeOK, PutCall
  <2> QED  BY <1>1, <1>3, <2>1 DEF SubmitPut, TypedInv, TypeOK, HooksHold, Consistent
<1>4. ASSUME NEW c \in puts, CommitPut(c)
      PROVE  TypedInv'
  <2>1. c \in PutCall /\ now \in Nat
    BY <1>1 DEF TypeOK
  <2>2. c.principal \in Principal /\ c.installation \in Installation /\ c.body \in Body
    BY <2>1 DEF PutCall
  <2>3. Consistent(db')
    BY <1>1, <1>4, <2>1, <2>2, PutConsistent DEF CommitPut
  <2> QED  BY <1>1, <1>4, <2>3 DEF CommitPut, TypedInv, TypeOK, HooksHold, Consistent
<1>5. ASSUME NEW p \in Principal, NEW i \in Installation, NEW g \in Generations,
             NEW secret \in KnownSecrets, SubmitConfirm(p, i, g, secret)
      PROVE  TypedInv'
  <2>1. g \in Nat
    BY <1>1 DEF Generations, TypeOK, DB, Row
  <2>2. secret \in Nat
    <3>1. \A w \in wire : w.event \in Nat
      BY <1>1 DEF TypeOK, Sent
    <3> QED  BY <3>1 DEF KnownSecrets
  <2>3. confirms' \subseteq ConfirmCall
    BY <1>1, <1>5, <2>1, <2>2 DEF SubmitConfirm, TypeOK, ConfirmCall
  <2> QED  BY <1>1, <1>5, <2>3 DEF SubmitConfirm, TypedInv, TypeOK, HooksHold, Consistent
<1>6. ASSUME NEW c \in confirms, CommitConfirm(c)
      PROVE  TypedInv'
  <2>1. c.installation \in Installation
    BY <1>1 DEF TypeOK, ConfirmCall
  <2>2. db.reg[c.installation].status = "pending"
    BY <1>6 DEF CommitConfirm, ConfirmAllowed
  <2>3. Consistent(db')
    BY <1>1, <1>6, <2>1, <2>2, ConfirmConsistent DEF CommitConfirm
  <2> QED  BY <1>1, <1>6, <2>3 DEF CommitConfirm, TypedInv, TypeOK, HooksHold, Consistent
<1>7. ASSUME NEW c \in puts, AbandonPut(c)
      PROVE  TypedInv'
  BY <1>1, <1>7 DEF AbandonPut, TypedInv, TypeOK, HooksHold, Consistent
<1>8. ASSUME NEW c \in confirms, AbandonConfirm(c)
      PROVE  TypedInv'
  BY <1>1, <1>8 DEF AbandonConfirm, TypedInv, TypeOK, HooksHold, Consistent
<1>9. ASSUME NEW p \in Principal, NEW i \in Installation, RevokeRegistration(p, i)
      PROVE  TypedInv'
  <2>1. Consistent(db')
    BY <1>1, <1>9, RevokeConsistent DEF RevokeRegistration
  <2> QED  BY <1>1, <1>9, <2>1
        DEF RevokeRegistration, TypedInv, TypeOK, HooksHold, Consistent
<1> QED  BY <1>2, <1>3, <1>4, <1>5, <1>6, <1>7, <1>8, <1>9 DEF ApiStep

\* Callbacks.
LEMMA TargetsType ==
  ASSUME NEW d, Consistent(d), NEW ev, NEW pol
  PROVE  CaptureTargets(d, ev, pol) \in Targets
<1>1. \A i \in Installation : d.reg[i].generation \in Nat
  BY DEF Consistent, DB, Row
<1> QED  BY <1>1 DEF CaptureTargets, Targets

\* A callback that has begun or moved on is an observer with its event.
LEMMA HookMoves ==
  ASSUME TypedInv, NEW h \in Hook, NEW pc \in HookPc, NEW t \in Targets,
         hook[h].pc \notin {"todo", "done"},
         hook' = [hook EXCEPT ![h].pc = pc, ![h].targets = t]
  PROVE  hook' \in [Hook -> Observer] /\ HooksHold'
<1>1. hook \in [Hook -> Observer] /\ HooksHold
  BY DEF TypedInv, TypeOK
<1>2. hook[h] \in Observer /\ hook[h].event \in HookEvent
  BY <1>1 DEF HooksHold
<1>3. hook' = [hook EXCEPT ![h] = [hook[h] EXCEPT !.pc = pc, !.targets = t]]
  BY <1>1
<1>4. /\ [hook[h] EXCEPT !.pc = pc, !.targets = t] \in Observer
      /\ [hook[h] EXCEPT !.pc = pc, !.targets = t].event = hook[h].event
  BY <1>2 DEF Observer
<1> QED  BY <1>1, <1>2, <1>3, <1>4 DEF HooksHold

LEMMA HookFinishes ==
  ASSUME TypedInv, NEW h \in Hook, hook' = Finished(h)
  PROVE  hook' \in [Hook -> Observer] /\ HooksHold'
<1>1. hook \in [Hook -> Observer] /\ HooksHold
  BY DEF TypedInv, TypeOK
<1>2. [NewObserver EXCEPT !.pc = "done"] \in Observer
  BY DEF NewObserver, NoPolicy, NoTargets, Observer, HookPc, Policy, Targets
<1>3. [NewObserver EXCEPT !.pc = "done"].pc = "done"
  BY DEF NewObserver
<1> QED  BY <1>1, <1>2, <1>3 DEF HooksHold, Finished

LEMMA ObserverTyped ==
  ASSUME TypedInv, ObserverStep
  PROVE  TypedInv'
<1> USE DEF storeVars, operatorVars, apiVars, historyVars, observerUnchanged
<1>1. TypeOK /\ Consistent(db) /\ IsFiniteSet(wire) /\ HooksHold
  BY DEF TypedInv
<1>2. PICK h \in Hook :
        \/ \E r \in Runtime, ev \in HookCalls : HookBegin(h, r, ev)
        \/ \E r \in Runtime, ev \in HookCalls : HookSkip(h, r, ev)
        \/ HookRun(h)
        \/ HookFail(h)
  BY DEF ObserverStep
<1>3. hook[h] \in Observer /\ hook[h].targets \in Targets /\ hook[h].policy \in Policy
  BY <1>1 DEF TypeOK, Observer
<1>4. ASSUME NEW r \in Runtime, NEW ev \in HookCalls, HookBegin(h, r, ev)
      PROVE  TypedInv'
  <2> DEFINE o == [NewObserver EXCEPT !.pc = "read", !.runtime = r, !.event = ev,
                                      !.policy = policy]
  <2>1. ev \in HookEvent /\ policy \in Policy
    BY <1>1, StateAssumption DEF TypeOK
  <2>2. o \in Observer /\ o.event \in HookEvent
    BY <2>1 DEF NewObserver, NoTargets, Observer, HookPc, Targets
  <2>3. hook' = [hook EXCEPT ![h] = o]
    BY <1>4 DEF HookBegin
  <2> HIDE DEF o
  <2>4. hook' \in [Hook -> Observer] /\ HooksHold'
    BY <1>1, <2>2, <2>3 DEF TypeOK, HooksHold
  <2> QED  BY <1>1, <1>4, <2>4 DEF HookBegin, TypedInv, TypeOK, Consistent
<1>5. ASSUME NEW r \in Runtime, NEW ev \in HookCalls, HookSkip(h, r, ev)
      PROVE  TypedInv'
  <2>1. hook' = [hook EXCEPT ![h].pc = "done"]
    BY <1>5 DEF HookSkip
  <2>2. hook' \in [Hook -> Observer] /\ HooksHold'
    <3>1. hook' = [hook EXCEPT ![h] = [hook[h] EXCEPT !.pc = "done"]]
      BY <1>1, <2>1 DEF TypeOK
    <3>2. /\ [hook[h] EXCEPT !.pc = "done"] \in Observer
          /\ [hook[h] EXCEPT !.pc = "done"].pc = "done"
      BY <1>3 DEF Observer, HookPc
    <3> QED  BY <1>1, <3>1, <3>2 DEF TypeOK, HooksHold
  <2> QED  BY <1>1, <1>5, <2>2 DEF HookSkip, TypedInv, TypeOK, Consistent
<1>6. CASE HookCapture(h)
  <2> DEFINE t == CaptureTargets(db, hook[h].event, hook[h].policy)
             new == {[event |-> hook[h].event, installation |-> i,
                      generation |-> t[i]] :
                        i \in {k \in Installation : t[k] # 0}}
  <2>1. t \in Targets
    BY <1>1, TargetsType
  <2>2. /\ hook[h].pc = "read"
        /\ hook' = [hook EXCEPT ![h].pc = "targeted", ![h].targets = t]
        /\ captured' = captured \cup new
    BY <1>6 DEF HookCapture
  <2> HIDE DEF t
  <2>3. hook' \in [Hook -> Observer] /\ HooksHold'
    <3>1. "targeted" \in HookPc
      BY DEF HookPc
    <3> QED  BY <2>1, <2>2, <3>1, HookMoves
  <2>4. hook[h].event \in HookEvent
    BY <1>1, <2>2 DEF HooksHold
  <2>5. new \subseteq Capture
    BY <2>1, <2>4 DEF Targets, Capture
  <2> HIDE DEF new
  <2> QED  BY <1>1, <1>6, <2>2, <2>3, <2>5
        DEF HookCapture, TypedInv, TypeOK, Consistent
<1>7. CASE HookPeek(h) \/ HookBusy(h)
  <2>1. PICK pc \in HookPc : hook' = [hook EXCEPT ![h].pc = pc]
    BY <1>7 DEF HookPeek, HookBusy, HookPc
  <2>2. hook' = [hook EXCEPT ![h].pc = pc, ![h].targets = hook[h].targets]
    BY <1>1, <2>1 DEF TypeOK, Observer
  <2>3. hook[h].pc \notin {"todo", "done"}
    BY <1>7 DEF HookPeek, HookBusy
  <2>4. hook' \in [Hook -> Observer] /\ HooksHold'
    BY <1>3, <2>2, <2>3, HookMoves
  <2> QED  BY <1>1, <1>7, <2>4 DEF HookPeek, HookBusy, TypedInv, TypeOK, Consistent
<1>8. CASE HookWrite(h)
  <2> DEFINE R == Recipients(db, hook[h].event, hook[h].targets, hook[h].policy)
  <2>1. hook[h].event \in HookEvent /\ now \in Nat /\ now + TTL \in Nat
    BY <1>1, <1>8, StoreAssumption DEF HookWrite, HooksHold, TypeOK
  <2>2. PICK order \in ScanOrders(R) :
          db' = Record(db, hook[h].event, hook[h].targets, hook[h].policy, order,
                       now + TTL, now)
    BY <1>8 DEF HookWrite
  <2>3. Consistent(db')
    BY <1>1, <1>3, <2>1, <2>2, RecordConsistent
  <2>4. hook' \in [Hook -> Observer] /\ HooksHold'
    BY <1>8, HookFinishes DEF HookWrite
  <2> QED  BY <1>1, <1>8, <2>3, <2>4 DEF HookWrite, TypedInv, TypeOK, Consistent
<1>9. CASE HookQueue(h)
  <2>1. hook[h].event \in HookEvent /\ inboxSeq \in Nat /\ now + TTL \in Nat
    BY <1>1, <1>9, StoreAssumption DEF HookQueue, HooksHold, TypeOK
  <2>2. inbox' \subseteq Item /\ inboxSeq' \in Nat
    <3> DEFINE item == [id |-> inboxSeq + 1, event |-> hook[h].event,
                        targets |-> hook[h].targets, expires |-> now + TTL]
               live == {x \in inbox : x.expires > now}
    <3>1. item \in Item
      BY <1>3, <2>1 DEF Item
    <3>2. inbox' \subseteq live \cup {item} /\ inboxSeq' \in {inboxSeq, inboxSeq + 1}
      BY <1>9 DEF HookQueue, InboxPut, NewestItems
    <3>3. live \cup {item} \subseteq Item
      BY <1>1, <3>1 DEF TypeOK
    <3> QED  BY <2>1, <3>2, <3>3
  <2>3. hook' \in [Hook -> Observer] /\ HooksHold'
    BY <1>9, HookFinishes DEF HookQueue
  <2> QED  BY <1>1, <1>9, <2>2, <2>3 DEF HookQueue, TypedInv, TypeOK, Consistent
<1>10. CASE HookFail(h)
  <2>1. hook' \in [Hook -> Observer] /\ HooksHold'
    BY <1>10, HookFinishes DEF HookFail
  <2> QED  BY <1>1, <1>10, <2>1 DEF HookFail, TypedInv, TypeOK, Consistent
<1> QED  BY <1>2, <1>4, <1>5, <1>6, <1>7, <1>8, <1>9, <1>10 DEF HookRun

\* Runtimes.
LEMMA RuntimeType ==
  ASSUME TypedInv, NEW r \in Runtime
  PROVE  /\ rt[r] \in Worker /\ rt[r].policy \in Policy
         /\ rt[r].item \subseteq Item /\ rt[r].moved \in Nat
         /\ Idle(r) \in Worker /\ DownWorker \in Worker
<1>1. rt[r] \in Worker
  BY DEF TypedInv, TypeOK
<1>2. NoPolicy \in Policy
  BY DEF NoPolicy, Policy
<1> QED  BY <1>1, <1>2 DEF Worker, WorkerPc, Idle, DownWorker

\* A step of a runtime that changes neither the queue nor the wire.
LEMMA RuntimeMoves ==
  ASSUME TypedInv, NEW r \in Runtime, NEW w \in Worker, Goto(r, w),
         workerUnchanged, UNCHANGED <<wire, accepted>>,
         Consistent(db'), inbox' \subseteq inbox
  PROVE  TypedInv'
BY DEF TypedInv, TypeOK, HooksHold, Consistent, Goto, workerUnchanged,
       operatorVars, apiVars

LEMMA LeasedRowQueued ==
  ASSUME TypedInv, NEW r \in Runtime, NEW j \in LeasedRow(r)
  PROVE  j \in db.outbox /\ j \in Job /\ j.installation \in Installation
BY DEF TypedInv, LeasedRow, Consistent, DB, Job

\* The loop: starting, stopping, and moving the inbox.
LEMMA LoopTyped ==
  ASSUME TypedInv, NEW r \in Runtime,
         \/ Start(r) \/ Stop(r) \/ Exit(r) \/ BeginPass(r)
         \/ DrainPeek(r) \/ DrainStore(r) \/ DrainRemove(r) \/ CheckInbox(r)
  PROVE  TypedInv'
<1>1. TypeOK /\ Consistent(db)
  BY DEF TypedInv
<1>2. /\ rt[r] \in Worker /\ rt[r].policy \in Policy
      /\ rt[r].item \subseteq Item /\ rt[r].moved \in Nat
      /\ Idle(r) \in Worker /\ DownWorker \in Worker
  BY RuntimeType
<1>3. CASE Start(r)
  <2>1. [DownWorker EXCEPT !.pc = "idle"] \in Worker
    BY <1>2 DEF Worker, WorkerPc
  <2>2. Consistent(db')
    BY <1>1, <1>3, MigrateConsistent DEF Start
  <2> QED  BY <1>3, <2>1, <2>2, RuntimeMoves DEF Start
<1>4. CASE Stop(r)
  <2>1. [rt[r] EXCEPT !.stopping = TRUE] \in Worker
    BY <1>2 DEF Worker
  <2> QED  BY <1>1, <1>4, <2>1, RuntimeMoves DEF Stop
<1>5. CASE Exit(r)
  BY <1>1, <1>2, <1>5, RuntimeMoves DEF Exit
<1>6. CASE BeginPass(r)
  <2>1. [rt[r] EXCEPT !.pc = "drain", !.policy = policy] \in Worker
    BY <1>1, <1>2 DEF Worker, WorkerPc, TypeOK
  <2> QED  BY <1>1, <1>6, <2>1, RuntimeMoves DEF BeginPass
<1>7. CASE DrainPeek(r)
  <2>1. [rt[r] EXCEPT !.pc = "check"] \in Worker
    BY <1>2 DEF Worker, WorkerPc
  <2>2. \A x \in inbox, pc \in {"store", "remove"} :
          [rt[r] EXCEPT !.item = {x}, !.pc = pc] \in Worker
    BY <1>1, <1>2 DEF Worker, WorkerPc, TypeOK
  <2>3. PICK w \in Worker : Goto(r, w)
    BY <1>7, <2>1, <2>2 DEF DrainPeek
  <2> QED  BY <1>1, <1>7, <2>3, RuntimeMoves DEF DrainPeek
<1>8. CASE DrainStore(r)
  <2>1. PICK x \in rt[r].item :
          \E order \in ScanOrders(Recipients(db, x.event, x.targets, rt[r].policy)) :
            db' = Record(db, x.event, x.targets, rt[r].policy, order, x.expires, now)
    BY <1>8 DEF DrainStore
  <2>2. /\ x.event \in HookEvent /\ x.targets \in Targets
        /\ x.expires \in Nat /\ now \in Nat
    BY <1>1, <1>2 DEF Item, TypeOK
  <2>3. Consistent(db')
    BY <1>1, <1>2, <2>1, <2>2, RecordConsistent
  <2>4. [rt[r] EXCEPT !.pc = "remove"] \in Worker
    BY <1>2 DEF Worker, WorkerPc
  <2> QED  BY <1>8, <2>3, <2>4, RuntimeMoves DEF DrainStore
<1>9. CASE DrainRemove(r)
  <2> DEFINE n == rt[r].moved + 1
  <2>1. n \in Nat
    BY <1>2
  <2>2. Goto(r, [rt[r] EXCEPT !.pc = "drain", !.item = {}, !.moved = n])
    BY <1>9 DEF DrainRemove
  <2> HIDE DEF n
  <2>3. [rt[r] EXCEPT !.pc = "drain", !.item = {}, !.moved = n] \in Worker
    BY <1>2, <2>1 DEF Worker, WorkerPc
  <2> QED  BY <1>1, <1>9, <2>2, <2>3, RuntimeMoves DEF DrainRemove
<1>10. CASE CheckInbox(r)
  <2>1. [rt[r] EXCEPT !.pc = "claim"] \in Worker
    BY <1>2 DEF Worker, WorkerPc
  <2>2. PICK w \in Worker : Goto(r, w)
    BY <1>2, <1>10, <2>1 DEF CheckInbox
  <2> QED  BY <1>1, <1>10, <2>2, RuntimeMoves DEF CheckInbox
<1> QED  BY <1>3, <1>4, <1>5, <1>6, <1>7, <1>8, <1>9, <1>10

\* The two transactions of a delivery.
LEMMA DeliveryTyped ==
  ASSUME TypedInv, NEW r \in Runtime,
         \/ ClaimJob(r) \/ LostLease(r) \/ DropUnpermitted(r) \/ BeginSend(r)
         \/ FinishSend(r) \/ WorkerBusy(r)
  PROVE  TypedInv'
<1>1. TypeOK /\ Consistent(db)
  BY DEF TypedInv
<1>2. rt[r] \in Worker /\ Idle(r) \in Worker
  BY RuntimeType
<1>3. CASE ClaimJob(r)
  <2> DEFINE e == BeforeClaim(db, now)
  <2>1. Consistent(e) /\ now \in Nat
    BY <1>1, BeforeClaimConsistent DEF TypeOK
  <2>2. e.outbox \in SUBSET Job
    BY <2>1 DEF Consistent, DB
  <2> HIDE DEF e
  <2>3. CASE db' = e /\ Goto(r, Idle(r))
    BY <1>2, <1>3, <2>1, <2>3, RuntimeMoves DEF ClaimJob
  <2>4. CASE \E j \in OldestDue(e, now) :
               /\ db' = ClaimRow(e, j, r, now)
               /\ Goto(r, [rt[r] EXCEPT !.pc = "leased", !.job = j.id])
    <3>1. PICK j \in OldestDue(e, now) :
            /\ db' = ClaimRow(e, j, r, now)
            /\ Goto(r, [rt[r] EXCEPT !.pc = "leased", !.job = j.id])
      BY <2>4
    <3>2. j \in e.outbox /\ j.id \in Nat
      BY <2>2 DEF OldestDue, Due, Job
    <3>3. Consistent(db')
      BY <2>1, <3>1, <3>2, ClaimRowConsistent
    <3>4. [rt[r] EXCEPT !.pc = "leased", !.job = j.id] \in Worker
      BY <1>2, <3>2 DEF Worker, WorkerPc
    <3> QED  BY <1>3, <3>1, <3>3, <3>4, RuntimeMoves DEF ClaimJob
  <2> QED  BY <1>3, <2>3, <2>4 DEF ClaimJob, e
<1>4. CASE LostLease(r)
  BY <1>1, <1>2, <1>4, RuntimeMoves DEF LostLease
<1>5. CASE DropUnpermitted(r)
  <2>1. Consistent(db')
    BY <1>1, <1>5, LeasedRowQueued, DropJobConsistent DEF DropUnpermitted
  <2> QED  BY <1>2, <1>5, <2>1, RuntimeMoves DEF DropUnpermitted
<1>6. CASE BeginSend(r)
  <2>1. PICK j \in LeasedRow(r) : wire' = wire \cup {SentBy(j)}
    BY <1>6 DEF BeginSend
  <2>2. IsFiniteSet(wire) /\ SendsOf(j) \subseteq wire
    BY DEF TypedInv, SendsOf
  <2>3. Cardinality(SendsOf(j)) + 1 \in Nat
    <3>1. IsFiniteSet(SendsOf(j))
      BY <2>2, FS_Subset
    <3>2. Cardinality(SendsOf(j)) \in Nat
      BY <3>1, FS_CardinalityType
    <3> QED  BY <3>2
  <2>4. SentBy(j) \in Sent
    <3>1. j \in Job /\ j.installation \in Installation
      BY LeasedRowQueued
    <3>2. db.reg[j.installation].endpoint \in Endpoint \cup {None}
      BY <1>1, <3>1 DEF TypeOK, DB, Row
    <3> QED  BY <2>3, <3>1, <3>2 DEF SentBy, Sent, Job
  <2>5. IsFiniteSet(wire')
    BY <2>1, <2>2, FS_AddElement
  <2>6. [rt[r] EXCEPT !.pc = "sending"] \in Worker
    BY <1>2 DEF Worker, WorkerPc
  <2>7. rt' \in [Runtime -> Worker]
    BY <1>1, <1>6, <2>6 DEF BeginSend, Goto, TypeOK
  <2> QED  BY <1>1, <1>6, <2>1, <2>4, <2>5, <2>7
        DEF BeginSend, TypedInv, TypeOK, HooksHold, Consistent, workerUnchanged,
            operatorVars, apiVars
<1>7. CASE SendAccepted(r)
  <2>1. PICK j \in LeasedRow(r) :
          /\ db' = SettleJob(db, j)
          /\ accepted' = accepted \cup
               {[event |-> j.event, installation |-> j.installation,
                 generation |-> j.generation]}
    BY <1>7 DEF SendAccepted
  <2>2. j \in db.outbox /\ j \in Job
    BY LeasedRowQueued
  <2>3. Consistent(db')
    BY <1>1, <2>1, <2>2, SettleJobConsistent
  <2>4. accepted' \subseteq Delivery
    <3>1. /\ j.event \in Nat /\ j.installation \in Installation
          /\ j.generation \in Nat
      BY <2>2 DEF Job
    <3>2. accepted \subseteq Delivery
      BY <1>1 DEF TypeOK
    <3> QED  BY <2>1, <3>1, <3>2 DEF Delivery
  <2> QED  BY <1>1, <1>2, <1>7, <2>3, <2>4
        DEF SendAccepted, TypedInv, TypeOK, HooksHold, Consistent, Goto,
            workerUnchanged, operatorVars, apiVars
<1>8. CASE SendRejected(r) \/ SendGone(r) \/ SendFailed(r)
  <2>1. Consistent(db')
    BY <1>1, <1>8, LeasedRowQueued, SettleJobConsistent, RevokeInConsistent,
       RetryJobConsistent DEF SendRejected, SendGone, SendFailed, TypeOK
  <2> QED  BY <1>2, <1>8, <2>1, RuntimeMoves DEF SendRejected, SendGone, SendFailed
<1>9. CASE WorkerBusy(r)
  BY <1>1, <1>2, <1>9, RuntimeMoves DEF WorkerBusy
<1> QED  BY <1>3, <1>4, <1>5, <1>6, <1>7, <1>8, <1>9 DEF FinishSend

LEMMA CrashTyped ==
  ASSUME TypedInv, NEW r \in Runtime, Crash(r)
  PROVE  TypedInv'
<1>1. TypeOK /\ Consistent(db) /\ HooksHold
  BY DEF TypedInv
<1>2. DownWorker \in Worker
  BY RuntimeType
<1> DEFINE done == [NewObserver EXCEPT !.pc = "done"]
<1>3. done \in Observer /\ done.pc = "done"
  BY DEF NewObserver, NoPolicy, NoTargets, Observer, HookPc, Policy, Targets
<1>4. hook' = [h \in Hook |-> IF hook[h].runtime = r THEN done ELSE hook[h]]
  BY DEF Crash
<1> HIDE DEF done
<1>5. hook' \in [Hook -> Observer] /\ HooksHold'
  BY <1>1, <1>3, <1>4 DEF TypeOK, HooksHold
<1> QED  BY <1>1, <1>2, <1>5
      DEF Crash, Goto, TypedInv, TypeOK, Consistent, storeVars, operatorVars, apiVars,
          historyVars

LEMMA TypedStep ==
  ASSUME TypedInv, [Next]_vars
  PROVE  TypedInv'
<1>1. CASE ApiStep
  BY <1>1, ApiTyped
<1>2. CASE ObserverStep
  BY <1>2, ObserverTyped
<1>3. CASE WorkerStep
  BY <1>3, LoopTyped, DeliveryTyped, CrashTyped DEF WorkerStep, WorkerRun
<1>4. CASE OperatorStep \/ Tick \/ UNCHANGED vars
  BY <1>4, StateAssumption
     DEF OperatorStep, ChangePolicy, ChangeDurable, Tick, vars, TypedInv, TypeOK,
         HooksHold, Consistent, storeVars, operatorVars, apiVars, historyVars
<1> QED  BY <1>1, <1>2, <1>3, <1>4 DEF Next

-----------------------------------------------------------------------------
(* Sends *)

\* A step that begins no send and cannot be seen by one that is under way.
Quiet ==
  /\ db' = db
  /\ \A q \in Runtime : rt'[q].pc = "sending" =>
       rt[q].pc = "sending" /\ rt'[q].job = rt[q].job

\* Every step is quiet, leaves no send behind, or begins one.
LEMMA StepsAroundSends ==
  ASSUME TypedInv, OneSender, [Next]_vars
  PROVE  Quiet \/ ~ Locked' \/ \E r \in Runtime : BeginSend(r)
<1> USE DEF storeVars, operatorVars, apiVars, historyVars
<1>1. rt \in [Runtime -> Worker]
  BY DEF TypedInv, TypeOK
<1>2. CASE ApiStep
  <2>1. rt' = rt /\ (db' = db \/ ~ Locked)
    BY <1>2 DEF ApiStep, OpenStore, SubmitPut, CommitPut, SubmitConfirm,
                CommitConfirm, AbandonPut, AbandonConfirm, RevokeRegistration
  <2> QED  BY <2>1 DEF Quiet, Locked
<1>3. CASE ObserverStep
  <2>1. rt' = rt /\ (db' = db \/ ~ Locked)
    BY <1>3 DEF ObserverStep, HookBegin, HookSkip, HookRun, HookCapture, HookPeek,
                HookWrite, HookBusy, HookQueue, HookFail, observerUnchanged
  <2> QED  BY <2>1 DEF Quiet, Locked
<1>4. CASE OperatorStep \/ Tick \/ UNCHANGED vars
  BY <1>4 DEF OperatorStep, ChangePolicy, ChangeDurable, Tick, vars, Quiet
<1>5. ASSUME NEW r \in Runtime, NEW w, Goto(r, w), w.pc # "sending",
             db' = db \/ ~ Locked
      PROVE  Quiet \/ ~ Locked'
  BY <1>1, <1>5 DEF Goto, Quiet, Locked
<1>6. ASSUME NEW r \in Runtime, Stop(r)
      PROVE  Quiet
  BY <1>1, <1>6 DEF Stop, Goto, Quiet, Worker
<1>7. ASSUME NEW r \in Runtime
      PROVE  DownWorker.pc # "sending" /\ Idle(r).pc # "sending"
  BY DEF DownWorker, Idle
<1>8. ASSUME NEW r \in Runtime, Start(r)
      PROVE  Quiet \/ ~ Locked'
  <2>1. [DownWorker EXCEPT !.pc = "idle"].pc # "sending"
    BY DEF DownWorker
  <2> QED  BY <1>5, <1>8, <2>1 DEF Start
<1>9. ASSUME NEW r \in Runtime,
             \/ Exit(r) \/ BeginPass(r) \/ DrainPeek(r) \/ DrainStore(r)
             \/ DrainRemove(r) \/ CheckInbox(r)
      PROVE  Quiet \/ ~ Locked'
  <2>1. rt[r] \in Worker
    BY <1>1
  <2>2. \E w : Goto(r, w) /\ w.pc # "sending"
    <3>1. CASE DrainPeek(r)
      <4>1. [rt[r] EXCEPT !.pc = "check"].pc = "check"
        BY <2>1 DEF Worker
      <4> DEFINE peeked(x) ==
                   [rt[r] EXCEPT !.item = {x},
                      !.pc = IF x.expires > now /\ x.event.session \in durable
                             THEN "store" ELSE "remove"]
      <4>2. \A x : peeked(x).pc # "sending"
        BY <2>1 DEF Worker
      <4>3. \/ Goto(r, [rt[r] EXCEPT !.pc = "check"])
            \/ \E x \in inbox : Goto(r, peeked(x))
        BY <3>1 DEF DrainPeek
      <4> HIDE DEF peeked
      <4> QED  BY <4>1, <4>2, <4>3
    <3>2. CASE DrainRemove(r)
      <4>1. [rt[r] EXCEPT !.pc = "drain", !.item = {}, !.moved = @ + 1].pc = "drain"
        BY <2>1 DEF Worker
      <4>2. Goto(r, [rt[r] EXCEPT !.pc = "drain", !.item = {}, !.moved = @ + 1])
        BY <3>2 DEF DrainRemove
      <4> QED  BY <4>1, <4>2
    <3>3. CASE BeginPass(r)
      <4>1. [rt[r] EXCEPT !.pc = "drain", !.policy = policy].pc = "drain"
        BY <2>1 DEF Worker
      <4> QED  BY <3>3, <4>1 DEF BeginPass
    <3>4. CASE DrainStore(r) \/ CheckInbox(r)
      <4>1. \A pc \in {"remove", "claim"} : [rt[r] EXCEPT !.pc = pc].pc # "sending"
        BY <2>1 DEF Worker
      <4>2. CASE DrainStore(r)
        <5>1. Goto(r, [rt[r] EXCEPT !.pc = "remove"])
          BY <4>2 DEF DrainStore
        <5> QED  BY <4>1, <5>1
      <4>3. CASE CheckInbox(r)
        <5>1. Goto(r, [rt[r] EXCEPT !.pc = "claim"]) \/ Goto(r, Idle(r))
          BY <4>3 DEF CheckInbox
        <5> QED  BY <1>7, <4>1, <5>1
      <4> QED  BY <3>4, <4>2, <4>3
    <3>5. CASE Exit(r)
      BY <1>7, <3>5 DEF Exit
    <3> QED  BY <1>9, <3>1, <3>2, <3>3, <3>4, <3>5
  <2>3. db' = db \/ ~ Locked
    BY <1>9 DEF Exit, BeginPass, DrainPeek, DrainStore, DrainRemove, CheckInbox
  <2> QED  BY <1>5, <2>2, <2>3
<1>10. ASSUME NEW r \in Runtime,
              \/ ClaimJob(r) \/ LostLease(r) \/ DropUnpermitted(r) \/ WorkerBusy(r)
       PROVE  Quiet \/ ~ Locked'
  <2>1. rt[r] \in Worker
    BY <1>1
  <2>2. \E w : Goto(r, w) /\ w.pc # "sending"
    <3>1. \A n : [rt[r] EXCEPT !.pc = "leased", !.job = n].pc = "leased"
      BY <2>1 DEF Worker
    <3> QED  BY <1>7, <1>10, <3>1 DEF ClaimJob, LostLease, DropUnpermitted, WorkerBusy
  <2>3. db' = db \/ ~ Locked
    BY <1>10 DEF ClaimJob, LostLease, DropUnpermitted, WorkerBusy
  <2> QED  BY <1>5, <2>2, <2>3
<1>11. ASSUME NEW r \in Runtime, FinishSend(r)
       PROVE  ~ Locked'
  <2>1. rt[r].pc = "sending" /\ Goto(r, Idle(r))
    BY <1>11 DEF FinishSend, SendAccepted, SendRejected, SendGone, SendFailed
  <2>2. \A q \in Runtime \ {r} : rt[q].pc # "sending"
    BY <2>1 DEF OneSender
  <2> QED  BY <1>1, <1>7, <2>1, <2>2 DEF Goto, Locked
<1>12. ASSUME NEW r \in Runtime, Crash(r)
       PROVE  Quiet \/ ~ Locked'
  BY <1>5, <1>7, <1>12 DEF Crash
<1>13. CASE WorkerStep
  BY <1>6, <1>8, <1>9, <1>10, <1>11, <1>12, <1>13 DEF WorkerStep, WorkerRun
<1> QED  BY <1>2, <1>3, <1>4, <1>13 DEF Next

\* A send begins alone, for a hint of the registration as it stands.
LEMMA SendBegins ==
  ASSUME PushInv, NEW r \in Runtime, BeginSend(r)
  PROVE  OneSender' /\ SendIsCurrent'
<1>1. rt \in [Runtime -> Worker] /\ Consistent(db)
  BY DEF PushInv, TypedInv, TypeOK
<1>2. /\ ~ Locked /\ db' = db
      /\ rt' = [rt EXCEPT ![r] = [rt[r] EXCEPT !.pc = "sending"]]
  BY DEF BeginSend, Goto
<1>3. \A q \in Runtime : rt'[q].pc = "sending" => q = r
  BY <1>1, <1>2 DEF Locked
<1>4. rt'[r].job = rt[r].job
  BY <1>1, <1>2 DEF Worker
<1>5. PICK j \in LeasedRow(r) : Permitted(r, j)
  BY DEF BeginSend
<1>6. j \in LeasedRow(r)'
  BY <1>2, <1>4, <1>5 DEF LeasedRow
<1>7. db.reg[j.installation].status \in {"pending", "active"}
  BY <1>5 DEF Permitted
<1>8. /\ j \in db.outbox /\ j.installation \in Installation
  BY <1>5, LeasedRowQueued DEF PushInv
<1>9. /\ j.generation = db.reg[j.installation].generation
      /\ db.reg[j.installation].endpoint # None
  BY <1>1, <1>7, <1>8 DEF Consistent, QueueCurrent, LiveRowsBound
<1> QED  BY <1>2, <1>3, <1>6, <1>7, <1>9 DEF OneSender, SendIsCurrent

LEMMA InvariantStep ==
  ASSUME PushInv, [Next]_vars
  PROVE  PushInv'
<1>1. TypedInv'
  BY TypedStep DEF PushInv
<1>2. Quiet \/ ~ Locked' \/ \E r \in Runtime : BeginSend(r)
  BY StepsAroundSends DEF PushInv
<1>3. CASE Quiet
  <2>1. \A q \in Runtime : rt'[q].pc = "sending" => LeasedRow(q)' = LeasedRow(q)
    BY <1>3 DEF Quiet, LeasedRow
  <2> QED  BY <1>1, <1>3, <2>1 DEF PushInv, Quiet, OneSender, SendIsCurrent
<1>4. CASE ~ Locked'
  BY <1>1, <1>4 DEF PushInv, Locked, OneSender, SendIsCurrent
<1>5. CASE \E r \in Runtime : BeginSend(r)
  BY <1>1, <1>5, SendBegins DEF PushInv
<1> QED  BY <1>2, <1>3, <1>4, <1>5

-----------------------------------------------------------------------------
(* Theorems *)

\* The invariant holds in every state the server reaches.
THEOREM PushInvariant == Spec => []PushInv
<1>1. Init => PushInv
  BY InitialState
<1>2. PushInv /\ [Next]_vars => PushInv'
  BY InvariantStep
<1> QED  BY <1>1, <1>2, PTL DEF Spec

\* Every variable keeps its type: no handler, callback, worker, migration or
\* crash writes a row, an inbox item or a memory it should not.
THEOREM TypesHold == Spec => []TypeOK
<1>1. PushInv => TypeOK
  BY DEF PushInv, TypedInv
<1> QED  BY <1>1, PushInvariant, PTL

\* Whatever races with a renewal, a confirmation or a revocation, no hint of an
\* ended authority stays queued (Store.put, confirm, revoke_in, record).
THEOREM QueueStaysCurrent == Spec => []QueueIsCurrent
<1>1. PushInv => QueueIsCurrent
  BY DEF PushInv, TypedInv, Consistent, QueueIsCurrent
<1> QED  BY <1>1, PushInvariant, PTL

\* While a hint is on the wire its row stays leased and its registration stays
\* the one it was addressed to (Runtime.deliver_one's second transaction).
THEOREM SendStaysCurrent == Spec => []SendIsCurrent
<1>1. PushInv => SendIsCurrent
  BY DEF PushInv
<1> QED  BY <1>1, PushInvariant, PTL

\* Runtimes of several processes never send at the same time.
THEOREM SendersExclude == Spec => []OneSender
<1>1. PushInv => OneSender
  BY DEF PushInv
<1> QED  BY <1>1, PushInvariant, PTL

-----------------------------------------------------------------------------
(* The records of the wire under each kind of change *)

\* Finitely many sends that were begun, and the hints that were accepted.
Records(W, A) == W \in SUBSET Sent /\ IsFiniteSet(W) /\ A \in SUBSET Delivery

\* What is over stays over.
LEMMA OverKept ==
  ASSUME NEW d, NEW f, Consistent(d), Sound(d), Kept(d, f),
         NEW j \in d.outbox, NEW k, k.event = j.event, Over(d, j)
  PROVE  Over(f, k)
<1>1. j.event <= d.cursor
  BY DEF Sound, HintsKeyed, EventsKeyed
<1> QED  BY <1>1 DEF Over, Kept, SameEvent

LEMMA NobodySent ==
  ASSUME NEW W, NEW x, \A w \in W : ~ SameKey(w, x)
  PROVE  Cardinality(SendsIn(W, x)) = 0
<1>1. SendsIn(W, x) = {}
  BY DEF SendsIn
<1> QED  BY <1>1, FS_EmptySet

LEMMA TrimsRecorded ==
  ASSUME NEW d, NEW f, NEW W, NEW A, Consistent(d), Sound(d), Trims(d, f),
         Recorded(d, W, A)
  PROVE  Recorded(f, W, A)
<1>1. Kept(d, f)
  BY TrimsKept
<1>2. SendsKnown(f, W) /\ SecretsKept(f, W)
  BY DEF Trims, Recorded, SendsKnown, SecretsKept
<1>3. SentKeepsRow(f, W)
  <2> SUFFICES ASSUME NEW w \in W, NEW e \in f.events, e.cursor = w.event,
                      ~ e.cancelled, e.kind # "challenge",
                      w.generation = f.reg[w.installation].generation
               PROVE  \E j \in f.outbox : SameKey(j, w)
    BY DEF SentKeepsRow
  <2>1. PICK c \in d.events : SameEvent(c, e)
    BY DEF Trims
  <2>0. /\ c \in d.events /\ c.cursor = w.event /\ ~ c.cancelled
        /\ c.kind # "challenge"
        /\ w.generation = d.reg[w.installation].generation
    BY <2>1 DEF Trims, SameEvent
  <2>2. PICK j \in d.outbox : SameKey(j, w)
    <3>1. SentKeepsRow(d, W)
      BY DEF Recorded
    <3> QED  BY <2>0, <3>1 DEF SentKeepsRow
  <2>3. j \in f.outbox
    BY <2>2 DEF Trims, SameKey
  <2> QED  BY <2>2, <2>3
<1>4. AttemptsCounted(f, W)
  BY <1>1, OverKept DEF Trims, Recorded, AttemptsCounted
<1>5. AcceptedClosed(f, W, A)
  BY <1>1, OverKept DEF Trims, Recorded, AcceptedClosed
<1> QED  BY <1>2, <1>3, <1>4, <1>5 DEF Recorded

LEMMA EndsRecorded ==
  ASSUME NEW d, NEW f, NEW I \in SUBSET Installation, NEW W, NEW A,
         Records(W, A), Consistent(d), Consistent(f), Sound(d), Ends(d, f, I),
         \A i \in I : \/ f.reg[i].generation > d.reg[i].generation
                      \/ d.reg[i].status = "pending",
         Recorded(d, W, A)
  PROVE  Recorded(f, W, A)
<1>1. Kept(d, f)
  BY EndsKept
<1>2. /\ \A w \in W : w.installation \in Installation /\ w.generation \in Nat
      /\ \A i \in Installation : /\ d.reg[i].generation \in Nat
                                 /\ f.reg[i].generation \in Nat
  BY DEF Records, Sent, Consistent, DB, Row
<1>3. SendsKnown(f, W)
  <2> SUFFICES ASSUME NEW w \in W
               PROVE  /\ w.event <= f.cursor
                      /\ w.generation <= f.reg[w.installation].generation
    BY DEF SendsKnown
  <2>1. w.event <= d.cursor /\ w.generation <= d.reg[w.installation].generation
    BY DEF Recorded, SendsKnown
  <2>2. d.reg[w.installation].generation <= f.reg[w.installation].generation
    BY <1>1, <1>2 DEF Kept
  <2>3. w.generation <= f.reg[w.installation].generation
    BY <1>2, <2>1, <2>2
  <2> QED  BY <2>1, <2>3 DEF Ends
<1>4. SecretsKept(f, W)
  BY DEF Ends, Recorded, SecretsKept
<1>5. SentKeepsRow(f, W)
  <2> SUFFICES ASSUME NEW w \in W, NEW e \in f.events, e.cursor = w.event,
                      ~ e.cancelled, e.kind # "challenge",
                      w.generation = f.reg[w.installation].generation
               PROVE  \E j \in f.outbox : SameKey(j, w)
    BY DEF SentKeepsRow
  <2>1. PICK c \in d.events : SameEvent(c, e)
    BY DEF Ends
  <2>2. w.generation <= d.reg[w.installation].generation
    BY DEF Recorded, SendsKnown
  <2>3. ~ (f.reg[w.installation].generation > d.reg[w.installation].generation)
    BY <1>2, <2>2
  <2>4. w.generation = d.reg[w.installation].generation
    BY <1>1, <1>2, <2>2, <2>3 DEF Kept
  <2>5. PICK j \in d.outbox : SameKey(j, w)
    BY <2>1, <2>4 DEF SameEvent, Recorded, SentKeepsRow
  <2>6. w.installation \notin I
    <3> SUFFICES ASSUME w.installation \in I
                 PROVE  FALSE
      OBVIOUS
    <3>1. d.reg[j.installation].status = "pending"
      BY <2>3, <2>5 DEF SameKey
    <3>2. c.kind = "challenge"
      BY <2>1, <2>5, <3>1 DEF SameEvent, SameKey, Sound, ChallengesFit
    <3> QED  BY <2>1, <3>2 DEF SameEvent
  <2>7. j \in f.outbox
    BY <2>5, <2>6 DEF Ends, SameKey
  <2> QED  BY <2>5, <2>7
<1>6. f.outbox \subseteq d.outbox
  BY DEF Ends
<1>7. AttemptsCounted(f, W)
  BY <1>1, <1>6, OverKept DEF Recorded, AttemptsCounted
<1>8. AcceptedClosed(f, W, A)
  BY <1>1, <1>6, OverKept DEF Recorded, AcceptedClosed
<1> QED  BY <1>3, <1>4, <1>5, <1>7, <1>8 DEF Recorded

LEMMA MovesRecorded ==
  ASSUME NEW d, NEW f, NEW W, NEW A, Records(W, A), Consistent(d), Consistent(f),
         Sound(d), Moves(d, f), Recorded(d, W, A)
  PROVE  Recorded(f, W, A)
<1>1. /\ f.reg = d.reg /\ f.cursor = d.cursor /\ f.events = d.events
      /\ \A k \in f.outbox : \E j \in d.outbox : SameRow(j, k)
      /\ \A j \in d.outbox : \E k \in f.outbox : SameRow(j, k)
  BY DEF Moves
<1>2. \A j, k : SameRow(j, k) => /\ SameKey(j, k) /\ SameKey(k, j)
                                 /\ SendsIn(W, k) = SendsIn(W, j)
                                 /\ Over(d, j) => Over(f, k)
  BY ZenonT(40), <1>1 DEF SameRow, SameKey, SendsIn, Over
<1>3. SendsKnown(f, W) /\ SecretsKept(f, W)
  BY <1>1 DEF Recorded, SendsKnown, SecretsKept
<1>4. SentKeepsRow(f, W)
  <2>1. \A j, k, w : SameKey(k, j) /\ SameKey(j, w) => SameKey(k, w)
    BY DEF SameKey
  <2> QED  BY <1>1, <1>2, <2>1 DEF Recorded, SentKeepsRow
<1>5. AttemptsCounted(f, W)
  <2> SUFFICES ASSUME NEW k \in f.outbox, ~ Over(f, k)
               PROVE  Cardinality(SendsIn(W, k)) <= k.attempts
    BY DEF AttemptsCounted
  <2>1. PICK j \in d.outbox : SameRow(j, k)
    BY <1>1
  <2>2. Cardinality(SendsIn(W, k)) <= j.attempts
    BY <1>2, <2>1 DEF Recorded, AttemptsCounted
  <2>3. j.attempts \in Nat /\ k.attempts \in Nat /\ k.attempts >= j.attempts
    BY <2>1, AttemptsType DEF Consistent, DB, SameRow
  <2>4. Cardinality(SendsIn(W, k)) \in Nat
    BY FS_Subset, FS_CardinalityType DEF Records, SendsIn
  <2> QED  BY <2>2, <2>3, <2>4
<1>6. AcceptedClosed(f, W, A)
  <2> SUFFICES ASSUME NEW a \in A, NEW k \in f.outbox, SameKey(k, a)
               PROVE  k.done \/ Over(f, k)
    BY DEF Recorded, AcceptedClosed
  <2>1. PICK j \in d.outbox : SameRow(j, k)
    BY <1>1
  <2>2. SameKey(j, a)
    BY <1>2, <2>1 DEF SameKey
  <2>3. j.done \/ Over(d, j)
    BY <2>2 DEF Recorded, AcceptedClosed
  <2>4. j.done => k.done
    BY <2>1, RowFacts DEF SameRow
  <2> QED  BY <1>2, <2>1, <2>3, <2>4
<1> QED  BY <1>3, <1>4, <1>5, <1>6 DEF Recorded

\* A renewal asks a secret nobody was sent, of an authority nobody was sent.
LEMMA RenewsRecorded ==
  ASSUME NEW d, NEW f, NEW i \in Installation, NEW W, NEW A, Records(W, A),
         Consistent(d), Consistent(f), Sound(d), Renews(d, f, i),
         Recorded(d, W, A)
  PROVE  Recorded(f, W, A)
<1>1. Kept(d, f)
  BY RenewsKept
<1>2. /\ \A w \in W : /\ w.installation \in Installation
                      /\ w.generation \in Nat /\ w.event \in Nat
      /\ d.cursor \in Nat /\ f.cursor = d.cursor + 1
      /\ d.reg \in [Installation -> Row]
      /\ \A k \in Installation : /\ d.reg[k].generation \in Nat
                                 /\ f.reg[k].generation \in Nat
  BY DEF Records, Sent, Consistent, DB, Row, Renews
<1>3. \A k \in Installation \ {i} : f.reg[k] = d.reg[k]
  BY <1>2 DEF Renews
<1>4. /\ f.reg[i].generation = d.reg[i].generation + 1
      /\ f.reg[i].challenge = d.cursor + 1
  BY DEF Renews
<1>5. \A w \in W : /\ w.event <= d.cursor
                   /\ w.generation <= d.reg[w.installation].generation
  BY DEF Recorded, SendsKnown
<1>6. PICK hint : /\ Challenge(f, i, hint)
                  /\ f.outbox = {j \in d.outbox : j.installation # i} \cup {hint}
  BY DEF Renews
<1>7. \A w \in W : ~ SameKey(w, hint)
  <2>1. hint.event = d.cursor + 1
    BY <1>2, <1>6 DEF Challenge
  <2> QED  BY <1>2, <1>5, <2>1 DEF SameKey
<1>8. SendsKnown(f, W)
  <2> SUFFICES ASSUME NEW w \in W
               PROVE  /\ w.event <= f.cursor
                      /\ w.generation <= f.reg[w.installation].generation
    BY DEF SendsKnown
  <2>1. d.reg[w.installation].generation <= f.reg[w.installation].generation
    BY <1>1, <1>2 DEF Kept
  <2> QED  BY <1>2, <1>5, <2>1
<1>9. SecretsKept(f, W)
  <2>1. \A w \in W : w.event # f.reg[i].challenge
    BY <1>2, <1>4, <1>5
  <2> QED  BY <1>3, <2>1 DEF Recorded, SecretsKept
<1>10. SentKeepsRow(f, W)
  <2> SUFFICES ASSUME NEW w \in W, NEW e \in f.events, e.cursor = w.event,
                      ~ e.cancelled, e.kind # "challenge",
                      w.generation = f.reg[w.installation].generation
               PROVE  \E j \in f.outbox : SameKey(j, w)
    BY DEF SentKeepsRow
  <2>1. w.installation # i
    BY <1>2, <1>4, <1>5
  <2>2. PICK c \in d.events : SameEvent(c, e)
    BY DEF Renews
  <2>3. /\ c.cursor = w.event /\ ~ c.cancelled /\ c.kind # "challenge"
        /\ w.generation = d.reg[w.installation].generation
    BY <1>2, <1>3, <2>1, <2>2 DEF SameEvent
  <2>4. PICK j \in d.outbox : SameKey(j, w)
    <3>1. SentKeepsRow(d, W)
      BY DEF Recorded
    <3> QED  BY <2>3, <3>1 DEF SentKeepsRow
  <2> QED  BY <1>6, <2>1, <2>4 DEF SameKey
<1>11. AttemptsCounted(f, W)
  <2>1. hint.attempts = 0 /\ Cardinality(SendsIn(W, hint)) = 0
    BY <1>6, <1>7, NobodySent DEF Challenge
  <2>2. \A j \in d.outbox : Over(f, j) \/ Cardinality(SendsIn(W, j)) <= j.attempts
    BY <1>1, OverKept DEF Recorded, AttemptsCounted
  <2> QED  BY <1>6, <2>1, <2>2 DEF AttemptsCounted
<1>12. AcceptedClosed(f, W, A)
  <2>1. \A a \in A : ~ SameKey(hint, a)
    BY <1>7 DEF Recorded, AcceptedClosed, SameKey
  <2>2. \A a \in A : \A j \in d.outbox : SameKey(j, a) => j.done \/ Over(f, j)
    BY <1>1, OverKept DEF Recorded, AcceptedClosed
  <2> QED  BY <1>6, <2>1, <2>2 DEF Recorded, AcceptedClosed
<1> QED  BY <1>8, <1>9, <1>10, <1>11, <1>12 DEF Recorded

\* A hint is added for an event that was sent before only if its row was lost
\* to a cancellation.
LEMMA AddsRecorded ==
  ASSUME NEW d, NEW f, NEW ev \in HookEvent, NEW R, NEW W, NEW A, Records(W, A),
         Consistent(d), Consistent(f), Sound(d), Adds(d, f, ev, R),
         Recorded(d, W, A)
  PROVE  Recorded(f, W, A)
<1>1. Kept(d, f) /\ f.reg = d.reg /\ d.outbox \subseteq f.outbox
  BY AddsKept DEF Adds
<1>2. /\ \A w \in W : w.event \in Nat /\ w.event <= d.cursor
      /\ d.cursor \in Nat /\ f.cursor \in Nat /\ d.cursor <= f.cursor
      /\ \A e \in f.events : e.cursor \in Nat
  BY DEF Records, Sent, Consistent, DB, Event, Adds, Recorded, SendsKnown
<1>3. \A e \in f.events : e.cursor <= d.cursor => e \in d.events
  <2> SUFFICES ASSUME NEW e \in f.events \ d.events
               PROVE  ~ (e.cursor <= d.cursor)
    OBVIOUS
  <2> QED  BY <1>2 DEF Adds
<1>4. ASSUME NEW j \in f.outbox \ d.outbox, NEW w \in W, SameKey(w, j)
      PROVE  Over(f, j)
  <2> SUFFICES ASSUME NEW e \in f.events, e.cursor = j.event, ~ e.cancelled
               PROVE  FALSE
    BY DEF Over
  <2>1. e \in d.events /\ e.cursor = w.event
    BY <1>2, <1>3, <1>4 DEF SameKey
  <2>2. e.kind # "challenge"
    <3>1. PICK c \in f.events : c.cursor = j.event /\ AnnouncedBy(c, ev)
      BY DEF Adds
    <3>2. c = e
      BY <3>1 DEF Adds
    <3> QED  BY <3>1, <3>2 DEF AnnouncedBy, HookEvent, HookKinds, TurnKinds, InputKinds
  <2>3. w.generation = d.reg[w.installation].generation
    BY <1>1, <1>4 DEF Consistent, QueueCurrent, SameKey
  <2>4. PICK k \in d.outbox : SameKey(k, w)
    <3>1. SentKeepsRow(d, W)
      BY DEF Recorded
    <3> QED  BY <2>1, <2>2, <2>3, <3>1 DEF SentKeepsRow
  <2>5. SameKey(k, j)
    BY <1>4, <2>4 DEF SameKey
  <2> QED  BY <2>5 DEF Adds
<1>5. SendsKnown(f, W)
  <2>1. \A w \in W : w.event <= f.cursor
    BY <1>2
  <2> QED  BY <1>1, <2>1 DEF Recorded, SendsKnown
<1>6. SecretsKept(f, W)
  BY <1>1 DEF Recorded, SecretsKept
<1>7. SentKeepsRow(f, W)
  <2> SUFFICES ASSUME NEW w \in W, NEW e \in f.events, e.cursor = w.event,
                      ~ e.cancelled, e.kind # "challenge",
                      w.generation = f.reg[w.installation].generation
               PROVE  \E j \in f.outbox : SameKey(j, w)
    BY DEF SentKeepsRow
  <2>1. e \in d.events
    BY <1>2, <1>3
  <2>2. SentKeepsRow(d, W)
    BY DEF Recorded
  <2> QED  BY <1>1, <2>1, <2>2 DEF SentKeepsRow
<1>8. AttemptsCounted(f, W)
  <2>1. \A j \in d.outbox : Over(f, j) \/ Cardinality(SendsIn(W, j)) <= j.attempts
    BY <1>1, OverKept DEF Recorded, AttemptsCounted
  <2>2. ASSUME NEW j \in f.outbox \ d.outbox
        PROVE  Over(f, j) \/ Cardinality(SendsIn(W, j)) <= j.attempts
    <3>1. CASE \E w \in W : SameKey(w, j)
      BY <1>4, <3>1
    <3>2. CASE \A w \in W : ~ SameKey(w, j)
      <4>1. Cardinality(SendsIn(W, j)) = 0
        BY <3>2, NobodySent
      <4> QED  BY <4>1 DEF Adds
    <3> QED  BY <3>1, <3>2
  <2> QED  BY <2>1, <2>2 DEF AttemptsCounted
<1>9. AcceptedClosed(f, W, A)
  <2> SUFFICES ASSUME NEW a \in A, NEW j \in f.outbox, SameKey(j, a)
               PROVE  j.done \/ Over(f, j)
    BY DEF Recorded, AcceptedClosed
  <2>1. CASE j \in d.outbox
    BY <1>1, <2>1, OverKept DEF Recorded, AcceptedClosed
  <2>2. CASE j \notin d.outbox
    <3>1. PICK w \in W : SameKey(w, a)
      BY DEF Recorded, AcceptedClosed
    <3>2. SameKey(w, j)
      BY <3>1 DEF SameKey
    <3> QED  BY <1>4, <2>2, <3>2
  <2> QED  BY <2>1, <2>2
<1> QED  BY <1>5, <1>6, <1>7, <1>8, <1>9 DEF Recorded

LEMMA AttentionRecorded ==
  ASSUME NEW d, NEW f, NEW W, NEW A, SameButAttention(d, f), Recorded(d, W, A)
  PROVE  Recorded(f, W, A)
BY DEF SameButAttention, Recorded, SendsKnown, SecretsKept, SentKeepsRow,
       AttemptsCounted, AcceptedClosed, Over

-----------------------------------------------------------------------------
(* The transactions *)

\* A transaction that keeps the tables sound, takes nothing back and keeps what
\* the records of the wire say.
Transacts(d, f) ==
  /\ Consistent(f) /\ Sound(f)
  /\ Kept(d, f)
  /\ \A W, A : Records(W, A) /\ Recorded(d, W, A) => Recorded(f, W, A)

LEMMA TransactsTransitive ==
  ASSUME NEW d, NEW e, NEW f, Consistent(d), Transacts(d, e), Transacts(e, f)
  PROVE  Transacts(d, f)
BY KeptTransitive DEF Transacts

LEMMA PruneTransacts ==
  ASSUME NEW d, Consistent(d), Sound(d), NEW time \in Nat
  PROVE  Transacts(d, Prune(d, time))
<1>1. Trims(d, Prune(d, time)) /\ Consistent(Prune(d, time))
  BY PruneTrims, PruneConsistent
<1> HIDE DEF Prune
<1> QED  BY <1>1, TrimsKept, TrimsSound, TrimsRecorded DEF Transacts

LEMMA EndsTransacts ==
  ASSUME NEW d, NEW f, NEW I \in SUBSET Installation, Consistent(d),
         Consistent(f), Sound(d), Ends(d, f, I),
         \A i \in I : \/ f.reg[i].generation > d.reg[i].generation
                      \/ d.reg[i].status = "pending"
  PROVE  Transacts(d, f)
BY EndsKept, EndsSound, EndsRecorded DEF Transacts

LEMMA MovesTransacts ==
  ASSUME NEW d, NEW f, Consistent(d), Consistent(f), Sound(d), Moves(d, f),
         Kept(d, f)
  PROVE  Transacts(d, f)
BY MovesSound, MovesRecorded DEF Transacts

LEMMA MigrateTransacts ==
  ASSUME NEW d, Consistent(d), Sound(d)
  PROVE  Transacts(d, Migrate(d))
<1> DEFINE f == Migrate(d)
           I == {i \in Installation : Legacy(d, i)}
<1>1. Consistent(f)
  BY MigrateConsistent
<1>2. /\ Ends(d, f, I)
      /\ f.reg = [i \in Installation |->
                    IF i \in I THEN MigratedRow(d.reg[i]) ELSE d.reg[i]]
  BY MigrateEnds
<1>3. \A i \in I : f.reg[i].generation > d.reg[i].generation
  <2> SUFFICES ASSUME NEW i \in I
               PROVE  f.reg[i].generation > d.reg[i].generation
    OBVIOUS
  <2>1. d.reg[i] \in Row /\ d.reg[i].generation \in Nat
    BY DEF Consistent, DB, Row
  <2>2. f.reg[i] = MigratedRow(d.reg[i])
    BY <1>2
  <2>3. MigratedRow(d.reg[i]).generation = d.reg[i].generation + 1
    BY <2>1 DEF MigratedRow, RevokedFrom, Row
  <2> HIDE DEF f
  <2> QED  BY <2>1, <2>2, <2>3
<1> HIDE DEF f, I
<1>4. I \in SUBSET Installation
  BY DEF I
<1> QED  BY <1>1, <1>2, <1>3, <1>4, EndsTransacts DEF f

LEMMA PutTransacts ==
  ASSUME NEW d, Consistent(d), Sound(d), NEW p \in Principal,
         NEW i \in Installation, NEW body \in Body, NEW time \in Nat
  PROVE  Transacts(d, Put(d, p, i, body, time))
<1> DEFINE f == Proposed(d, p, i, body, time)
<1>1. Put(d, p, i, body, time) = Prune(f, time)
  BY DEF Put, Proposed
<1>2. Renews(d, f, i) /\ Consistent(f)
  BY ProposedRenews, ProposedConsistent
<1> HIDE DEF f
<1>3. Transacts(d, f)
  BY <1>2, RenewsKept, RenewsSound, RenewsRecorded DEF Transacts
<1>4. Transacts(f, Prune(f, time))
  BY <1>3, PruneTransacts DEF Transacts
<1> QED  BY <1>1, <1>3, <1>4, TransactsTransitive

LEMMA ConfirmTransacts ==
  ASSUME NEW d, Consistent(d), Sound(d), NEW i \in Installation,
         d.reg[i].status = "pending"
  PROVE  Transacts(d, Confirm(d, i))
<1>1. Ends(d, Confirm(d, i), {i}) /\ Consistent(Confirm(d, i))
  BY ConfirmEnds, ConfirmConsistent
<1> HIDE DEF Confirm
<1> QED  BY <1>1, EndsTransacts

LEMMA RevokeInTransacts ==
  ASSUME NEW d, Consistent(d), Sound(d), NEW i \in Installation
  PROVE  Transacts(d, RevokeIn(d, i))
<1> DEFINE f == RevokeIn(d, i)
<1>1. /\ Ends(d, f, {i}) /\ Consistent(f)
      /\ f.reg = [d.reg EXCEPT ![i] = RevokedFrom(d.reg[i])]
  BY RevokeInEnds, RevokeInConsistent
<1>2. d.reg \in [Installation -> Row] /\ d.reg[i].generation \in Nat
  BY DEF Consistent, DB, Row
<1>3. RevokedFrom(d.reg[i]).generation = d.reg[i].generation + 1
  BY <1>2 DEF RevokedFrom, Row
<1> HIDE DEF f
<1>4. f.reg[i].generation > d.reg[i].generation
  BY <1>1, <1>2, <1>3
<1>5. Ends(d, f, {i}) /\ Consistent(f) /\ {i} \in SUBSET Installation
  BY <1>1
<1>6. Transacts(d, f)
  BY <1>4, <1>5, EndsTransacts
<1> QED  BY <1>6 DEF f

LEMMA RevokeTransacts ==
  ASSUME NEW d, Consistent(d), Sound(d), NEW p \in Principal, NEW i \in Installation
  PROVE  Revoke(d, p, i) = d \/ Transacts(d, Revoke(d, p, i))
<1> DEFINE f == Revoke(d, p, i)
<1>0. d.reg[i].generation \in Nat
  BY DEF Consistent, DB, Row
<1>1. \/ f = d
      \/ Ends(d, f, {i}) /\ f.reg[i].generation > d.reg[i].generation
  <2>1. \/ f = d
        \/ /\ Ends(d, f, {i})
           /\ f.reg = [d.reg EXCEPT ![i] = f.reg[i]]
           /\ f.reg[i].status = "revoked"
           /\ f.reg[i].generation = d.reg[i].generation + 1
           /\ f.reg[i].nonce = d.reg[i].nonce
           /\ f.reg[i].revision = d.reg[i].revision
           /\ Exists(d, i) => f.reg[i].owner = d.reg[i].owner
           /\ d.reg[i].status # "revoked"
           /\ f.nonces = d.nonces
    BY RevokeEnds, Zenon
  <2> HIDE DEF f
  <2> QED  BY <1>0, <2>1
<1>2. Consistent(f)
  BY RevokeConsistent
<1> HIDE DEF f
<1>3. f = d \/ Transacts(d, f)
  BY <1>1, <1>2, EndsTransacts
<1> QED  BY <1>3 DEF f

LEMMA RecordTransacts ==
  ASSUME NEW d, Consistent(d), Sound(d), NEW ev \in HookEvent,
         NEW targets \in Targets, NEW pol \in Policy,
         NEW order \in ScanOrders(Recipients(d, ev, targets, pol)),
         NEW expires \in Nat, NEW time \in Nat
  PROVE  LET f == Record(d, ev, targets, pol, order, expires, time)
         IN  f = d \/ Transacts(d, f)
<1> DEFINE f == Record(d, ev, targets, pol, order, expires, time)
           R == Recipients(d, ev, targets, pol)
<1>1. f = d \/ f = Prune(d, time) \/ Recording(d, f, ev, R)
  BY RecordSteps
<1>2. Consistent(f)
  BY RecordConsistent
<1> HIDE DEF f, R
<1>3. ASSUME Recording(d, f, ev, R)
      PROVE  Transacts(d, f)
  <2>1. PICK e, t, s, q :
          /\ Trims(d, e) /\ Consistent(e) /\ Sound(e)
          /\ Trims(e, t) /\ SameButAttention(t, s) /\ Consistent(s) /\ Sound(s)
          /\ Adds(s, q, ev, R) /\ Consistent(q) /\ Sound(q)
          /\ Trims(q, f)
    BY <1>3, PruneTrims DEF Recording
  <2>2. Sound(f) /\ Kept(d, f)
    BY <1>2, <1>3, RecordingSound
  <2>3. ASSUME NEW W, NEW A, Records(W, A), Recorded(d, W, A)
        PROVE  Recorded(f, W, A)
    <3>1. Recorded(e, W, A)
      BY <2>1, <2>3, TrimsRecorded
    <3>2. Recorded(t, W, A)
      BY <2>1, <3>1, TrimsRecorded
    <3>3. Recorded(s, W, A)
      BY <2>1, <3>2, AttentionRecorded
    <3>4. Recorded(q, W, A)
      BY <2>1, <2>3, <3>3, AddsRecorded
    <3> QED  BY <2>1, <3>4, TrimsRecorded
  <2> QED  BY <1>2, <2>2, <2>3 DEF Transacts
<1>4. f = d \/ Transacts(d, f)
  BY <1>1, <1>3, PruneTransacts
<1> QED  BY <1>4 DEF f

LEMMA RowTransacts ==
  ASSUME NEW d, Consistent(d), Sound(d), NEW j \in d.outbox, NEW time \in Nat
  PROVE  /\ Transacts(d, DropJob(d, j))
         /\ Transacts(d, SettleJob(d, j))
         /\ Transacts(d, RetryJob(d, j, time))
<1>1. \A f \in {DropJob(d, j), SettleJob(d, j), RetryJob(d, j, time)} :
        Consistent(f) /\ Moves(d, f) /\ Kept(d, f)
  BY DropJobConsistent, SettleJobConsistent, RetryJobConsistent,
     DropJobMoves, SettleJobMoves, RetryJobMoves
<1> HIDE DEF DropJob, SettleJob, RetryJob
<1> QED  BY <1>1, MovesTransacts

LEMMA BeforeClaimTransacts ==
  ASSUME NEW d, Consistent(d), Sound(d), NEW time \in Nat
  PROVE  Transacts(d, BeforeClaim(d, time))
<1> DEFINE e == Prune(d, time)
<1>1. Transacts(d, e)
  BY PruneTransacts
<1>2. BeforeClaim(d, time) = CloseExhausted(e, time)
  BY DEF BeforeClaim
<1>3. Consistent(BeforeClaim(d, time))
  BY BeforeClaimConsistent
<1> HIDE DEF e
<1>4. /\ Moves(e, CloseExhausted(e, time)) /\ Kept(e, CloseExhausted(e, time))
  BY <1>1, CloseExhaustedMoves DEF Transacts
<1>5. Transacts(e, CloseExhausted(e, time))
  BY <1>1, <1>2, <1>3, <1>4, MovesTransacts DEF Transacts
<1> QED  BY <1>1, <1>2, <1>5, TransactsTransitive

-----------------------------------------------------------------------------
(* The steps of the actors *)

\* An event that a callback or a worker is about to record.
Waiting(ev, targets) ==
  \/ \E h \in Hook : /\ hook[h].pc = "write"
                     /\ ev = hook[h].event /\ targets = hook[h].targets
  \/ \E r \in Runtime : \E x \in rt[r].item : ev = x.event /\ targets = x.targets

RecordsEvent ==
  \E ev \in HookEvent, targets \in Targets, pol \in Policy, expires \in Nat :
    /\ Waiting(ev, targets)
    /\ \E order \in ScanOrders(Recipients(db, ev, targets, pol)) :
         db' = Record(db, ev, targets, pol, order, expires, now)

Claims(r) ==
  \E j \in OldestDue(BeforeClaim(db, now), now) :
    /\ db' = ClaimRow(BeforeClaim(db, now), j, r, now)
    /\ Goto(r, [rt[r] EXCEPT !.pc = "leased", !.job = j.id])
    /\ wire' = wire /\ accepted' = accepted

\* Every transaction of every actor.
Writes ==
  \/ db' = db
  \/ db' = Migrate(db)
  \/ \E c \in puts :
       /\ Opened
       /\ PutAllowed(db, c.principal, c.installation, c.body)
       /\ db' = Put(db, c.principal, c.installation, c.body, now)
  \/ \E c \in confirms :
       /\ ConfirmAllowed(db, c.principal, c.installation, c.generation, c.secret,
                         c.policy, durable, now)
       /\ db' = Confirm(db, c.installation)
  \/ \E p \in Principal, i \in Installation : db' = Revoke(db, p, i)
  \/ RecordsEvent
  \/ \E j \in db.outbox : db' \in {DropJob(db, j), SettleJob(db, j),
                                   RetryJob(db, j, now), RevokeIn(db, j.installation)}
  \/ db' = BeforeClaim(db, now)
  \/ \E r \in Runtime : Claims(r)

LEMMA StoreWrites ==
  ASSUME TypedInv, [Next]_vars
  PROVE  Writes
<1> USE DEF storeVars, operatorVars, apiVars, historyVars
<1>1. CASE ApiStep
  BY <1>1 DEF ApiStep, OpenStore, SubmitPut, CommitPut, SubmitConfirm,
              CommitConfirm, AbandonPut, AbandonConfirm, RevokeRegistration, Writes
<1>2. CASE ObserverStep
  <2>1. PICK h \in Hook : HookWrite(h) \/ db' = db
    BY <1>2 DEF ObserverStep, HookBegin, HookSkip, HookRun, HookCapture, HookPeek,
                HookBusy, HookQueue, HookFail
  <2>2. CASE HookWrite(h)
    <3>1. hook[h].pc = "write" /\ hook[h] \in Observer /\ hook[h].event \in HookEvent
      BY <2>2 DEF HookWrite, TypedInv, TypeOK, HooksHold
    <3>2. hook[h].targets \in Targets /\ hook[h].policy \in Policy /\ now + TTL \in Nat
      BY <3>1, StoreAssumption DEF Observer, TypedInv, TypeOK
    <3>3. Waiting(hook[h].event, hook[h].targets)
      BY <3>1 DEF Waiting
    <3>4. \E order \in ScanOrders(Recipients(db, hook[h].event, hook[h].targets,
                                             hook[h].policy)) :
            db' = Record(db, hook[h].event, hook[h].targets, hook[h].policy, order,
                         now + TTL, now)
      BY <2>2 DEF HookWrite
    <3>5. RecordsEvent
      BY <3>1, <3>2, <3>3, <3>4 DEF RecordsEvent
    <3> QED  BY <3>5 DEF Writes
  <2> QED  BY <2>1, <2>2 DEF Writes
<1>3. CASE WorkerStep
  <2>1. PICK r \in Runtime : Start(r) \/ Stop(r) \/ WorkerRun(r) \/ Crash(r)
    BY <1>3 DEF WorkerStep
  <2>2. CASE DrainStore(r)
    <3>1. PICK x \in rt[r].item :
            \E order \in ScanOrders(Recipients(db, x.event, x.targets, rt[r].policy)) :
              db' = Record(db, x.event, x.targets, rt[r].policy, order, x.expires, now)
      BY <2>2 DEF DrainStore
    <3>2. rt[r].item \subseteq Item /\ rt[r].policy \in Policy
      BY RuntimeType
    <3>3. x.event \in HookEvent /\ x.targets \in Targets /\ x.expires \in Nat
      BY <3>1, <3>2 DEF Item
    <3>4. Waiting(x.event, x.targets)
      BY DEF Waiting
    <3>5. RecordsEvent
      BY <3>1, <3>2, <3>3, <3>4 DEF RecordsEvent
    <3> QED  BY <3>5 DEF Writes
  <2>3. CASE ClaimJob(r)
    BY <2>3 DEF ClaimJob, Claims, Writes
  <2>4. CASE DropUnpermitted(r) \/ SendAccepted(r) \/ SendRejected(r)
             \/ SendGone(r) \/ SendFailed(r)
    <3>1. PICK j \in LeasedRow(r) :
            db' \in {DropJob(db, j), SettleJob(db, j), RetryJob(db, j, now),
                     RevokeIn(db, j.installation)}
      BY <2>4 DEF DropUnpermitted, SendAccepted, SendRejected, SendGone, SendFailed
    <3> QED  BY <3>1 DEF Writes, LeasedRow
  <2>5. CASE Start(r)
    BY <2>5 DEF Start, Writes
  <2> QED  BY <2>1, <2>2, <2>3, <2>4, <2>5
        DEF WorkerRun, FinishSend, Stop, Exit, BeginPass, DrainPeek, DrainRemove,
            CheckInbox, LostLease, BeginSend, WorkerBusy, Crash, Writes
<1>4. CASE OperatorStep \/ Tick \/ UNCHANGED vars
  BY <1>4 DEF OperatorStep, ChangePolicy, ChangeDurable, Tick, vars, Writes
<1> QED  BY <1>1, <1>2, <1>3, <1>4 DEF Next

\* A step that begins no send, records no acceptance and leases nothing.
Calm ==
  /\ wire' = wire /\ accepted' = accepted
  /\ \A q \in Runtime : rt'[q].pc \in {"leased", "sending"} =>
       rt'[q].pc = rt[q].pc /\ rt'[q].job = rt[q].job

LEMMA CalmSteps ==
  ASSUME TypedInv, [Next]_vars
  PROVE  \/ Calm
         \/ \E r \in Runtime : Claims(r) \/ BeginSend(r) \/ SendAccepted(r)
<1> USE DEF storeVars, operatorVars, apiVars, historyVars
<1>1. rt \in [Runtime -> Worker]
  BY DEF TypedInv, TypeOK
<1>2. ASSUME rt' = rt, wire' = wire, accepted' = accepted
      PROVE  Calm
  BY <1>2 DEF Calm
<1>3. CASE ApiStep \/ ObserverStep \/ OperatorStep \/ Tick \/ UNCHANGED vars
  <2>1. rt' = rt /\ wire' = wire /\ accepted' = accepted
    BY <1>3 DEF ApiStep, OpenStore, SubmitPut, CommitPut, SubmitConfirm,
                CommitConfirm, AbandonPut, AbandonConfirm, RevokeRegistration,
                ObserverStep, HookBegin, HookSkip, HookRun, HookCapture, HookPeek,
                HookWrite, HookBusy, HookQueue, HookFail, observerUnchanged,
                OperatorStep, ChangePolicy, ChangeDurable, Tick, vars
  <2> QED  BY <1>2, <2>1
<1>4. ASSUME NEW r \in Runtime, NEW w, Goto(r, w), wire' = wire,
             accepted' = accepted, w.pc \notin {"leased", "sending"}
      PROVE  Calm
  BY <1>1, <1>4 DEF Goto, Calm
<1>5. ASSUME NEW r \in Runtime, Stop(r)
      PROVE  Calm
  BY <1>1, <1>5 DEF Stop, Goto, Calm, Worker
<1>6. \A r \in Runtime : /\ DownWorker.pc = "down"
                         /\ [DownWorker EXCEPT !.pc = "idle"].pc = "idle"
                         /\ Idle(r).pc = "idle"
  BY DEF DownWorker, Idle
<1>7. ASSUME NEW r \in Runtime,
             \/ Start(r) \/ Exit(r) \/ BeginPass(r) \/ DrainPeek(r) \/ DrainStore(r)
             \/ DrainRemove(r) \/ CheckInbox(r)
      PROVE  Calm
  <2>1. rt[r] \in Worker
    BY <1>1
  <2>2. wire' = wire /\ accepted' = accepted
    BY <1>7 DEF Start, Exit, BeginPass, DrainPeek, DrainStore, DrainRemove, CheckInbox
  <2>3. \E w : Goto(r, w) /\ w.pc \notin {"leased", "sending"}
    <3>1. CASE DrainPeek(r)
      <4>1. [rt[r] EXCEPT !.pc = "check"].pc = "check"
        BY <2>1 DEF Worker
      <4> DEFINE peeked(x) ==
                   [rt[r] EXCEPT !.item = {x},
                      !.pc = IF x.expires > now /\ x.event.session \in durable
                             THEN "store" ELSE "remove"]
      <4>2. \A x : peeked(x).pc \notin {"leased", "sending"}
        BY <2>1 DEF Worker
      <4>3. \/ Goto(r, [rt[r] EXCEPT !.pc = "check"])
            \/ \E x \in inbox : Goto(r, peeked(x))
        BY <3>1 DEF DrainPeek
      <4> HIDE DEF peeked
      <4> QED  BY <4>1, <4>2, <4>3
    <3>2. CASE DrainRemove(r)
      <4>1. [rt[r] EXCEPT !.pc = "drain", !.item = {}, !.moved = @ + 1].pc = "drain"
        BY <2>1 DEF Worker
      <4>2. Goto(r, [rt[r] EXCEPT !.pc = "drain", !.item = {}, !.moved = @ + 1])
        BY <3>2 DEF DrainRemove
      <4> QED  BY <4>1, <4>2
    <3>3. CASE BeginPass(r)
      <4>1. [rt[r] EXCEPT !.pc = "drain", !.policy = policy].pc = "drain"
        BY <2>1 DEF Worker
      <4> QED  BY <3>3, <4>1 DEF BeginPass
    <3>4. CASE DrainStore(r)
      <4>1. [rt[r] EXCEPT !.pc = "remove"].pc = "remove"
        BY <2>1 DEF Worker
      <4> QED  BY <3>4, <4>1 DEF DrainStore
    <3>5. CASE CheckInbox(r)
      <4>1. [rt[r] EXCEPT !.pc = "claim"].pc = "claim"
        BY <2>1 DEF Worker
      <4>2. Goto(r, [rt[r] EXCEPT !.pc = "claim"]) \/ Goto(r, Idle(r))
        BY <3>5 DEF CheckInbox
      <4> QED  BY <1>6, <4>1, <4>2
    <3>6. CASE Start(r) \/ Exit(r)
      <4>1. Goto(r, [DownWorker EXCEPT !.pc = "idle"]) \/ Goto(r, DownWorker)
        BY <3>6 DEF Start, Exit
      <4> QED  BY <1>6, <4>1
    <3> QED  BY <1>7, <3>1, <3>2, <3>3, <3>4, <3>5, <3>6
  <2> QED  BY <1>4, <2>2, <2>3
<1>8. ASSUME NEW r \in Runtime,
             \/ LostLease(r) \/ DropUnpermitted(r) \/ WorkerBusy(r)
             \/ SendRejected(r) \/ SendGone(r) \/ SendFailed(r) \/ Crash(r)
      PROVE  Calm
  <2>1. Goto(r, Idle(r)) \/ Goto(r, DownWorker)
    BY <1>8 DEF LostLease, DropUnpermitted, WorkerBusy, SendRejected, SendGone,
                SendFailed, Crash
  <2>2. wire' = wire /\ accepted' = accepted
    BY <1>8 DEF LostLease, DropUnpermitted, WorkerBusy, SendRejected, SendGone,
                SendFailed, Crash
  <2>3. \E w : Goto(r, w) /\ w.pc \notin {"leased", "sending"}
    BY <1>6, <2>1
  <2> QED  BY <1>4, <2>2, <2>3
<1>9. ASSUME NEW r \in Runtime, ClaimJob(r)
      PROVE  Calm \/ Claims(r)
  <2>1. wire' = wire /\ accepted' = accepted
    BY <1>9 DEF ClaimJob
  <2>2. Goto(r, Idle(r)) \/ Claims(r)
    BY <1>9, <2>1 DEF ClaimJob, Claims
  <2> QED  BY <1>4, <1>6, <2>1, <2>2
<1>10. CASE WorkerStep
  BY <1>5, <1>7, <1>8, <1>9, <1>10 DEF WorkerStep, WorkerRun, FinishSend
<1> QED  BY <1>3, <1>10 DEF Next

-----------------------------------------------------------------------------
(* The history *)

LEMMA WritesTransact ==
  ASSUME TypedInv, Sound(db), Writes
  PROVE  db' = db \/ Transacts(db, db') \/ \E r \in Runtime : Claims(r)
<1>1. TypeOK /\ Consistent(db) /\ now \in Nat
  BY DEF TypedInv, TypeOK
<1>2. ASSUME NEW c \in puts,
             db' = Put(db, c.principal, c.installation, c.body, now)
      PROVE  Transacts(db, db')
  <2>1. c.principal \in Principal /\ c.installation \in Installation /\ c.body \in Body
    BY <1>1 DEF TypeOK, PutCall
  <2> HIDE DEF Put
  <2> QED  BY <1>1, <1>2, <2>1, PutTransacts
<1>3. ASSUME NEW c \in confirms,
             ConfirmAllowed(db, c.principal, c.installation, c.generation, c.secret,
                            c.policy, durable, now),
             db' = Confirm(db, c.installation)
      PROVE  Transacts(db, db')
  <2>1. c.installation \in Installation
    BY <1>1 DEF TypeOK, ConfirmCall
  <2>2. db.reg[c.installation].status = "pending"
    BY <1>3 DEF ConfirmAllowed
  <2> QED  BY <1>1, <1>3, <2>1, <2>2, ConfirmTransacts
<1>4. ASSUME NEW p \in Principal, NEW i \in Installation, db' = Revoke(db, p, i)
      PROVE  db' = db \/ Transacts(db, db')
  BY <1>1, <1>4, RevokeTransacts
<1>5. ASSUME RecordsEvent
      PROVE  db' = db \/ Transacts(db, db')
  <2>1. PICK ev \in HookEvent, targets \in Targets, pol \in Policy, expires \in Nat :
          \E order \in ScanOrders(Recipients(db, ev, targets, pol)) :
            db' = Record(db, ev, targets, pol, order, expires, now)
    BY <1>5 DEF RecordsEvent
  <2> QED  BY <1>1, <2>1, RecordTransacts
<1>6. ASSUME NEW j \in db.outbox,
             db' \in {DropJob(db, j), SettleJob(db, j), RetryJob(db, j, now),
                      RevokeIn(db, j.installation)}
      PROVE  Transacts(db, db')
  <2>1. j.installation \in Installation
    BY <1>1 DEF Consistent, DB, Job
  <2>2. /\ Transacts(db, DropJob(db, j)) /\ Transacts(db, SettleJob(db, j))
        /\ Transacts(db, RetryJob(db, j, now))
    BY <1>1, RowTransacts
  <2>3. Transacts(db, RevokeIn(db, j.installation))
    BY <1>1, <2>1, RevokeInTransacts
  <2> QED  BY <1>6, <2>2, <2>3
<1>7. Transacts(db, Migrate(db)) /\ Transacts(db, BeforeClaim(db, now))
  BY <1>1, MigrateTransacts, BeforeClaimTransacts
<1> QED  BY <1>2, <1>3, <1>4, <1>5, <1>6, <1>7 DEF Writes

\* The parts of the invariant, after a step.
LEMMA HistoryParts ==
  ASSUME PushInv', Sound(db'), Recorded(db', wire', accepted'),
         \A r \in Runtime : LeaseCounted(r)' /\ SendRecorded(r)',
         AttemptsBounded'
  PROVE  HistoryInv'
<1>1. Sound(db)'
  BY DEF Sound, Finite, EventsKeyed, HintsKeyed, SameKey, AttentionKeyed, RowsKeyed,
         Exists, ChallengesFit, HintsClose, Unannounced
<1>2. Recorded(db, wire, accepted)'
  BY DEF Recorded, SendsKnown, SecretsKept, SentKeepsRow, AttemptsCounted,
         AcceptedClosed, SameKey, Over, SendsIn
<1> QED  BY <1>1, <1>2 DEF HistoryInv

\* A lease that lasts is of a row that stays as it was.
LEMMA LeasesLast ==
  ASSUME HistoryInv, Kept(db, db'), wire' = wire, NEW q \in Runtime,
         rt'[q].pc = rt[q].pc, rt'[q].job = rt[q].job
  PROVE  LeaseCounted(q)' /\ SendRecorded(q)'
<1>1. Consistent(db) /\ Sound(db) /\ LeaseCounted(q) /\ SendRecorded(q)
  BY DEF HistoryInv, PushInv, TypedInv
<1>2. q # None
  BY StoreAssumption
<1>3. \A j \in LeasedRow(q)' : j \in LeasedRow(q)
  BY <1>2 DEF LeasedRow, Kept
<1>4. \A j \in db.outbox : Over(db, j) => Over(db', j)
  BY <1>1, OverKept
<1>5. LeaseCounted(q)'
  <2> SUFFICES ASSUME rt'[q].pc = "leased", NEW j \in LeasedRow(q)'
               PROVE  Over(db', j) \/ Cardinality(SendsIn(wire', j)) < j.attempts
    BY DEF LeaseCounted, Over, SendsIn, SameKey
  <2>1. Over(db, j) \/ Cardinality(SendsIn(wire, j)) < j.attempts
    BY <1>1, <1>3 DEF LeaseCounted
  <2>2. j \in db.outbox
    BY <1>3 DEF LeasedRow
  <2> QED  BY <1>4, <2>1, <2>2
<1>6. SendRecorded(q)'
  <2> SUFFICES ASSUME rt'[q].pc = "sending", NEW j \in LeasedRow(q)'
               PROVE  \E w \in wire' : SameKey(w, j)
    BY DEF SendRecorded, SameKey
  <2> QED  BY <1>1, <1>3 DEF SendRecorded
<1> QED  BY <1>5, <1>6

LEMMA CalmHistory ==
  ASSUME HistoryInv, PushInv', Calm, db' = db \/ Transacts(db, db')
  PROVE  HistoryInv'
<1>1. Consistent(db) /\ Sound(db) /\ Recorded(db, wire, accepted) /\ AttemptsBounded
  BY DEF HistoryInv, PushInv, TypedInv
<1>2. Records(wire, accepted)
  BY DEF Records, HistoryInv, PushInv, TypedInv, TypeOK
<1>3. Sound(db') /\ Kept(db, db') /\ Recorded(db', wire, accepted)
  BY <1>1, <1>2, KeptSame DEF Transacts
<1>4. wire' = wire /\ accepted' = accepted
  BY DEF Calm
<1>5. ASSUME NEW q \in Runtime
      PROVE  LeaseCounted(q)' /\ SendRecorded(q)'
  <2>1. CASE rt'[q].pc \in {"leased", "sending"}
    BY <1>3, <1>4, <2>1, LeasesLast DEF Calm
  <2>2. CASE rt'[q].pc \notin {"leased", "sending"}
    BY <2>2 DEF LeaseCounted, SendRecorded
  <2> QED  BY <2>1, <2>2
<1>6. AttemptsBounded'
  BY <1>1, <1>4 DEF AttemptsBounded, SendsOf
<1> QED  BY <1>3, <1>4, <1>5, <1>6, HistoryParts

\* A claim counts the attempt it allows before it is made.
LEMMA ClaimHistory ==
  ASSUME HistoryInv, PushInv', NEW r \in Runtime, Claims(r)
  PROVE  HistoryInv'
<1> DEFINE e == BeforeClaim(db, now)
<1>1. /\ Consistent(db) /\ Sound(db) /\ Recorded(db, wire, accepted)
      /\ AttemptsBounded /\ rt \in [Runtime -> Worker] /\ now \in Nat
      /\ \A q \in Runtime : LeaseCounted(q) /\ SendRecorded(q)
  BY DEF HistoryInv, PushInv, TypedInv, TypeOK
<1>2. Records(wire, accepted)
  BY DEF Records, HistoryInv, PushInv, TypedInv, TypeOK
<1>3. Transacts(db, e)
  BY <1>1, BeforeClaimTransacts
<1>4. PICK j \in OldestDue(e, now) :
        /\ db' = ClaimRow(e, j, r, now)
        /\ rt' = [rt EXCEPT ![r] = [rt[r] EXCEPT !.pc = "leased", !.job = j.id]]
        /\ wire' = wire /\ accepted' = accepted
  BY DEF Claims, Goto
<1> HIDE DEF e
<1>5. Consistent(e) /\ Sound(e) /\ Kept(db, e) /\ Recorded(e, wire, accepted)
  BY <1>1, <1>2, <1>3 DEF Transacts
<1>6. j \in e.outbox /\ j.attempts < MaxAttempts
  BY DEF OldestDue, Due
<1>7. Consistent(db')
  BY DEF PushInv, TypedInv, Consistent, QueueCurrent, LiveRowsBound
<1>8. /\ Moves(e, db')
      /\ \A x \in db'.outbox :
           \/ x \in e.outbox /\ x # j
           \/ x.id = j.id /\ SameKey(j, x) /\ x.token = r /\ x.attempts = j.attempts + 1
  <2> HIDE DEF ClaimRow
  <2> QED  BY <1>4, <1>5, <1>6, ClaimRowMoves
<1>9. Sound(db') /\ Recorded(db', wire, accepted)
  BY <1>2, <1>5, <1>7, <1>8, MovesSound, MovesRecorded
<1>10. \A x : Over(e, x) => Over(db', x)
  BY <1>8 DEF Moves, Over
<1>11. /\ rt'[r].pc = "leased" /\ rt'[r].job = j.id
       /\ \A q \in Runtime \ {r} : rt'[q] = rt[q]
  BY <1>1, <1>4 DEF Worker
<1>12. ASSUME NEW q \in Runtime \ {r}
       PROVE  LeaseCounted(q)' /\ SendRecorded(q)'
  <2>1. \A x \in LeasedRow(q)' : x \in LeasedRow(q)
    <3> SUFFICES ASSUME NEW x \in LeasedRow(q)'
                 PROVE  x \in LeasedRow(q)
      OBVIOUS
    <3>1. x \in db'.outbox /\ x.token = q /\ ~ x.done /\ x.id = rt[q].job
      BY <1>11 DEF LeasedRow
    <3>2. x \in e.outbox
      BY <1>8, <3>1
    <3>3. q # None
      BY StoreAssumption
    <3>4. x \in db.outbox
      BY <1>5, <3>1, <3>2, <3>3 DEF Kept
    <3> QED  BY <3>1, <3>4 DEF LeasedRow
  <2>2. LeaseCounted(q)'
    <3> SUFFICES ASSUME rt'[q].pc = "leased", NEW x \in LeasedRow(q)'
                 PROVE  Over(db', x) \/ Cardinality(SendsIn(wire', x)) < x.attempts
      BY DEF LeaseCounted, Over, SendsIn, SameKey
    <3>1. Over(db, x) \/ Cardinality(SendsIn(wire, x)) < x.attempts
      BY <1>1, <1>11, <2>1 DEF LeaseCounted
    <3>2. x \in db.outbox
      BY <2>1 DEF LeasedRow
    <3>3. Over(db, x) => Over(e, x)
      BY <1>1, <1>5, <3>2, OverKept
    <3> QED  BY <1>4, <1>10, <3>1, <3>3
  <2>3. SendRecorded(q)'
    <3> SUFFICES ASSUME rt'[q].pc = "sending", NEW x \in LeasedRow(q)'
                 PROVE  \E w \in wire' : SameKey(w, x)
      BY DEF SendRecorded, SameKey
    <3> QED  BY <1>1, <1>4, <1>11, <2>1 DEF SendRecorded
  <2> QED  BY <2>2, <2>3
<1>13. LeaseCounted(r)' /\ SendRecorded(r)'
  <2>1. SendRecorded(r)'
    BY <1>11 DEF SendRecorded
  <2>2. LeaseCounted(r)'
    <3> SUFFICES ASSUME NEW x \in LeasedRow(r)'
                 PROVE  Over(db', x) \/ Cardinality(SendsIn(wire', x)) < x.attempts
      BY DEF LeaseCounted, Over, SendsIn, SameKey
    <3>1. x \in db'.outbox /\ x.id = j.id
      BY <1>11 DEF LeasedRow
    <3>2. ~ (x \in e.outbox /\ x # j)
      BY <1>5, <1>6, <3>1 DEF Sound, HintsKeyed
    <3>3. SameKey(j, x) /\ x.attempts = j.attempts + 1
      BY <1>8, <3>1, <3>2
    <3>4. Over(e, j) \/ Cardinality(SendsIn(wire, j)) <= j.attempts
      BY <1>5, <1>6 DEF Recorded, AttemptsCounted
    <3>5. SendsIn(wire, x) = SendsIn(wire, j) /\ (Over(e, j) => Over(e, x))
      BY <3>3 DEF SendsIn, SameKey, Over
    <3>6. Cardinality(SendsIn(wire, j)) \in Nat /\ j.attempts \in Nat
      BY <1>2, <1>5, <1>6, FS_Subset, FS_CardinalityType, AttemptsType
         DEF Records, SendsIn, Consistent, DB
    <3> QED  BY <1>4, <1>10, <3>3, <3>4, <3>5, <3>6
  <2> QED  BY <2>1, <2>2
<1>14. AttemptsBounded'
  BY <1>1, <1>4 DEF AttemptsBounded, SendsOf
<1> QED  BY <1>4, <1>9, <1>12, <1>13, <1>14, HistoryParts

\* A send uses the attempt of its claim, for a hint nobody accepted yet.
LEMMA SendFacts ==
  ASSUME HistoryInv, NEW r \in Runtime, BeginSend(r)
  PROVE  \E j \in LeasedRow(r) :
           /\ wire' = wire \cup {SentBy(j)} /\ SameKey(SentBy(j), j)
           /\ Cardinality(SendsIn(wire, j)) < j.attempts
           /\ ~ Over(db, j)
           /\ \A a \in accepted : ~ SameKey(j, a)
<1>1. PICK j \in LeasedRow(r) : Permitted(r, j) /\ wire' = wire \cup {SentBy(j)}
  BY DEF BeginSend
<1>2. ~ Over(db, j)
  BY <1>1 DEF Permitted, Over
<1>3. rt[r].pc = "leased" /\ LeaseCounted(r) /\ AcceptedClosed(db, wire, accepted)
  BY DEF BeginSend, HistoryInv, Recorded
<1>4. Cardinality(SendsIn(wire, j)) < j.attempts
  BY <1>2, <1>3 DEF LeaseCounted
<1>5. \A a \in accepted : ~ SameKey(j, a)
  BY <1>2, <1>3 DEF AcceptedClosed, LeasedRow
<1>6. SameKey(SentBy(j), j)
  BY DEF SameKey, SentBy
<1> QED  BY <1>1, <1>2, <1>4, <1>5, <1>6

LEMMA SendHistory ==
  ASSUME HistoryInv, PushInv', NEW r \in Runtime, BeginSend(r)
  PROVE  HistoryInv'
<1>1. /\ Consistent(db) /\ Sound(db) /\ Recorded(db, wire, accepted)
      /\ AttemptsBounded /\ rt \in [Runtime -> Worker] /\ IsFiniteSet(wire)
      /\ \A q \in Runtime : LeaseCounted(q) /\ SendRecorded(q)
  BY DEF HistoryInv, PushInv, TypedInv, TypeOK
<1>2. PICK j \in LeasedRow(r) :
        /\ wire' = wire \cup {SentBy(j)} /\ SameKey(SentBy(j), j)
        /\ Cardinality(SendsIn(wire, j)) < j.attempts
  BY SendFacts
<1>3. /\ db' = db /\ accepted' = accepted
      /\ rt' = [rt EXCEPT ![r] = [rt[r] EXCEPT !.pc = "sending"]]
  BY DEF BeginSend, Goto
<1>4. /\ rt'[r].pc = "sending" /\ rt'[r].job = rt[r].job
      /\ \A q \in Runtime \ {r} : rt'[q] = rt[q]
  BY <1>1, <1>3 DEF Worker
<1>5. /\ j \in db.outbox /\ j \in Job /\ j.installation \in Installation
      /\ j.token = r /\ ~ j.done /\ j.attempts <= MaxAttempts
  BY <1>1, LeasedRowQueued DEF LeasedRow, Sound, HintsClose, HistoryInv, PushInv
<1>6. \A k \in db.outbox : SameKey(SentBy(j), k) => k = j
  BY <1>1, <1>2, <1>5 DEF SameKey, Sound, HintsKeyed
<1> DEFINE w == SentBy(j)
<1>7. /\ w.event = j.event /\ w.kind = j.hint /\ w.installation = j.installation
      /\ w.generation = j.generation
      /\ w.endpoint = db.reg[j.installation].endpoint
  BY DEF SentBy
<1> HIDE DEF w
<1>8. wire' = wire \cup {w} /\ SameKey(w, j)
  BY <1>2 DEF w
<1>9. \A v : IF SameKey(w, v) THEN SendsIn(wire', v) = SendsIn(wire, j) \cup {w}
                              ELSE SendsIn(wire', v) = SendsIn(wire, v)
  <2>1. \A v : SameKey(w, v) => SendsIn(wire, v) = SendsIn(wire, j)
    BY <1>8 DEF SendsIn, SameKey
  <2>2. \A v : SendsIn(wire', v) = SendsIn(wire, v) \cup {x \in {w} : SameKey(x, v)}
    BY <1>8 DEF SendsIn
  <2> QED  BY <2>1, <2>2
<1>10. /\ Cardinality(SendsIn(wire, j) \cup {w}) <= j.attempts
       /\ Cardinality(SendsIn(wire, j) \cup {w}) <= MaxAttempts
  <2>1. IsFiniteSet(SendsIn(wire, j))
    BY <1>1, FS_Subset DEF SendsIn
  <2>2. Cardinality(SendsIn(wire, j)) \in Nat
    BY <2>1, FS_CardinalityType
  <2>3. Cardinality(SendsIn(wire, j) \cup {w}) \in
          {Cardinality(SendsIn(wire, j)), Cardinality(SendsIn(wire, j)) + 1}
    BY <2>1, FS_AddElement
  <2>4. j.attempts \in Nat /\ MaxAttempts \in Nat
    BY <1>5, StoreAssumption DEF Job
  <2> QED  BY <1>2, <1>5, <2>2, <2>3, <2>4
<1>11. /\ j.generation = db.reg[j.installation].generation
       /\ j.event <= db.cursor
  BY <1>1, <1>5 DEF Consistent, QueueCurrent, Sound, HintsKeyed, EventsKeyed
<1>12. Recorded(db, wire', accepted)
  <2>1. SendsKnown(db, wire')
    <3>1. w.generation <= db.reg[w.installation].generation
      <4>1. w.generation = db.reg[w.installation].generation
        BY <1>7, <1>11
      <4>2. db.reg[j.installation].generation \in Nat
        BY <1>1, <1>5 DEF Consistent, DB, Row
      <4> QED  BY <1>7, <4>1, <4>2
    <3> QED  BY <1>1, <1>7, <1>8, <1>11, <3>1 DEF Recorded, SendsKnown
  <2>2. SecretsKept(db, wire')
    <3>1. ASSUME NEW i \in Installation, w.kind = "challenge",
                 w.event = db.reg[i].challenge, w.event # 0
          PROVE  w.installation = i
      <4>1. j.event = db.reg[j.installation].challenge
        BY <1>1, <1>5, <1>7, <3>1 DEF Sound, ChallengesFit
      <4> QED  BY <1>1, <1>5, <1>7, <3>1, <4>1 DEF Sound, ChallengesFit
    <3> QED  BY <1>1, <1>7, <1>8, <1>11, <3>1 DEF Recorded, SecretsKept
  <2>3. SentKeepsRow(db, wire')
    <3>1. SameKey(j, w)
      BY <1>8 DEF SameKey
    <3> QED  BY <1>1, <1>5, <1>8, <3>1 DEF Recorded, SentKeepsRow
  <2>4. AttemptsCounted(db, wire')
    <3> SUFFICES ASSUME NEW k \in db.outbox
                 PROVE  Over(db, k) \/ Cardinality(SendsIn(wire', k)) <= k.attempts
      BY DEF AttemptsCounted
    <3>1. CASE SameKey(w, k)
      BY <1>6, <1>9, <1>10, <3>1 DEF w
    <3>2. CASE ~ SameKey(w, k)
      BY <1>1, <1>9, <3>2 DEF Recorded, AttemptsCounted
    <3> QED  BY <3>1, <3>2
  <2>5. AcceptedClosed(db, wire', accepted)
    BY <1>1, <1>8 DEF Recorded, AcceptedClosed
  <2> QED  BY <2>1, <2>2, <2>3, <2>4, <2>5 DEF Recorded
<1>13. ASSUME NEW q \in Runtime
       PROVE  LeaseCounted(q)' /\ SendRecorded(q)'
  <2>1. LeasedRow(q)' = LeasedRow(q)
    BY <1>3, <1>4 DEF LeasedRow
  <2>2. LeaseCounted(q)'
    <3> SUFFICES ASSUME rt'[q].pc = "leased", NEW k \in LeasedRow(q)
                 PROVE  Over(db', k) \/ Cardinality(SendsIn(wire', k)) < k.attempts
      BY <2>1 DEF LeaseCounted, Over, SendsIn, SameKey
    <3>1. q # r /\ rt[q].pc = "leased" /\ k \in db.outbox /\ k.token = q
      BY <1>4 DEF LeasedRow
    <3>2. ~ SameKey(w, k)
      BY <1>5, <1>6, <3>1 DEF w
    <3>3. Over(db, k) \/ Cardinality(SendsIn(wire, k)) < k.attempts
      BY <1>1, <3>1 DEF LeaseCounted
    <3> QED  BY <1>3, <1>9, <3>2, <3>3
  <2>3. SendRecorded(q)'
    <3> SUFFICES ASSUME rt'[q].pc = "sending", NEW k \in LeasedRow(q)
                 PROVE  \E v \in wire' : SameKey(v, k)
      BY <2>1 DEF SendRecorded, SameKey
    <3>1. CASE q = r
      <4>1. k.id = j.id /\ k \in db.outbox
        BY <3>1 DEF LeasedRow
      <4>2. k = j
        BY <1>1, <1>5, <4>1 DEF Sound, HintsKeyed
      <4> QED  BY <1>8, <4>2
    <3>2. CASE q # r
      BY <1>1, <1>4, <1>8, <3>2 DEF SendRecorded
    <3> QED  BY <3>1, <3>2
  <2> QED  BY <2>2, <2>3
<1>14. AttemptsBounded'
  <2>1. \A v : SendsOf(v)' = SendsIn(wire', v) /\ SendsOf(v) = SendsIn(wire, v)
    BY DEF SendsOf, SendsIn, SameKey
  <2> SUFFICES ASSUME NEW v \in wire'
               PROVE  Cardinality(SendsIn(wire', v)) <= MaxAttempts
    BY <2>1 DEF AttemptsBounded
  <2>2. CASE SameKey(w, v)
    BY <1>9, <1>10, <2>2
  <2>3. CASE ~ SameKey(w, v)
    <3>1. v \in wire
      BY <1>8, <2>3 DEF SameKey
    <3> QED  BY <1>1, <1>9, <2>1, <2>3, <3>1 DEF AttemptsBounded
  <2> QED  BY <2>2, <2>3
<1>15. Sound(db') /\ Recorded(db', wire', accepted')
  BY <1>1, <1>3, <1>12
<1> QED  BY <1>13, <1>14, <1>15, HistoryParts

\* An accepted hint is closed, and it was on the wire.
LEMMA AcceptHistory ==
  ASSUME HistoryInv, PushInv', NEW r \in Runtime, SendAccepted(r)
  PROVE  HistoryInv'
<1>1. /\ Consistent(db) /\ Sound(db) /\ Recorded(db, wire, accepted)
      /\ AttemptsBounded /\ rt \in [Runtime -> Worker]
      /\ \A q \in Runtime : LeaseCounted(q) /\ SendRecorded(q)
  BY DEF HistoryInv, PushInv, TypedInv, TypeOK
<1>2. Records(wire, accepted)
  BY DEF Records, HistoryInv, PushInv, TypedInv, TypeOK
<1>3. PICK j \in LeasedRow(r) :
        /\ db' = SettleJob(db, j)
        /\ accepted' = accepted \cup
             {[event |-> j.event, installation |-> j.installation,
               generation |-> j.generation]}
  BY DEF SendAccepted
<1>4. /\ wire' = wire /\ rt[r].pc = "sending"
      /\ rt' = [rt EXCEPT ![r] = Idle(r)]
  BY DEF SendAccepted, Goto
<1>5. j \in db.outbox
  BY DEF LeasedRow
<1>6. now \in Nat
  BY DEF HistoryInv, PushInv, TypedInv, TypeOK
<1>7. Transacts(db, SettleJob(db, j))
  BY <1>1, <1>5, <1>6, RowTransacts
<1>8. /\ Moves(db, SettleJob(db, j))
      /\ \A x \in SettleJob(db, j).outbox : x.id = j.id => x.done
  BY <1>1, <1>5, SettleJobMoves
<1>9. Sound(db') /\ Kept(db, db') /\ Recorded(db', wire, accepted)
  BY <1>1, <1>2, <1>3, <1>7 DEF Transacts
<1> DEFINE a == [event |-> j.event, installation |-> j.installation,
                 generation |-> j.generation]
<1>10. SameKey(j, a) /\ accepted' = accepted \cup {a}
  BY <1>3 DEF SameKey
<1> HIDE DEF a
<1>11. \E w \in wire : SameKey(w, a)
  <2>1. PICK w \in wire : SameKey(w, j)
    BY <1>1, <1>4 DEF SendRecorded
  <2> QED  BY <1>10, <2>1 DEF SameKey
<1>12. \A k \in db'.outbox : SameKey(k, a) => k.done
  <2> SUFFICES ASSUME NEW k \in db'.outbox, SameKey(k, a)
               PROVE  k.done
    OBVIOUS
  <2>1. PICK x \in db.outbox : SameRow(x, k)
    BY <1>3, <1>8 DEF Moves
  <2>2. SameKey(x, j)
    BY <1>10, <2>1 DEF SameRow, SameKey
  <2>3. x = j
    BY <1>1, <1>5, <2>2 DEF Sound, HintsKeyed
  <2> QED  BY <1>3, <1>8, <2>1, <2>3 DEF SameRow
<1>13. AcceptedClosed(db', wire', accepted')
  BY <1>4, <1>9, <1>10, <1>11, <1>12 DEF Recorded, AcceptedClosed
<1>14. Recorded(db', wire', accepted')
  BY <1>4, <1>9, <1>13 DEF Recorded
<1>15. ASSUME NEW q \in Runtime
       PROVE  LeaseCounted(q)' /\ SendRecorded(q)'
  <2>1. CASE q = r
    <3>1. rt'[r].pc = "idle"
      BY <1>1, <1>4 DEF Idle, DownWorker
    <3> QED  BY <2>1, <3>1 DEF LeaseCounted, SendRecorded
  <2>2. CASE q # r
    <3>1. rt'[q] = rt[q]
      BY <1>1, <1>4, <2>2
    <3> QED  BY <1>4, <1>9, <3>1, LeasesLast
  <2> QED  BY <2>1, <2>2
<1>16. AttemptsBounded'
  BY <1>1, <1>4 DEF AttemptsBounded, SendsOf
<1> QED  BY <1>9, <1>14, <1>15, <1>16, HistoryParts

LEMMA InitialHistory ==
  ASSUME Init
  PROVE  HistoryInv
<1>1. PushInv
  BY InitialState
<1>2. db \in InitialDBs /\ wire = {} /\ accepted = {}
      /\ rt = [r \in Runtime |-> DownWorker]
  BY DEF Init
<1>3. Sound(db)
  BY <1>2, StateAssumption
<1>4. \A j : Cardinality(SendsIn({}, j)) = 0
  BY NobodySent
<1>5. \A j \in db.outbox : 0 <= j.attempts
  BY <1>1, AttemptsType DEF PushInv, TypedInv, Consistent, DB
<1>6. Recorded(db, wire, accepted)
  BY <1>2, <1>4, <1>5 DEF Recorded, SendsKnown, SecretsKept, SentKeepsRow,
                          AttemptsCounted, AcceptedClosed
<1>7. \A r \in Runtime : LeaseCounted(r) /\ SendRecorded(r)
  BY <1>2 DEF LeaseCounted, SendRecorded, DownWorker
<1>8. AttemptsBounded
  BY <1>2 DEF AttemptsBounded
<1> QED  BY <1>1, <1>3, <1>6, <1>7, <1>8 DEF HistoryInv

LEMMA HistoryStep ==
  ASSUME HistoryInv, [Next]_vars
  PROVE  HistoryInv'
<1>1. PushInv'
  BY InvariantStep DEF HistoryInv
<1>2. TypedInv /\ Sound(db)
  BY DEF HistoryInv, PushInv
<1>3. CASE \E r \in Runtime : Claims(r)
  BY <1>1, <1>3, ClaimHistory
<1>4. CASE \E r \in Runtime : BeginSend(r)
  BY <1>1, <1>4, SendHistory
<1>5. CASE \E r \in Runtime : SendAccepted(r)
  BY <1>1, <1>5, AcceptHistory
<1>6. CASE Calm /\ ~ \E r \in Runtime : Claims(r)
  <2>1. db' = db \/ Transacts(db, db')
    BY <1>2, <1>6, StoreWrites, WritesTransact
  <2> QED  BY <1>1, <1>6, <2>1, CalmHistory
<1> QED  BY <1>2, <1>3, <1>4, <1>5, <1>6, CalmSteps

-----------------------------------------------------------------------------
(* Theorems *)

\* What the tables and the records of the wire know of each other holds in
\* every state: the invariant from which the next three theorems follow.
THEOREM HistoryInvariant == Spec => []HistoryInv
<1>1. Init => HistoryInv
  BY InitialHistory
<1>2. HistoryInv /\ [Next]_vars => HistoryInv'
  BY HistoryStep
<1> QED  BY <1>1, <1>2, PTL DEF Spec

\* Whatever workers crash between the claim, the send and its outcome, and
\* however often a lease runs out, a hint leaves at most MaxAttempts times: the
\* claim counts the attempt first (Store.claim, store.py:507-527).
THEOREM AttemptsStayBounded == Spec => []AttemptsBounded
<1>1. HistoryInv => AttemptsBounded
  BY DEF HistoryInv
<1> QED  BY <1>1, HistoryInvariant, PTL

\* No order of a request's callbacks and of its resolution's, direct or through
\* the inbox, leaves a live hint of a request that is known to be resolved
\* (Store.record, store.py:374-391).
THEOREM ResolvedStaysSilent == Spec => []ResolvedNotAnnounced
<1>1. HistoryInv => ResolvedNotAnnounced
  BY DEF HistoryInv, Sound, ResolvedNotAnnounced
<1> QED  BY <1>1, HistoryInvariant, PTL

\* Once a 2xx was recorded, no worker, retry or second record of the event
\* sends the hint to that authority again (Runtime.deliver_one).
THEOREM AcceptedStaysSent == Spec => AcceptedNotResent
<1> DEFINE Step == \A w \in wire' \ wire :
                     [event |-> w.event, installation |-> w.installation,
                      generation |-> w.generation] \notin accepted
<1>1. ASSUME HistoryInv, [Next]_vars
      PROVE  Step
  <2>1. TypedInv
    BY <1>1 DEF HistoryInv, PushInv
  <2>2. wire' = wire \/ \E r \in Runtime : BeginSend(r)
    BY <1>1, <2>1, CalmSteps DEF Calm, Claims, SendAccepted
  <2>3. ASSUME NEW r \in Runtime, BeginSend(r), NEW w \in wire' \ wire,
               NEW a \in accepted,
               a = [event |-> w.event, installation |-> w.installation,
                    generation |-> w.generation]
        PROVE  FALSE
    <3>1. PICK j \in LeasedRow(r) :
            /\ wire' = wire \cup {SentBy(j)} /\ SameKey(SentBy(j), j)
            /\ ~ SameKey(j, a)
      BY <1>1, <2>3, SendFacts
    <3>2. SameKey(w, j)
      BY <3>1
    <3> QED  BY <2>3, <3>1, <3>2 DEF SameKey
  <2> QED  BY <2>2, <2>3
<1>2. HistoryInv /\ [Next]_vars => [Step]_vars
  BY <1>1
<1> QED  BY <1>2, HistoryInvariant, PTL DEF Spec, AcceptedNotResent

-----------------------------------------------------------------------------
(* Limits *)

LEMMA InboxSteps ==
  ASSUME [Next]_vars
  PROVE  \/ inbox' \subseteq inbox /\ inboxSeq' = inboxSeq
         \/ \E h \in Hook : HookQueue(h)
<1> USE DEF storeVars, operatorVars, apiVars, historyVars
<1>1. CASE ApiStep
  BY <1>1 DEF ApiStep, OpenStore, SubmitPut, CommitPut, SubmitConfirm,
              CommitConfirm, AbandonPut, AbandonConfirm, RevokeRegistration
<1>2. CASE ObserverStep
  BY <1>2 DEF ObserverStep, HookBegin, HookSkip, HookRun, HookCapture, HookPeek,
              HookWrite, HookBusy, HookFail
<1>3. CASE WorkerStep
  BY ZenonT(40), <1>3 DEF WorkerStep, WorkerRun, FinishSend, workerUnchanged, Start, Stop, Exit,
              BeginPass, DrainPeek, DrainStore, DrainRemove, CheckInbox, ClaimJob,
              LostLease, DropUnpermitted, BeginSend, SendAccepted, SendRejected,
              SendGone, SendFailed, WorkerBusy, Crash
<1>4. CASE OperatorStep \/ Tick \/ UNCHANGED vars
  BY <1>4 DEF OperatorStep, ChangePolicy, ChangeDurable, Tick, vars
<1> QED  BY <1>1, <1>2, <1>3, <1>4 DEF Next

\* The inbox numbers what it takes, and keeps the newest.
LEMMA InboxStep ==
  ASSUME TypedInv, InboxKeyed, Cardinality(inbox) <= MaxEvents, [Next]_vars
  PROVE  InboxKeyed' /\ (Cardinality(inbox) <= MaxEvents)'
<1>1. inbox \subseteq Item /\ inboxSeq \in Nat /\ IsFiniteSet(inbox)
  BY DEF TypedInv, TypeOK, InboxKeyed
<1>2. \A x \in inbox : x.id \in Nat
  BY <1>1 DEF Item
<1>3. MaxEvents \in Nat \ {0}
  BY StoreAssumption
<1>4. CASE inbox' \subseteq inbox /\ inboxSeq' = inboxSeq
  <2>1. IsFiniteSet(inbox') /\ Cardinality(inbox') <= Cardinality(inbox)
    BY <1>1, <1>4, FS_Subset
  <2>2. Cardinality(inbox') \in Nat /\ Cardinality(inbox) \in Nat
    BY <1>1, <2>1, FS_CardinalityType
  <2> QED  BY <1>3, <1>4, <2>1, <2>2 DEF InboxKeyed
<1>5. ASSUME NEW E, IsFiniteSet(E), inboxSeq' \in Nat,
             \A x \in E : x.id \in Nat /\ x.id <= inboxSeq',
             \A x, y \in E : x.id = y.id => x = y,
             inbox' = NewestItems(E)
      PROVE  InboxKeyed' /\ Cardinality(inbox') <= MaxEvents
  <2> DEFINE key == [x \in E |-> x.id]
  <2>1. key \in [E -> Nat] /\ \A x, y \in E : key[x] = key[y] => x = y
    BY <1>5
  <2>2. NewestItems(E) =
          {x \in E : Cardinality({y \in E : key[y] > key[x]}) < MaxEvents}
    <3>1. \A x \in E : {y \in E : key[y] > key[x]} = {y \in E : y.id > x.id}
      OBVIOUS
    <3> QED  BY <3>1 DEF NewestItems
  <2> HIDE DEF key
  <2>3. IsFiniteSet(inbox') /\ Cardinality(inbox') <= MaxEvents
    <3>1. IsFiniteSet(E)
      BY <1>5
    <3>2. /\ IsFiniteSet(NewestItems(E))
          /\ Cardinality(NewestItems(E)) <= MaxEvents
      BY <1>3, <2>1, <2>2, <3>1, NewestFew
    <3> QED  BY <1>5, <3>2
  <2>4. inbox' \subseteq E
    BY <1>5 DEF NewestItems
  <2> QED  BY <1>5, <2>3, <2>4 DEF InboxKeyed
<1>6. ASSUME NEW h \in Hook, HookQueue(h)
      PROVE  InboxKeyed' /\ Cardinality(inbox') <= MaxEvents
  <2> DEFINE live == {x \in inbox : x.expires > now}
             item == [id |-> inboxSeq + 1, event |-> hook[h].event,
                      targets |-> hook[h].targets, expires |-> now + TTL]
  <2>1. \/ inbox' = NewestItems(live) /\ inboxSeq' = inboxSeq
        \/ inbox' = NewestItems(live \cup {item}) /\ inboxSeq' = inboxSeq + 1
    BY <1>6 DEF HookQueue, InboxPut
  <2>2. IsFiniteSet(live) /\ IsFiniteSet(live \cup {item})
    BY <1>1, FS_Subset, FS_AddElement
  <2>3. item.id = inboxSeq + 1
    OBVIOUS
  <2>4. /\ \A x \in live : x.id \in Nat /\ x.id <= inboxSeq
        /\ \A x, y \in live : x.id = y.id => x = y
    BY <1>2 DEF InboxKeyed
  <2> HIDE DEF live, item
  <2>5. \A x \in live \cup {item} : x.id \in Nat /\ x.id <= inboxSeq + 1
    BY <1>1, <2>3, <2>4
  <2>6. \A x, y \in live \cup {item} : x.id = y.id => x = y
    <3>1. \A x \in live : x.id # item.id
      BY <1>1, <2>3, <2>4
    <3> QED  BY <2>4, <3>1
  <2>7. inboxSeq + 1 \in Nat
    BY <1>1
  <2>8. CASE inbox' = NewestItems(live) /\ inboxSeq' = inboxSeq
    BY <1>1, <1>5, <2>2, <2>4, <2>8
  <2>9. CASE inbox' = NewestItems(live \cup {item}) /\ inboxSeq' = inboxSeq + 1
    BY <1>5, <2>2, <2>5, <2>6, <2>7, <2>9
  <2> QED  BY <2>1, <2>8, <2>9
<1> QED  BY <1>4, <1>6, InboxSteps

\* Every transaction that inserts also prunes, and no other inserts.
LEMMA WritesBounded ==
  ASSUME TypedInv, Sound(db), Bounded(db), Writes
  PROVE  Bounded(db')
<1>1. TypeOK /\ Consistent(db) /\ now \in Nat
  BY DEF TypedInv, TypeOK
<1>2. Bounded(Migrate(db))
  BY <1>1, AuthoritiesBounded
<1>3. ASSUME NEW c \in puts,
             db' = Put(db, c.principal, c.installation, c.body, now)
      PROVE  Bounded(db')
  <2> DEFINE f == Proposed(db, c.principal, c.installation, c.body, now)
  <2>1. c.principal \in Principal /\ c.installation \in Installation /\ c.body \in Body
    BY <1>1 DEF TypeOK, PutCall
  <2>2. db' = Prune(f, now)
    BY <1>3 DEF Put, Proposed
  <2>3. Consistent(f) /\ Renews(db, f, c.installation)
    BY <1>1, <2>1, ProposedRenews, ProposedConsistent
  <2> HIDE DEF f
  <2>4. Sound(f)
    BY <1>1, <2>1, <2>3, RenewsSound
  <2> QED  BY <2>2, <2>3, <2>4, PruneBounded
<1>4. ASSUME NEW c \in confirms, db' = Confirm(db, c.installation)
      PROVE  Bounded(db')
  <2>1. c.installation \in Installation
    BY <1>1 DEF TypeOK, ConfirmCall
  <2> QED  BY <1>1, <1>4, <2>1, AuthoritiesBounded
<1>5. ASSUME NEW p \in Principal, NEW i \in Installation, db' = Revoke(db, p, i)
      PROVE  Bounded(db')
  BY <1>1, <1>5, AuthoritiesBounded
<1>6. ASSUME RecordsEvent
      PROVE  Bounded(db')
  BY <1>1, <1>6, RecordBounded DEF RecordsEvent
<1>7. \A e, f : Moves(e, f) /\ Bounded(e) => Bounded(f)
  BY DEF Moves, Bounded
<1>8. ASSUME NEW j \in db.outbox,
             db' \in {DropJob(db, j), SettleJob(db, j), RetryJob(db, j, now),
                      RevokeIn(db, j.installation)}
      PROVE  Bounded(db')
  <2>1. Bounded(RevokeIn(db, j.installation))
    <3>1. j.installation \in Installation
      BY <1>1 DEF Consistent, DB, Job
    <3> QED  BY <1>1, <3>1, AuthoritiesBounded
  <2>2. \A f \in {DropJob(db, j), SettleJob(db, j), RetryJob(db, j, now)} : Moves(db, f)
    BY <1>1, DropJobMoves, SettleJobMoves, RetryJobMoves
  <2> QED  BY <1>7, <1>8, <2>1, <2>2
<1>9. Bounded(BeforeClaim(db, now))
  <2> DEFINE e == Prune(db, now)
  <2>1. Consistent(e) /\ Sound(e) /\ Bounded(e)
    BY <1>1, PruneTransacts, PruneBounded DEF Transacts
  <2>2. BeforeClaim(db, now) = CloseExhausted(e, now)
    BY DEF BeforeClaim
  <2> HIDE DEF e
  <2>3. Moves(e, CloseExhausted(e, now))
    BY <2>1, CloseExhaustedMoves
  <2> QED  BY <1>7, <2>1, <2>2, <2>3
<1>10. ASSUME NEW r \in Runtime, Claims(r)
       PROVE  Bounded(db')
  <2> DEFINE e == BeforeClaim(db, now)
  <2>1. PICK j \in OldestDue(e, now) : db' = ClaimRow(e, j, r, now)
    BY <1>10 DEF Claims
  <2>2. j \in e.outbox /\ j.attempts < MaxAttempts
    BY DEF OldestDue, Due
  <2>3. Consistent(e) /\ Sound(e)
    BY <1>1, BeforeClaimTransacts DEF Transacts
  <2> HIDE DEF e
  <2>4. Moves(e, ClaimRow(e, j, r, now))
    BY <2>2, <2>3, ClaimRowMoves
  <2> QED  BY <1>7, <1>9, <2>1, <2>4 DEF e
<1> QED  BY <1>2, <1>3, <1>4, <1>5, <1>6, <1>8, <1>9, <1>10 DEF Writes

\* The store's tables and the hook inbox never hold more than the policy's
\* number of rows (Store._prune at the end of every insertion, Inbox.put).
THEOREM RetentionStaysBounded == Spec => []RetentionBounded
<1> DEFINE Limits == Bounded(db) /\ InboxKeyed /\ Cardinality(inbox) <= MaxEvents
<1>1. Init => Limits
  <2> SUFFICES ASSUME Init
               PROVE  Limits
    OBVIOUS
  <2>1. db \in InitialDBs /\ inbox = {}
    BY DEF Init
  <2>2. IsFiniteSet(inbox) /\ Cardinality(inbox) = 0
    BY <2>1, FS_EmptySet
  <2> QED  BY <2>1, <2>2, StateAssumption, StoreAssumption DEF InboxKeyed
<1>2. HistoryInv /\ Limits /\ [Next]_vars => Limits'
  <2> SUFFICES ASSUME HistoryInv, Limits, [Next]_vars
               PROVE  Limits'
    OBVIOUS
  <2>1. TypedInv /\ Sound(db)
    BY DEF HistoryInv, PushInv
  <2>2. Bounded(db)'
    BY <2>1, StoreWrites, WritesBounded DEF Bounded
  <2> QED  BY <2>1, <2>2, InboxStep
<1>3. Limits => RetentionBounded
  BY DEF Bounded, RetentionBounded
<1> QED  BY <1>1, <1>2, <1>3, HistoryInvariant, PTL DEF Spec

-----------------------------------------------------------------------------
(* Who hears of an event *)

\* The hints of a database were captured: QueuedWasCaptured, for any tables.
Consented(d, C) ==
  \A j \in d.outbox, e \in d.events :
    e.cursor = j.event /\ e.kind # "challenge" =>
      [event |-> [kind |-> e.kind, session |-> e.session, ref |-> e.ref],
       installation |-> j.installation, generation |-> j.generation] \in C

LEMMA ConsentKept ==
  ASSUME NEW d, NEW f, NEW C, Consented(d, C),
         \A j \in f.outbox : \E k \in d.outbox : SameKey(k, j),
         \A e \in f.events : \E c \in d.events : SameEvent(c, e)
  PROVE  Consented(f, C)
BY DEF Consented, SameKey, SameEvent

LEMMA RenewsConsented ==
  ASSUME NEW d, NEW f, NEW i, NEW C, Consistent(d), Sound(d), Renews(d, f, i),
         Consented(d, C)
  PROVE  Consented(f, C)
<1> SUFFICES ASSUME NEW j \in f.outbox, NEW e \in f.events, e.cursor = j.event,
                    e.kind # "challenge"
             PROVE  [event |-> [kind |-> e.kind, session |-> e.session, ref |-> e.ref],
                     installation |-> j.installation, generation |-> j.generation] \in C
  BY DEF Consented
<1>1. PICK c \in d.events : SameEvent(c, e)
  BY DEF Renews
<1>2. j \in d.outbox
  <2>1. c.cursor \in Nat /\ c.cursor <= d.cursor /\ d.cursor \in Nat
        /\ f.cursor = d.cursor + 1
    BY DEF Consistent, DB, Event, Sound, EventsKeyed, Renews
  <2>2. j.event # f.cursor
    BY <1>1, <2>1 DEF SameEvent
  <2> QED  BY <2>2 DEF Renews, Challenge
<1> QED  BY <1>1, <1>2 DEF Consented, SameEvent

\* A hint is queued for a generation that was captured with its event.
LEMMA AddsConsented ==
  ASSUME NEW d, NEW f, NEW ev \in HookEvent, NEW R \in SUBSET Installation,
         NEW targets, NEW C, Consistent(d), Consistent(f), Sound(d),
         Adds(d, f, ev, R),
         \A i \in R : /\ targets[i] = d.reg[i].generation
                      /\ [event |-> ev, installation |-> i,
                          generation |-> targets[i]] \in C,
         Consented(d, C)
  PROVE  Consented(f, C)
<1> SUFFICES ASSUME NEW j \in f.outbox, NEW e \in f.events, e.cursor = j.event,
                    e.kind # "challenge"
             PROVE  [event |-> [kind |-> e.kind, session |-> e.session, ref |-> e.ref],
                     installation |-> j.installation, generation |-> j.generation] \in C
  BY DEF Consented
<1>1. CASE j \in d.outbox
  <2>1. PICK c \in d.events : c.cursor = j.event
    BY <1>1 DEF Sound, HintsKeyed
  <2>2. c = e
    BY <2>1 DEF Adds
  <2> QED  BY <1>1, <2>1, <2>2 DEF Consented
<1>2. CASE j \notin d.outbox
  <2>1. PICK c \in f.events : c.cursor = j.event /\ AnnouncedBy(c, ev)
    BY <1>2 DEF Adds
  <2>2. c = e
    BY <2>1 DEF Adds
  <2>3. [kind |-> e.kind, session |-> e.session, ref |-> e.ref] = ev
    BY <2>1, <2>2 DEF AnnouncedBy, HookEvent
  <2>4. j.installation \in R /\ j.generation = d.reg[j.installation].generation
    BY <1>2 DEF Adds, Consistent, QueueCurrent
  <2> QED  BY <2>3, <2>4
<1> QED  BY <1>1, <1>2

LEMMA RecordConsented ==
  ASSUME NEW d, Consistent(d), Sound(d), NEW ev \in HookEvent,
         NEW targets \in Targets, NEW pol \in Policy,
         NEW order \in ScanOrders(Recipients(d, ev, targets, pol)),
         NEW expires \in Nat, NEW time \in Nat, NEW C, Consented(d, C),
         \A i \in Installation : targets[i] # 0 =>
           [event |-> ev, installation |-> i, generation |-> targets[i]] \in C
  PROVE  Consented(Record(d, ev, targets, pol, order, expires, time), C)
<1> DEFINE f == Record(d, ev, targets, pol, order, expires, time)
           R == Recipients(d, ev, targets, pol)
<1>1. f = d \/ f = Prune(d, time) \/ Recording(d, f, ev, R)
  BY RecordSteps
<1>2. Consistent(f)
  BY RecordConsistent
<1>3. R \in SUBSET Installation
  BY DEF Recipients
<1>4. \A i \in R : /\ targets[i] = d.reg[i].generation
                   /\ [event |-> ev, installation |-> i,
                       generation |-> targets[i]] \in C
  BY DEF Recipients, Sound, RowsKeyed, Exists
<1> HIDE DEF f, R
<1>5. ASSUME NEW x, NEW y, Trims(x, y), Consented(x, C)
      PROVE  Consented(y, C)
  BY <1>5, ConsentKept DEF Trims, SameKey
<1>6. ASSUME Recording(d, f, ev, R)
      PROVE  Consented(f, C)
  <2>1. PICK e, t, s, q :
          /\ Trims(d, e) /\ Consistent(e) /\ Sound(e)
          /\ Trims(e, t) /\ SameButAttention(t, s) /\ Consistent(s) /\ Sound(s)
          /\ Adds(s, q, ev, R) /\ Consistent(q) /\ Sound(q)
          /\ Trims(q, f)
    BY <1>6, PruneTrims DEF Recording
  <2>2. Consented(t, C)
    BY <1>5, <2>1
  <2>3. Consented(s, C) /\ s.reg = d.reg
    BY <2>1, <2>2 DEF SameButAttention, Consented, Trims
  <2>4. Consented(q, C)
    BY <1>3, <1>4, <2>1, <2>3, AddsConsented
  <2> QED  BY <1>5, <2>1, <2>4
<1>7. Consented(f, C)
  BY <1>1, <1>5, <1>6, PruneTrims
<1> QED  BY <1>7 DEF f

LEMMA WritesConsented ==
  ASSUME TypedInv, Sound(db), NEW C, Consented(db, C),
         \A ev, targets : Waiting(ev, targets) =>
           \A i \in Installation : targets[i] # 0 =>
             [event |-> ev, installation |-> i, generation |-> targets[i]] \in C,
         Writes
  PROVE  Consented(db', C)
<1>1. TypeOK /\ Consistent(db) /\ now \in Nat
  BY DEF TypedInv, TypeOK
<1>2. ASSUME NEW x, NEW y, NEW I, Ends(x, y, I), Consented(x, C)
      PROVE  Consented(y, C)
  BY <1>2, ConsentKept DEF Ends, SameKey
<1>3. ASSUME NEW x, NEW y, Moves(x, y), Consented(x, C)
      PROVE  Consented(y, C)
  BY <1>3, ConsentKept DEF Moves, SameRow, SameEvent
<1>4. ASSUME NEW x, NEW y, Trims(x, y), Consented(x, C)
      PROVE  Consented(y, C)
  BY <1>4, ConsentKept DEF Trims, SameKey
<1>5. Consented(Migrate(db), C)
  BY <1>1, <1>2, MigrateEnds
<1>6. ASSUME NEW c \in puts,
             db' = Put(db, c.principal, c.installation, c.body, now)
      PROVE  Consented(db', C)
  <2> DEFINE f == Proposed(db, c.principal, c.installation, c.body, now)
  <2>1. c.principal \in Principal /\ c.installation \in Installation /\ c.body \in Body
    BY <1>1 DEF TypeOK, PutCall
  <2>2. db' = Prune(f, now)
    BY <1>6 DEF Put, Proposed
  <2>3. Consistent(f) /\ Renews(db, f, c.installation)
    BY <1>1, <2>1, ProposedRenews, ProposedConsistent
  <2> HIDE DEF f
  <2>4. Sound(f) /\ Consented(f, C)
    BY <1>1, <2>1, <2>3, RenewsSound, RenewsConsented
  <2>5. Trims(f, db')
    BY <2>2, <2>3, <2>4, PruneTrims
  <2> QED  BY <1>4, <2>4, <2>5
<1>7. ASSUME NEW c \in confirms,
             ConfirmAllowed(db, c.principal, c.installation, c.generation, c.secret,
                            c.policy, durable, now),
             db' = Confirm(db, c.installation)
      PROVE  Consented(db', C)
  <2>1. c.installation \in Installation /\ db.reg[c.installation].status = "pending"
    BY <1>1, <1>7 DEF TypeOK, ConfirmCall, ConfirmAllowed
  <2>2. Ends(db, db', {c.installation})
    BY <1>1, <1>7, <2>1, ConfirmEnds
  <2> QED  BY <1>2, <2>2
<1>8. ASSUME NEW p \in Principal, NEW i \in Installation, db' = Revoke(db, p, i)
      PROVE  Consented(db', C)
  <2>1. db' = db \/ Ends(db, db', {i})
    BY <1>1, <1>8, RevokeEnds
  <2> QED  BY <1>2, <2>1
<1>9. ASSUME RecordsEvent
      PROVE  Consented(db', C)
  <2>1. PICK ev \in HookEvent, targets \in Targets, pol \in Policy, expires \in Nat :
          /\ Waiting(ev, targets)
          /\ \E order \in ScanOrders(Recipients(db, ev, targets, pol)) :
               db' = Record(db, ev, targets, pol, order, expires, now)
    BY <1>9 DEF RecordsEvent
  <2>2. PICK order \in ScanOrders(Recipients(db, ev, targets, pol)) :
          db' = Record(db, ev, targets, pol, order, expires, now)
    BY <2>1
  <2>3. \A i \in Installation : targets[i] # 0 =>
          [event |-> ev, installation |-> i, generation |-> targets[i]] \in C
    BY <2>1
  <2> QED  BY <1>1, <2>2, <2>3, RecordConsented
<1>10. ASSUME NEW j \in db.outbox,
              db' \in {DropJob(db, j), SettleJob(db, j), RetryJob(db, j, now),
                       RevokeIn(db, j.installation)}
       PROVE  Consented(db', C)
  <2>1. Consented(RevokeIn(db, j.installation), C)
    <3>1. j.installation \in Installation
      BY <1>1 DEF Consistent, DB, Job
    <3>2. Ends(db, RevokeIn(db, j.installation), {j.installation})
      BY <1>1, <3>1, RevokeInEnds
    <3> QED  BY <1>2, <3>2
  <2>2. \A f \in {DropJob(db, j), SettleJob(db, j), RetryJob(db, j, now)} : Moves(db, f)
    BY <1>1, DropJobMoves, SettleJobMoves, RetryJobMoves
  <2> QED  BY <1>3, <1>10, <2>1, <2>2
<1>11. Consented(BeforeClaim(db, now), C)
  <2> DEFINE e == Prune(db, now)
  <2>1. Consistent(e) /\ Sound(e) /\ Trims(db, e)
    BY <1>1, PruneTransacts, PruneTrims DEF Transacts
  <2>2. BeforeClaim(db, now) = CloseExhausted(e, now)
    BY DEF BeforeClaim
  <2> HIDE DEF e
  <2>3. Moves(e, CloseExhausted(e, now))
    BY <2>1, CloseExhaustedMoves
  <2> QED  BY <1>3, <1>4, <2>1, <2>2, <2>3
<1>12. ASSUME NEW r \in Runtime, Claims(r)
       PROVE  Consented(db', C)
  <2> DEFINE e == BeforeClaim(db, now)
  <2>1. PICK j \in OldestDue(e, now) : db' = ClaimRow(e, j, r, now)
    BY <1>12 DEF Claims
  <2>2. j \in e.outbox /\ j.attempts < MaxAttempts
    BY DEF OldestDue, Due
  <2>3. Consistent(e) /\ Sound(e)
    BY <1>1, BeforeClaimTransacts DEF Transacts
  <2> HIDE DEF e
  <2>4. Moves(e, ClaimRow(e, j, r, now))
    BY <2>2, <2>3, ClaimRowMoves
  <2>5. Consented(e, C)
    BY <1>11 DEF e
  <2> QED  BY <1>3, <2>1, <2>4, <2>5
<1> QED  BY <1>5, <1>6, <1>7, <1>8, <1>9, <1>10, <1>11, <1>12 DEF Writes

LEMMA ItemSteps ==
  ASSUME TypedInv, [Next]_vars, NEW q \in Runtime, NEW x \in rt'[q].item
  PROVE  x \in rt[q].item \/ x \in inbox
<1> USE DEF storeVars, operatorVars, apiVars, historyVars
<1>1. rt \in [Runtime -> Worker]
  BY DEF TypedInv, TypeOK
<1>2. CASE ApiStep \/ ObserverStep \/ OperatorStep \/ Tick \/ UNCHANGED vars
  <2>1. rt' = rt
    BY <1>2 DEF ApiStep, OpenStore, SubmitPut, CommitPut, SubmitConfirm,
                CommitConfirm, AbandonPut, AbandonConfirm, RevokeRegistration,
                ObserverStep, HookBegin, HookSkip, HookRun, HookCapture, HookPeek,
                HookWrite, HookBusy, HookQueue, HookFail, observerUnchanged,
                OperatorStep, ChangePolicy, ChangeDurable, Tick, vars
  <2> QED  BY <2>1
<1>3. ASSUME NEW r \in Runtime, NEW w, Goto(r, w),
             w.item \subseteq rt[r].item \cup inbox
      PROVE  x \in rt[q].item \/ x \in inbox
  BY <1>1, <1>3 DEF Goto
<1>4. ASSUME NEW r \in Runtime,
             Start(r) \/ Stop(r) \/ WorkerRun(r) \/ Crash(r)
      PROVE  \E w : Goto(r, w) /\ w.item \subseteq rt[r].item \cup inbox
  <2>1. rt[r] \in Worker
    BY <1>1
  <2>2. /\ DownWorker.item = {} /\ [DownWorker EXCEPT !.pc = "idle"].item = {}
        /\ Idle(r).item = {}
    BY DEF DownWorker, Idle
  <2>3. CASE \/ Start(r) \/ Exit(r) \/ LostLease(r) \/ DropUnpermitted(r)
             \/ FinishSend(r) \/ WorkerBusy(r) \/ Crash(r)
    <3>1. \/ Goto(r, DownWorker) \/ Goto(r, Idle(r))
          \/ Goto(r, [DownWorker EXCEPT !.pc = "idle"])
      BY <2>3 DEF Start, Exit, LostLease, DropUnpermitted, FinishSend, SendAccepted,
                  SendRejected, SendGone, SendFailed, WorkerBusy, Crash
    <3> QED  BY <2>2, <3>1
  <2>4. CASE Stop(r)
    <3>1. [rt[r] EXCEPT !.stopping = TRUE].item = rt[r].item
      BY <2>1 DEF Worker
    <3> QED  BY <2>4, <3>1 DEF Stop
  <2>5. CASE BeginPass(r)
    <3>1. [rt[r] EXCEPT !.pc = "drain", !.policy = policy].item = rt[r].item
      BY <2>1 DEF Worker
    <3> QED  BY <2>5, <3>1 DEF BeginPass
  <2>6. CASE DrainPeek(r)
    <3> DEFINE peeked(y) ==
                 [rt[r] EXCEPT !.item = {y},
                    !.pc = IF y.expires > now /\ y.event.session \in durable
                           THEN "store" ELSE "remove"]
    <3>1. /\ [rt[r] EXCEPT !.pc = "check"].item = rt[r].item
          /\ \A y : peeked(y).item = {y}
      BY <2>1 DEF Worker
    <3>2. \/ Goto(r, [rt[r] EXCEPT !.pc = "check"])
          \/ \E y \in inbox : Goto(r, peeked(y))
      BY <2>6 DEF DrainPeek
    <3> HIDE DEF peeked
    <3>3. CASE Goto(r, [rt[r] EXCEPT !.pc = "check"])
      BY <3>1, <3>3
    <3>4. CASE \E y \in inbox : Goto(r, peeked(y))
      <4>1. PICK y \in inbox : Goto(r, peeked(y))
        BY <3>4
      <4> QED  BY <3>1, <4>1
    <3> QED  BY <3>2, <3>3, <3>4
  <2>7. CASE DrainStore(r)
    <3>1. [rt[r] EXCEPT !.pc = "remove"].item = rt[r].item
      BY <2>1 DEF Worker
    <3> QED  BY <2>7, <3>1 DEF DrainStore
  <2>8. CASE DrainRemove(r)
    <3>1. [rt[r] EXCEPT !.pc = "drain", !.item = {}, !.moved = @ + 1].item = {}
      BY <2>1 DEF Worker
    <3>2. Goto(r, [rt[r] EXCEPT !.pc = "drain", !.item = {}, !.moved = @ + 1])
      BY <2>8 DEF DrainRemove
    <3> QED  BY <3>1, <3>2
  <2>9. CASE CheckInbox(r)
    <3>1. [rt[r] EXCEPT !.pc = "claim"].item = rt[r].item
      BY <2>1 DEF Worker
    <3>2. Goto(r, [rt[r] EXCEPT !.pc = "claim"]) \/ Goto(r, Idle(r))
      BY <2>9 DEF CheckInbox
    <3> QED  BY <2>2, <3>1, <3>2
  <2>10. CASE ClaimJob(r)
    <3>1. \A n : [rt[r] EXCEPT !.pc = "leased", !.job = n].item = rt[r].item
      BY <2>1 DEF Worker
    <3>2. Goto(r, Idle(r)) \/ \E n : Goto(r, [rt[r] EXCEPT !.pc = "leased", !.job = n])
      BY <2>10 DEF ClaimJob
    <3> QED  BY <2>2, <3>1, <3>2
  <2>11. CASE BeginSend(r)
    <3>1. [rt[r] EXCEPT !.pc = "sending"].item = rt[r].item
      BY <2>1 DEF Worker
    <3> QED  BY <2>11, <3>1 DEF BeginSend
  <2> QED  BY <1>4, <2>3, <2>4, <2>5, <2>6, <2>7, <2>8, <2>9, <2>10, <2>11
        DEF WorkerRun
<1>5. CASE WorkerStep
  BY <1>3, <1>4, <1>5 DEF WorkerStep
<1> QED  BY <1>2, <1>5 DEF Next

Underway == {"targeted", "write", "queue"}

\* Capturing, of a set of captures named.
Covered(ev, t, C) ==
  \A i \in Installation : t[i] # 0 =>
    [event |-> ev, installation |-> i, generation |-> t[i]] \in C

LEMMA HookSteps ==
  ASSUME TypedInv, [Next]_vars
  PROVE  /\ captured \subseteq captured'
         /\ \A h \in Hook : hook'[h].pc \in Underway =>
              \/ Covered(hook'[h].event, hook'[h].targets, captured')
              \/ /\ hook[h].pc \in Underway
                 /\ hook'[h].event = hook[h].event
                 /\ hook'[h].targets = hook[h].targets
<1> USE DEF storeVars, operatorVars, apiVars, historyVars
<1>1. hook \in [Hook -> Observer]
  BY DEF TypedInv, TypeOK
<1>2. ASSUME captured' = captured,
             \A h \in Hook : \/ hook'[h] = hook[h]
                             \/ hook'[h].pc \notin Underway
      PROVE  /\ captured \subseteq captured'
             /\ \A h \in Hook : hook'[h].pc \in Underway =>
                  /\ hook[h].pc \in Underway
                  /\ hook'[h].event = hook[h].event
                  /\ hook'[h].targets = hook[h].targets
  BY <1>2
<1>3. CASE ApiStep \/ OperatorStep \/ Tick \/ UNCHANGED vars
  <2>1. hook' = hook /\ captured' = captured
    BY <1>3 DEF ApiStep, OpenStore, SubmitPut, CommitPut, SubmitConfirm,
                CommitConfirm, AbandonPut, AbandonConfirm, RevokeRegistration,
                OperatorStep, ChangePolicy, ChangeDurable, Tick, vars
  <2> QED  BY <2>1
<1>4. [NewObserver EXCEPT !.pc = "done"].pc = "done"
  BY DEF NewObserver
<1>5. CASE WorkerStep
  <2>1. /\ captured' = captured
        /\ \/ hook' = hook
           \/ \E r \in Runtime :
                hook' = [h \in Hook |->
                           IF hook[h].runtime = r THEN [NewObserver EXCEPT !.pc = "done"]
                           ELSE hook[h]]
    BY <1>5 DEF WorkerStep, WorkerRun, FinishSend, workerUnchanged, Start, Stop, Exit,
              BeginPass, DrainPeek, DrainStore, DrainRemove, CheckInbox, ClaimJob,
              LostLease, DropUnpermitted, BeginSend, SendAccepted, SendRejected,
              SendGone, SendFailed, WorkerBusy, Crash
  <2>2. \A h \in Hook : hook'[h] = hook[h] \/ hook'[h].pc \notin Underway
    BY <1>4, <2>1 DEF Underway
  <2> QED  BY <1>2, <2>1, <2>2
<1>6. ASSUME NEW h \in Hook,
             \/ \E r \in Runtime, ev \in HookCalls : HookBegin(h, r, ev)
             \/ \E r \in Runtime, ev \in HookCalls : HookSkip(h, r, ev)
             \/ HookWrite(h) \/ HookQueue(h) \/ HookFail(h)
      PROVE  /\ captured' = captured
             /\ \A k \in Hook : hook'[k] = hook[k] \/ hook'[k].pc \notin Underway
  <2>1. captured' = captured
    BY <1>6 DEF HookBegin, HookSkip, HookWrite, HookQueue, HookFail
  <2>2. \A p, r, ev : [NewObserver EXCEPT !.pc = "read", !.runtime = r, !.event = ev,
                                          !.policy = p].pc = "read"
    BY DEF NewObserver
  <2>3. [hook[h] EXCEPT !.pc = "done"].pc = "done"
    BY <1>1 DEF Observer
  <2>4. \E o : o.pc \notin Underway /\ hook' = [hook EXCEPT ![h] = o]
    BY <1>4, <1>6, <2>2, <2>3
       DEF HookBegin, HookSkip, HookWrite, HookQueue, HookFail, Finished, Underway
  <2>5. \A k \in Hook : hook'[k] = hook[k] \/ hook'[k].pc \notin Underway
    BY <1>1, <2>4
  <2> QED  BY <2>1, <2>5
<1>7. ASSUME NEW h \in Hook, HookPeek(h) \/ HookBusy(h)
      PROVE  /\ captured' = captured
             /\ \A k \in Hook : hook'[k].pc \in Underway =>
                  /\ hook[k].pc \in Underway
                  /\ hook'[k].event = hook[k].event
                  /\ hook'[k].targets = hook[k].targets
  <2>1. captured' = captured /\ hook[h].pc \in Underway
    BY <1>7 DEF HookPeek, HookBusy, Underway
  <2>2. PICK pc : hook' = [hook EXCEPT ![h].pc = pc]
    BY <1>7 DEF HookPeek, HookBusy
  <2>3. /\ hook'[h].event = hook[h].event /\ hook'[h].targets = hook[h].targets
        /\ \A k \in Hook \ {h} : hook'[k] = hook[k]
    BY <1>1, <2>2 DEF Observer
  <2> QED  BY <2>1, <2>3
<1>8. ASSUME NEW h \in Hook, HookCapture(h)
      PROVE  /\ captured \subseteq captured'
             /\ Covered(hook'[h].event, hook'[h].targets, captured')
             /\ \A k \in Hook \ {h} : hook'[k] = hook[k]
  <2> DEFINE t == CaptureTargets(db, hook[h].event, hook[h].policy)
  <2>1. /\ hook' = [hook EXCEPT ![h].pc = "targeted", ![h].targets = t]
        /\ captured' = captured \cup
             {[event |-> hook[h].event, installation |-> i, generation |-> t[i]] :
                i \in {k \in Installation : t[k] # 0}}
    BY <1>8 DEF HookCapture
  <2> HIDE DEF t
  <2>2. /\ hook'[h].event = hook[h].event /\ hook'[h].targets = t
        /\ \A k \in Hook \ {h} : hook'[k] = hook[k]
    BY <1>1, <2>1 DEF Observer
  <2>3. Covered(hook[h].event, t, captured')
    BY <2>1 DEF Covered
  <2> QED  BY <2>1, <2>2, <2>3
<1>9. CASE ObserverStep
  BY <1>2, <1>6, <1>7, <1>8, <1>9 DEF ObserverStep, HookRun
<1> QED  BY <1>3, <1>5, <1>9 DEF Next

LEMMA CaptureStep ==
  ASSUME HistoryInv, TargetsCaptured, QueuedWasCaptured, [Next]_vars
  PROVE  TargetsCaptured' /\ QueuedWasCaptured'
<1>1. TypedInv /\ Sound(db)
  BY DEF HistoryInv, PushInv
<1>2. /\ captured \subseteq captured'
      /\ \A h \in Hook : hook'[h].pc \in Underway =>
           \/ Covered(hook'[h].event, hook'[h].targets, captured')
           \/ /\ hook[h].pc \in Underway
              /\ hook'[h].event = hook[h].event
              /\ hook'[h].targets = hook[h].targets
  BY <1>1, HookSteps
<1>3. \A ev, t : Capturing(ev, t) => Covered(ev, t, captured')
  BY <1>2 DEF Capturing, Covered
<1>4. TargetsCaptured'
  <2>1. \A h \in Hook : hook'[h].pc \in Underway =>
          Covered(hook'[h].event, hook'[h].targets, captured')
    <3>1. \A h \in Hook : hook[h].pc \in Underway =>
            Covered(hook[h].event, hook[h].targets, captured')
      BY <1>3 DEF TargetsCaptured, Underway
    <3> QED  BY <1>2, <3>1
  <2>2. \A x \in inbox' : Covered(x.event, x.targets, captured')
    <3>1. \A x \in inbox : Covered(x.event, x.targets, captured')
      BY <1>3 DEF TargetsCaptured
    <3>2. ASSUME NEW h \in Hook, HookQueue(h), NEW x \in inbox', x \notin inbox
          PROVE  Covered(x.event, x.targets, captured')
      <4> DEFINE live == {y \in inbox : y.expires > now}
      <4> DEFINE item == [id |-> inboxSeq + 1, event |-> hook[h].event,
                          targets |-> hook[h].targets, expires |-> now + TTL]
      <4>0. inbox' = NewestItems(live) \/ inbox' = NewestItems(live \cup {item})
        BY <3>2 DEF HookQueue, InboxPut
      <4>1. x.event = hook[h].event /\ x.targets = hook[h].targets
        <5>1. item.event = hook[h].event /\ item.targets = hook[h].targets
          OBVIOUS
        <5>2. live \subseteq inbox
          OBVIOUS
        <5> HIDE DEF live, item
        <5>3. x \in live \cup {item}
          BY <3>2, <4>0 DEF NewestItems
        <5> QED  BY <3>2, <5>1, <5>2, <5>3
      <4>2. Capturing(hook[h].event, hook[h].targets)
        BY <3>2 DEF HookQueue, TargetsCaptured
      <4> QED  BY <1>3, <4>1, <4>2
    <3> QED  BY <3>1, <3>2, InboxSteps
  <2>3. \A r \in Runtime : \A x \in rt'[r].item : Covered(x.event, x.targets, captured')
    <3> SUFFICES ASSUME NEW r \in Runtime, NEW x \in rt'[r].item
                 PROVE  Covered(x.event, x.targets, captured')
      OBVIOUS
    <3>1. x \in rt[r].item \/ x \in inbox
      BY <1>1, ItemSteps
    <3>2. Capturing(x.event, x.targets)
      BY <3>1 DEF TargetsCaptured
    <3> QED  BY <1>3, <3>2
  <2> QED  BY <2>1, <2>2, <2>3 DEF TargetsCaptured, Underway, Capturing, Covered
<1>5. QueuedWasCaptured'
  <2>1. Consented(db, captured')
    BY <1>2 DEF QueuedWasCaptured, Consented
  <2>2. \A ev, t : Waiting(ev, t) => Capturing(ev, t)
    BY DEF Waiting, TargetsCaptured
  <2>3. \A ev, t : Waiting(ev, t) =>
          \A i \in Installation : t[i] # 0 =>
            [event |-> ev, installation |-> i, generation |-> t[i]] \in captured'
    BY <1>3, <2>2 DEF Covered
  <2>4. Consented(db', captured')
    BY <1>1, <2>1, <2>3, StoreWrites, WritesConsented
  <2> QED  BY <2>4 DEF QueuedWasCaptured, Consented
<1> QED  BY <1>4, <1>5

\* However long an event waits in a callback, the inbox or a worker, and
\* whatever is granted or registered meanwhile, it is queued only for the
\* generations that were its targets when it happened (Store.targets, record).
\* The histories begin with the server: the file it finds has no event queued.
THEOREM QueuedStaysCaptured ==
  ASSUME FirstFileQuiet
  PROVE  Spec => []QueuedWasCaptured
<1>1. Init => TargetsCaptured /\ QueuedWasCaptured
  <2> SUFFICES ASSUME Init
               PROVE  TargetsCaptured /\ QueuedWasCaptured
    OBVIOUS
  <2>1. TargetsCaptured
    BY DEF Init, TargetsCaptured, NewObserver, DownWorker
  <2>2. Consistent(db) /\ Sound(db) /\ db \in InitialDBs
    BY StateAssumption DEF Init
  <2>3. \A j \in db.outbox : db.reg[j.installation].status = "pending"
    <3> SUFFICES ASSUME NEW j \in db.outbox
                 PROVE  db.reg[j.installation].status = "pending"
      OBVIOUS
    <3>1. HintFits(db.reg[j.installation], j.hint)
      BY <2>2 DEF Consistent, QueueCurrent
    <3>2. db.reg[j.installation].status # "active"
      BY <2>2, FirstFileQuiet DEF FirstFileQuiet
    <3> QED  BY <3>1, <3>2 DEF HintFits
  <2>4. QueuedWasCaptured
    BY <2>2, <2>3 DEF QueuedWasCaptured, Sound, ChallengesFit
  <2> QED  BY <2>1, <2>4
<1>2. HistoryInv /\ TargetsCaptured /\ QueuedWasCaptured /\ [Next]_vars
        => TargetsCaptured' /\ QueuedWasCaptured'
  BY CaptureStep
<1> QED  BY <1>1, <1>2, HistoryInvariant, PTL DEF Spec

=============================================================================
