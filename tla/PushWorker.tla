----------------------------- MODULE PushWorker -----------------------------
(***************************************************************************)
(* The delivery thread of a plugin runtime (Runtime.run and deliver_one in *)
(* server/mobile-push/mobile_push/service.py) and the runtime's lifecycle  *)
(* (register in server/mobile-push/__init__.py, Runtime.stop).  A pass     *)
(* moves the inbox into the store, leases one row, and sends its hint      *)
(* inside a second transaction that stays open during the HTTP exchange.   *)
(***************************************************************************)
EXTENDS PushState

workerUnchanged == UNCHANGED <<inboxSeq, operatorVars, now, apiVars, hook, captured>>

\* deliver_one returned or raised; the loop of run calls it again.
Idle(r) == [DownWorker EXCEPT !.pc = "idle", !.stopping = rt[r].stopping]

Goto(r, w) == rt' = [rt EXCEPT ![r] = w]

\* register: nothing is acquired while the operator has push disabled.
Start(r) ==
  /\ rt[r].pc = "down"
  /\ policy.readable /\ policy.enabled
  /\ ~ Locked
  /\ db' = Migrate(db)
  /\ Goto(r, [DownWorker EXCEPT !.pc = "idle"])
  /\ UNCHANGED <<inbox, wire, accepted>>
  /\ workerUnchanged

Stop(r) ==
  /\ rt[r].pc # "down"
  /\ ~ rt[r].stopping
  /\ Goto(r, [rt[r] EXCEPT !.stopping = TRUE])
  /\ UNCHANGED <<db, inbox, wire, accepted>>
  /\ workerUnchanged

Exit(r) ==
  /\ rt[r].pc = "idle"
  /\ rt[r].stopping
  /\ Goto(r, DownWorker)
  /\ UNCHANGED <<db, inbox, wire, accepted>>
  /\ workerUnchanged

BeginPass(r) ==
  /\ rt[r].pc = "idle"
  /\ ~ rt[r].stopping
  /\ policy.readable /\ policy.enabled
  /\ Goto(r, [rt[r] EXCEPT !.pc = "drain", !.policy = policy])
  /\ UNCHANGED <<db, inbox, wire, accepted>>
  /\ workerUnchanged

\* (slip: an item that is not recorded is not removed either)
DrainPeekKeeping(r) ==
  /\ rt[r].pc = "drain"
  /\ IF inbox = {} \/ rt[r].moved >= DrainLimit
     THEN Goto(r, [rt[r] EXCEPT !.pc = "check"])
     ELSE \E x \in inbox :
            /\ \A y \in inbox : x.id <= y.id
            /\ Goto(r, IF x.expires > now /\ x.event.session \in durable
                       THEN [rt[r] EXCEPT !.item = {x}, !.pc = "store"]
                       ELSE [rt[r] EXCEPT !.moved = @ + 1])
  /\ UNCHANGED <<db, inbox, wire, accepted>>
  /\ workerUnchanged

\* The inbox row with the lowest id; an expired one, or one whose session is
\* gone, is removed without being recorded.
DrainPeek(r) ==
  /\ rt[r].pc = "drain"
  /\ IF inbox = {} \/ rt[r].moved >= DrainLimit
     THEN Goto(r, [rt[r] EXCEPT !.pc = "check"])
     ELSE \E x \in inbox :
            /\ \A y \in inbox : x.id <= y.id
            /\ Goto(r, [rt[r] EXCEPT !.item = {x},
                          !.pc = IF x.expires > now /\ x.event.session \in durable
                                 THEN "store" ELSE "remove"])
  /\ UNCHANGED <<db, inbox, wire, accepted>>
  /\ workerUnchanged

DrainStore(r) ==
  /\ rt[r].pc = "store"
  /\ ~ Locked
  /\ \E x \in rt[r].item :
       LET R == Recipients(db, x.event, x.targets, rt[r].policy)
       IN  \E order \in ScanOrders(R) :
             db' = Record(db, x.event, x.targets, rt[r].policy, order,
                          x.expires, now)
  /\ Goto(r, [rt[r] EXCEPT !.pc = "remove"])
  /\ UNCHANGED <<inbox, wire, accepted>>
  /\ workerUnchanged

DrainRemove(r) ==
  /\ rt[r].pc = "remove"
  /\ inbox' = {x \in inbox : \A y \in rt[r].item : x.id # y.id}
  /\ Goto(r, [rt[r] EXCEPT !.pc = "drain", !.item = {}, !.moved = @ + 1])
  /\ UNCHANGED <<db, wire, accepted>>
  /\ workerUnchanged

\* Queued resolutions come before any send.
CheckInbox(r) ==
  /\ rt[r].pc = "check"
  /\ Goto(r, IF inbox = {} THEN [rt[r] EXCEPT !.pc = "claim"] ELSE Idle(r))
  /\ UNCHANGED <<db, inbox, wire, accepted>>
  /\ workerUnchanged

ClaimJob(r) ==
  /\ rt[r].pc = "claim"
  /\ ~ Locked
  /\ LET e == BeforeClaim(db, now)
     IN  \/ /\ Due(e, now) = {}
            /\ db' = e
            /\ Goto(r, Idle(r))
         \/ \E j \in OldestDue(e, now) :
              /\ db' = ClaimRow(e, j, r, now)
              /\ Goto(r, [rt[r] EXCEPT !.pc = "leased", !.job = j.id])
  /\ UNCHANGED <<inbox, wire, accepted>>
  /\ workerUnchanged

-----------------------------------------------------------------------------
(* The second transaction: from the lease to the outcome *)

\* The row this runtime's claim still owns: SELECT by id, token and done.
LeasedRow(r) ==
  {j \in db.outbox : j.id = rt[r].job /\ j.token = r /\ ~ j.done}

\* Runtime._permitted, with the policy, consent and scope of this moment.
Permitted(r, j) ==
  LET row == db.reg[j.installation]
  IN  /\ ~ rt[r].stopping
      /\ policy.enabled
      /\ row.generation = j.generation
      /\ Admitted(policy, row.owner)
      /\ \E e \in db.events :
           /\ e.cursor = j.event
           /\ ~ e.cancelled
           /\ e.expires > now
           /\ IF e.kind = "challenge"
              THEN row.status = "pending" /\ ScopeReady(row.scope, row.owner, policy, durable)
              ELSE /\ row.status = "active"
                   /\ e.kind \in row.kinds
                   /\ ScopeAllows(row.scope, row.owner, e.session, policy)
                   /\ e.session \in durable

LostLease(r) ==
  /\ rt[r].pc = "leased"
  /\ ~ Locked
  /\ LeasedRow(r) = {} \/ ~ policy.readable
  /\ Goto(r, Idle(r))
  /\ UNCHANGED <<db, inbox, wire, accepted>>
  /\ workerUnchanged

DropUnpermitted(r) ==
  /\ rt[r].pc = "leased"
  /\ ~ Locked
  /\ policy.readable
  /\ \E j \in LeasedRow(r) : ~ Permitted(r, j) /\ db' = DropJob(db, j)
  /\ Goto(r, Idle(r))
  /\ UNCHANGED <<inbox, wire, accepted>>
  /\ workerUnchanged

SendsOf(j) ==
  {w \in wire : /\ w.event = j.event
                /\ w.installation = j.installation
                /\ w.generation = j.generation}

SentBy(j) ==
  [event |-> j.event, kind |-> j.hint, installation |-> j.installation,
   generation |-> j.generation, endpoint |-> db.reg[j.installation].endpoint,
   nth |-> Cardinality(SendsOf(j)) + 1]

\* (slip: the send is not made inside a transaction)
BeginSendUnlocked(r) ==
  /\ rt[r].pc = "leased"
  /\ policy.readable
  /\ \E j \in LeasedRow(r) : Permitted(r, j) /\ wire' = wire \cup {SentBy(j)}
  /\ Goto(r, [rt[r] EXCEPT !.pc = "sending"])
  /\ UNCHANGED <<db, inbox, accepted>>
  /\ workerUnchanged

BeginSend(r) ==
  /\ rt[r].pc = "leased"
  /\ ~ Locked
  /\ policy.readable
  /\ \E j \in LeasedRow(r) : Permitted(r, j) /\ wire' = wire \cup {SentBy(j)}
  /\ Goto(r, [rt[r] EXCEPT !.pc = "sending"])
  /\ UNCHANGED <<db, inbox, accepted>>
  /\ workerUnchanged

\* 200..202: done.
SendAccepted(r) ==
  /\ rt[r].pc = "sending"
  /\ \E j \in LeasedRow(r) :
       /\ db' = SettleJob(db, j)
       /\ accepted' = accepted \cup
            {[event |-> j.event, installation |-> j.installation,
              generation |-> j.generation]}
  /\ Goto(r, Idle(r))
  /\ UNCHANGED <<inbox, wire>>
  /\ workerUnchanged

\* Another 4xx, or an endpoint that no longer validates: permanent.
SendRejected(r) ==
  /\ rt[r].pc = "sending"
  /\ \E j \in LeasedRow(r) : db' = SettleJob(db, j)
  /\ Goto(r, Idle(r))
  /\ UNCHANGED <<inbox, wire, accepted>>
  /\ workerUnchanged

\* 404 or 410: the subscription is gone.
SendGone(r) ==
  /\ rt[r].pc = "sending"
  /\ \E j \in LeasedRow(r) : db' = RevokeIn(db, j.installation)
  /\ Goto(r, Idle(r))
  /\ UNCHANGED <<inbox, wire, accepted>>
  /\ workerUnchanged

\* 408, 429, 5xx, other statuses, timeouts and network errors: try later.
SendFailed(r) ==
  /\ rt[r].pc = "sending"
  /\ \E j \in LeasedRow(r) : db' = RetryJob(db, j, now)
  /\ Goto(r, Idle(r))
  /\ UNCHANGED <<inbox, wire, accepted>>
  /\ workerUnchanged

FinishSend(r) ==
  SendAccepted(r) \/ SendRejected(r) \/ SendGone(r) \/ SendFailed(r)

\* SQLITE_BUSY raises out of deliver_one; what was leased stays leased.
WorkerBusy(r) ==
  /\ rt[r].pc \in {"store", "claim", "leased"}
  /\ Locked
  /\ Goto(r, Idle(r))
  /\ UNCHANGED <<db, inbox, wire, accepted>>
  /\ workerUnchanged

\* What the thread does when it is scheduled.
WorkerRun(r) ==
  \/ Exit(r) \/ BeginPass(r)
  \/ DrainPeek(r) \/ DrainStore(r) \/ DrainRemove(r)
  \/ CheckInbox(r) \/ ClaimJob(r)
  \/ LostLease(r) \/ DropUnpermitted(r) \/ BeginSend(r)
  \/ FinishSend(r) \/ WorkerBusy(r)

\* The process dies: an open transaction rolls back, callbacks are forgotten.
Crash(r) ==
  /\ rt[r].pc # "down"
  /\ Goto(r, DownWorker)
  /\ hook' = [h \in Hook |->
                IF hook[h].runtime = r THEN [NewObserver EXCEPT !.pc = "done"]
                ELSE hook[h]]
  /\ UNCHANGED <<storeVars, operatorVars, now, apiVars, historyVars>>

WorkerStep ==
  \E r \in Runtime : Start(r) \/ Stop(r) \/ WorkerRun(r) \/ Crash(r)

=============================================================================
