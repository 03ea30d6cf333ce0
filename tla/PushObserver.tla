---------------------------- MODULE PushObserver ----------------------------
(***************************************************************************)
(* The agent's observer callbacks (Runtime._record and its callers in      *)
(* server/mobile-push/mobile_push/service.py) and the inbox they fall back *)
(* on while a send holds the store (inbox.py).  A callback runs on an      *)
(* agent thread of some process; it decides who may hear of its event when *)
(* it is invoked, and may write long after that.                           *)
(***************************************************************************)
EXTENDS PushState

observerUnchanged == UNCHANGED <<operatorVars, now, apiVars, rt, wire, accepted>>

\* Runtime.session_end and human_input hand a callback to _record, which does
\* nothing once its runtime is stopping.
Invocable(r) == rt[r].pc # "down" /\ ~ rt[r].stopping

HookAdmits(ev) == policy.readable /\ policy.enabled /\ ev.session \in durable

HookBegin(h, r, ev) ==
  /\ hook[h].pc = "todo"
  /\ Invocable(r)
  /\ HookAdmits(ev)
  /\ hook' = [hook EXCEPT ![h] = [NewObserver EXCEPT
                !.pc = "read", !.runtime = r, !.event = ev, !.policy = policy]]
  /\ UNCHANGED <<storeVars, captured>>
  /\ observerUnchanged

\* The event is nobody's: disabled, unreadable or not a durable session.
HookSkip(h, r, ev) ==
  /\ hook[h].pc = "todo"
  /\ Invocable(r)
  /\ ~ HookAdmits(ev)
  /\ hook' = [hook EXCEPT ![h].pc = "done"]
  /\ UNCHANGED <<storeVars, captured>>
  /\ observerUnchanged

\* Store.targets, a read that a send does not block.
HookCapture(h) ==
  /\ hook[h].pc = "read"
  /\ LET targets == CaptureTargets(db, hook[h].event, hook[h].policy)
     IN  /\ hook' = [hook EXCEPT ![h].pc = "targeted", ![h].targets = targets]
         /\ captured' = captured \cup
              {[event |-> hook[h].event, installation |-> i,
                generation |-> targets[i]] :
               i \in {k \in Installation : targets[k] # 0}}
  /\ UNCHANGED storeVars
  /\ observerUnchanged

\* Stay behind events that are already waiting.
HookPeek(h) ==
  /\ hook[h].pc = "targeted"
  /\ hook' = [hook EXCEPT ![h].pc = IF inbox = {} THEN "write" ELSE "queue"]
  /\ UNCHANGED <<storeVars, captured>>
  /\ observerUnchanged

Finished(h) == [hook EXCEPT ![h] = [NewObserver EXCEPT !.pc = "done"]]

HookWrite(h) ==
  /\ hook[h].pc = "write"
  /\ ~ Locked
  /\ LET R == Recipients(db, hook[h].event, hook[h].targets, hook[h].policy)
     IN  \E order \in ScanOrders(R) :
           db' = Record(db, hook[h].event, hook[h].targets, hook[h].policy, order,
                        now + TTL, now)
  /\ hook' = Finished(h)
  /\ UNCHANGED <<inbox, inboxSeq, captured>>
  /\ observerUnchanged

\* SQLITE_BUSY: a send is in flight.
HookBusy(h) ==
  /\ hook[h].pc = "write"
  /\ Locked
  /\ hook' = [hook EXCEPT ![h].pc = "queue"]
  /\ UNCHANGED <<storeVars, captured>>
  /\ observerUnchanged

NewestItems(I) ==
  {x \in I : Cardinality({y \in I : y.id > x.id}) < MaxEvents}

\* Inbox.put
InboxPut(event, targets) ==
  LET live == {x \in inbox : x.expires > now}
      item == [id |-> inboxSeq + 1, event |-> event, targets |-> targets,
               expires |-> now + TTL]
  IN  IF \E x \in live : x.event = event
      THEN inbox' = NewestItems(live) /\ UNCHANGED inboxSeq
      ELSE inbox' = NewestItems(live \cup {item}) /\ inboxSeq' = inboxSeq + 1

HookQueue(h) ==
  /\ hook[h].pc = "queue"
  /\ InboxPut(hook[h].event, hook[h].targets)
  /\ hook' = Finished(h)
  /\ UNCHANGED <<db, captured>>
  /\ observerUnchanged

\* Any other error of SQLite or the file system is logged: the event is lost.
HookFail(h) ==
  /\ hook[h].pc \notin {"todo", "done"}
  /\ hook' = Finished(h)
  /\ UNCHANGED <<storeVars, captured>>
  /\ observerUnchanged

HookRun(h) ==
  \/ HookCapture(h)
  \/ HookPeek(h)
  \/ HookWrite(h)
  \/ HookBusy(h)
  \/ HookQueue(h)

ObserverStep ==
  \E h \in Hook :
    \/ \E r \in Runtime, ev \in HookCalls : HookBegin(h, r, ev)
    \/ \E r \in Runtime, ev \in HookCalls : HookSkip(h, r, ev)
    \/ HookRun(h)
    \/ HookFail(h)

=============================================================================
