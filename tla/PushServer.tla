----------------------------- MODULE PushServer -----------------------------
(***************************************************************************)
(* The mobile-push server: HTTP handlers, observer callbacks and delivery  *)
(* threads of several processes on one store, an operator who edits the    *)
(* policy, sessions that appear and disappear, and the clock.              *)
(***************************************************************************)
EXTENDS PushApi, PushObserver, PushWorker

ChangePolicy ==
  /\ policy' \in Policies \ {policy}
  /\ UNCHANGED <<storeVars, durable, now, apiVars, rt, hook, historyVars>>

ChangeDurable ==
  /\ durable' \in DurableSets \ {durable}
  /\ UNCHANGED <<storeVars, policy, now, apiVars, rt, hook, historyVars>>

Tick ==
  /\ now < MaxTime
  /\ now' = now + 1
  /\ UNCHANGED <<storeVars, operatorVars, apiVars, rt, hook, historyVars>>

OperatorStep == ChangePolicy \/ ChangeDurable

Next == ApiStep \/ ObserverStep \/ WorkerStep \/ OperatorStep \/ Tick

Spec == Init /\ [][Next]_vars

-----------------------------------------------------------------------------
(* Safety *)

\* Renewal, confirmation and revocation empty the queue of what they end: a
\* queued hint always belongs to the installation's current generation and
\* status, whatever was in flight when the registration changed (store.py:167,
\* 247, 257; record's generation check, store.py:397).
QueueIsCurrent == QueueCurrent(db)

\* While the request is on the wire nobody can renew, confirm or revoke under
\* it: the row it was built from is still leased and its registration is still
\* the one it was addressed to (service.py:78-80, "Revoke/update cannot return
\* until an in-flight send finishes").
SendIsCurrent ==
  \A r \in Runtime : rt[r].pc = "sending" =>
    \E j \in LeasedRow(r) :
      /\ j.generation = db.reg[j.installation].generation
      /\ db.reg[j.installation].status \in {"pending", "active"}
      /\ db.reg[j.installation].endpoint # None

\* Two runtimes never send at the same time.
OneSender ==
  \A r, q \in Runtime :
    rt[r].pc = "sending" /\ rt[q].pc = "sending" => r = q

\* A registration is active only if the challenge of this very generation was
\* sent to the endpoint it will use (store.py:224-249).  Rows from before the
\* migration are not used: no worker starts on them.
ActiveIsProved ==
  \A i \in Installation : db.reg[i].status = "active" /\ ~ Legacy(db, i) =>
    \E w \in wire : /\ w.kind = "challenge"
                    /\ w.installation = i
                    /\ w.generation = db.reg[i].generation
                    /\ w.endpoint = db.reg[i].endpoint

\* An ordinary hint is queued only for a generation that was a permitted target
\* when the hook was invoked: neither a later grant nor a later registration
\* widens it, however long the event waited (service.py:173-175).
QueuedWasCaptured ==
  \A j \in db.outbox, e \in db.events :
    e.cursor = j.event /\ e.kind # "challenge" =>
      [event |-> [kind |-> e.kind, session |-> e.session, ref |-> e.ref],
       installation |-> j.installation, generation |-> j.generation]
        \in captured

\* No hint is sent more often than the attempts the policy grants it, across
\* workers, crashes and expired leases (store.py:507-527).
AttemptsBounded ==
  \A w \in wire : Cardinality(SendsOf(w)) <= MaxAttempts

\* Events, attention rows and the inbox stay within the policy's number after
\* every transaction (store.py:429-440, inbox.py:40-43).
RetentionBounded ==
  /\ Cardinality(db.events) <= MaxEvents
  /\ Cardinality(db.attention) <= MaxEvents
  /\ Cardinality(inbox) <= MaxEvents

\* A request known to be resolved is not asked for: no live hint announces an
\* input whose attention row is resolved, in whatever order the callbacks of
\* the request and of its resolution reached the store (store.py:374-391).
ResolvedNotAnnounced == Unannounced(db)

\* A callback that is running has its event.
HooksHold ==
  \A h \in Hook : hook[h].pc \notin {"todo", "done"} => hook[h].event \in HookEvent

\* The inductive invariant of the proofs: what every step needs to know of the
\* state to keep a queue current and a send undisturbed.
TypedInv ==
  /\ TypeOK
  /\ Consistent(db)
  /\ IsFiniteSet(wire)
  /\ HooksHold

PushInv == TypedInv /\ OneSender /\ SendIsCurrent

-----------------------------------------------------------------------------
(* Action properties *)

\* Authority only moves forward: a registration row changes its owner never,
\* its revision only upwards, its binding (endpoint, nonce, kinds or scope)
\* only with a new generation, and a revoked installation not at all.
AuthorityStep(old, new) ==
  /\ new.generation >= old.generation
  /\ new.revision >= old.revision
  /\ old.status # "absent" => new.status # "absent" /\ new.owner = old.owner
  /\ old.status = "revoked" => new = old
  /\ <<new.endpoint, new.nonce, new.kinds, new.scope>> #
       <<old.endpoint, old.nonce, old.kinds, old.scope>>
       => new.generation > old.generation
  /\ new.status = "active" /\ old.status # "active"
       => old.status = "pending" /\ new.generation = old.generation

AuthorityMovesForward ==
  [][\A i \in Installation : AuthorityStep(db.reg[i], db'.reg[i])]_vars

\* A hint whose acceptance was recorded is never sent again.
AcceptedNotResent ==
  [][\A w \in wire' \ wire :
       [event |-> w.event, installation |-> w.installation,
        generation |-> w.generation] \notin accepted]_vars

\* A nonce is bound at most once per installation: a row takes only a nonce
\* that was not used, and the nonce it gives up stays used, nonces from before
\* the migration included (store.py:88-98, 151-160).
NoncesAreFresh ==
  [][/\ db.nonces \subseteq db'.nonces
     /\ \A i \in Installation : db'.reg[i].nonce # db.reg[i].nonce =>
          /\ <<i, db'.reg[i].nonce>> \notin db.nonces
          /\ db.reg[i].nonce # None => <<i, db.reg[i].nonce>> \in db'.nonces]_vars

-----------------------------------------------------------------------------
(* The server implements the lifecycle it promises *)

Challenged(i) ==
  \E w \in wire : /\ w.kind = "challenge"
                 /\ w.installation = i
                 /\ w.generation = db.reg[i].generation

OnTheWire ==
  {[installation |-> j.installation, generation |-> j.generation] :
     j \in UNION {LeasedRow(r) : r \in {q \in Runtime : rt[q].pc = "sending"}}}

Lifecycle ==
  INSTANCE PushLifecycle WITH
    status <- [i \in Installation |-> db.reg[i].status],
    generation <- [i \in Installation |-> db.reg[i].generation],
    reached <- [i \in Installation |-> Challenged(i)],
    flying <- OnTheWire

\* Every step of handlers, workers, crashes and migrations is a step of the
\* abstract lifecycle or leaves it alone.
ImplementsLifecycle == Lifecycle!Spec

-----------------------------------------------------------------------------
(* Liveness *)

\* The delivery thread is scheduled, a send ends by its five-second timeout,
\* callbacks return and time passes.  Nothing obliges a host to start or keep
\* a runtime, an operator to enable push, or a handler to commit.
Fairness ==
  /\ WF_vars(Tick)
  /\ \A r \in Runtime : WF_vars(WorkerRun(r))
  /\ \A h \in Hook : WF_vars(HookRun(h))

FairSpec == Spec /\ Fairness

Serving(r) == rt[r].pc # "down" /\ ~ rt[r].stopping /\ policy.enabled

\* If some runtime eventually stays up, the hook inbox is emptied again and
\* again: no item, expired or unwanted, blocks the queue (service.py:63-74).
InboxDrains == (\E r \in Runtime : <>[]Serving(r)) => []<>(inbox = {})

\* The model's clock stops before the next step of a hint is due.
OutOfTime(j) == j.next > MaxTime \/ j.until > MaxTime

\* If some runtime eventually stays up, every queued hint is settled: sent,
\* dropped or out of attempts, and not by waiting for its event to expire, also
\* when workers died holding its lease (store.py:507-527).  Callbacks being
\* finitely many, there is then nothing left to do, again and again.
HintsSettle ==
  (\E r \in Runtime : <>[]Serving(r)) =>
    []<>(\A j \in db.outbox : j.done \/ OutOfTime(j))

=============================================================================
