------------------------------ MODULE PushStore ------------------------------
(***************************************************************************)
(* The SQLite database of the mobile-push plugin                           *)
(* (server/mobile-push/mobile_push/store.py).  A database is one record    *)
(* whose fields are its tables; each operator maps the database before a   *)
(* BEGIN IMMEDIATE transaction to the database after its commit.  A        *)
(* transaction that raises rolls back, so a refusal is a failed guard.     *)
(*                                                                         *)
(* Identities the code draws at random are named by what they are equal    *)
(* to: an event_id by its row's cursor (AUTOINCREMENT: never reused), a    *)
(* challenge secret by the cursor of the challenge event that carries it,  *)
(* and a lease token by the runtime whose latest claim drew it.            *)
(***************************************************************************)
EXTENDS PushPolicy, Integers, FiniteSets, Functions

CONSTANTS
  Installation,      \* installation identifiers of phones
  Ref,               \* request ids and turn ids of hook events
  Nonce,             \* registration nonces
  Endpoint,          \* push endpoints, with their keys
  Runtime,           \* plugin runtimes sharing the database (see PushState)
  None,              \* the empty string, NULL or a missing row
  TTL,               \* Policy.ttl, seconds an event lives (3600)
  ChallengeTTL,      \* Policy.challenge_ttl (300)
  MaxEvents,         \* Policy.max_events (10000)
  MaxRegistrations,  \* Policy.max_registrations (256)
  MaxAttempts,       \* Policy.max_attempts (5)
  Lease,             \* seconds a claim is exclusive (30)
  BackoffCap,        \* longest retry delay (300)
  MaxRevision        \* largest registration revision (2^53 - 1)

ASSUME StoreAssumption ==
  /\ IsFiniteSet(Installation)
  /\ {TTL, ChallengeTTL, Lease, BackoffCap} \subseteq Nat
  /\ {MaxEvents, MaxRegistrations, MaxAttempts, MaxRevision} \subseteq Nat \ {0}
  /\ None \notin Principal \cup Session \cup Installation \cup Ref \cup Nonce
                 \cup Endpoint \cup Runtime

-----------------------------------------------------------------------------
(* The tables *)

TurnKinds == {"turn_done", "turn_error"}
InputKinds == {"input", "input_resolved"}
HookKinds == TurnKinds \cup InputKinds

\* What an observer hook reports; the record is also the dedup key, the JSON
\* list [kind, session, turn or request].
HookEvent == [kind : HookKinds, session : Session, ref : Ref]

\* The generations captured for an event's targets: 0 for an installation
\* that is not a target.
Targets == [Installation -> Nat]

Status == {"absent", "pending", "active", "revoked", "upgrade_required"}

Row ==
  [owner : Principal \cup {None}, generation : Nat, status : Status,
   nonce : Nonce \cup {None}, endpoint : Endpoint \cup {None},
   kinds : SUBSET HookKinds, scope : Scope,
   challenge : Nat, deadline : Nat, revision : Nat]

NoRow ==
  [owner |-> None, generation |-> 0, status |-> "absent", nonce |-> None,
   endpoint |-> None, kinds |-> {},
   scope |-> [mode |-> "explicit", sessions |-> {}],
   challenge |-> 0, deadline |-> 0, revision |-> 0]

Event ==
  [cursor : Nat, owner : Principal, kind : HookKinds \cup {"challenge"},
   session : Session \cup {None}, ref : Ref \cup {None},
   installation : Installation \cup {None}, expires : Nat,
   cancelled : BOOLEAN]

\* A row of outbox; the hint is what its payload says, "" once it is blanked.
Job ==
  [id : Nat, event : Nat, installation : Installation, generation : Nat,
   hint : HookKinds \cup {"challenge", ""}, attempts : Nat, next : Nat,
   token : Runtime \cup {None}, until : Nat, done : BOOLEAN]

Attention ==
  [row : Nat, session : Session, ref : Ref, resolved : BOOLEAN, expires : Nat]

DB ==
  [reg : [Installation -> Row], nonces : SUBSET (Installation \X Nonce),
   events : SUBSET Event, cursor : Nat, outbox : SUBSET Job,
   attention : SUBSET Attention]

EmptyDB ==
  [reg |-> [i \in Installation |-> NoRow], nonces |-> {}, events |-> {},
   cursor |-> 0, outbox |-> {}, attention |-> {}]

Body ==
  [revision : Nat, nonce : Nonce, endpoint : Endpoint,
   kinds : SUBSET HookKinds, scope : Scope]

Exists(d, i) == d.reg[i].status # "absent"
Registered(d) == {i \in Installation : Exists(d, i)}

\* The largest number of a set, 0 when there is none: SQLite's next rowid is
\* one more, so an id freed at the top of the table is used again.
Top(S) == IF \E n \in S : \A m \in S : m <= n
          THEN CHOOSE n \in S : \A m \in S : m <= n
          ELSE 0

-----------------------------------------------------------------------------
(* Steps shared by the transactions *)

\* Store._prune: expired rows, then all but the newest, go; a hint goes with
\* its event (ON DELETE CASCADE).
\* (slip: one row too many is kept)
OneEventMore(E) ==
  {e \in E : Cardinality({f \in E : f.cursor > e.cursor}) <= MaxEvents}

NewestEvents(E) ==
  {e \in E : Cardinality({f \in E : f.cursor > e.cursor}) < MaxEvents}

NewestAttention(A) ==
  {a \in A : Cardinality({b \in A : b.row > a.row}) < MaxEvents}

Prune(d, now) ==
  LET kept == NewestEvents({e \in d.events : e.expires > now})
  IN  [d EXCEPT
         !.events = kept,
         !.outbox = {j \in @ : \E e \in kept : e.cursor = j.event},
         !.attention = NewestAttention({a \in @ : a.expires > now})]

DropHints(d, i) == [d EXCEPT !.outbox = {j \in @ : j.installation # i}]

\* UPDATE events SET cancelled=1 for the rows of C.
Cancel(events, C) ==
  (events \ C) \cup {[e EXCEPT !.cancelled = TRUE] : e \in C}

Challenges(d, i) == {e \in d.events : e.kind = "challenge" /\ e.installation = i}

CancelChallenges(d, i) == [d EXCEPT !.events = Cancel(@, Challenges(d, i))]

\* Store._cancel_attention: the input events of a session, for the requests
\* of refs, and then the hints of every cancelled event.
CancelAttention(d, s, refs) ==
  LET inputs == {e \in d.events : /\ e.kind = "input"
                                  /\ e.session = s
                                  /\ e.ref \in refs}
      events == Cancel(d.events, inputs)
  IN  [d EXCEPT
         !.events = events,
         !.outbox = {j \in @ : ~ \E e \in events :
                                  e.cursor = j.event /\ e.cancelled}]

\* Store._queue: a fresh outbox row; its callers keep (event, installation,
\* generation) unique.
NewJob(id, event, i, generation, hint, now) ==
  [id |-> id, event |-> event, installation |-> i, generation |-> generation,
   hint |-> hint, attempts |-> 0, next |-> now, token |-> None, until |-> 0,
   done |-> FALSE]

JobIds(d) == {j.id : j \in d.outbox}

ReplaceJob(d, j, k) == [d EXCEPT !.outbox = (@ \ {j}) \cup {k}]

-----------------------------------------------------------------------------
(* Registration *)

\* (slip: the revision is not compared)
PutAllowedAnyRevision(d, p, i, body) ==
  IF Exists(d, i)
  THEN /\ d.reg[i].owner = p
       /\ d.reg[i].status # "revoked"
       /\ <<i, body.nonce>> \notin d.nonces
  ELSE Cardinality(Registered(d)) < MaxRegistrations

PutAllowed(d, p, i, body) ==
  /\ body.revision \in 1 .. MaxRevision
  /\ WellFormedScope(body.scope)
  /\ IF Exists(d, i)
     THEN /\ d.reg[i].owner = p
          /\ d.reg[i].status # "revoked"
          /\ body.revision > d.reg[i].revision
          /\ body.nonce # d.reg[i].nonce
          /\ <<i, body.nonce>> \notin d.nonces
     ELSE Cardinality(Registered(d)) < MaxRegistrations

\* The row Store.put writes: a new generation that has everything to prove.
PendingRow(d, p, i, body, now) ==
  [owner |-> p, generation |-> d.reg[i].generation + 1, status |-> "pending",
   nonce |-> body.nonce, endpoint |-> body.endpoint, kinds |-> body.kinds,
   scope |-> body.scope, challenge |-> d.cursor + 1,
   deadline |-> now + ChallengeTTL, revision |-> body.revision]

ChallengeEvent(d, p, i, now) ==
  [cursor |-> d.cursor + 1, owner |-> p, kind |-> "challenge",
   session |-> None, ref |-> None, installation |-> i,
   expires |-> now + ChallengeTTL, cancelled |-> FALSE]

\* Store.put.  The dedup key of a challenge names its generation, which is
\* new, so its event is always inserted.
Put(d, p, i, body, now) ==
  LET row == PendingRow(d, p, i, body, now)
      e   == CancelChallenges(DropHints(d, i), i)
      hint == NewJob(Top(JobIds(e)) + 1, d.cursor + 1, i, row.generation,
                     "challenge", now)
  IN  Prune([e EXCEPT !.reg = [@ EXCEPT ![i] = row],
                      !.nonces = @ \cup {<<i, body.nonce>>},
                      !.events = @ \cup {ChallengeEvent(d, p, i, now)},
                      !.cursor = @ + 1,
                      !.outbox = @ \cup {hint}], now)

\* (slip: the secret is not compared)
ConfirmAllowedUnproved(d, p, i, generation, secret, pol, durable, now) ==
  LET row == d.reg[i]
  IN  /\ Exists(d, i) /\ row.owner = p /\ row.generation = generation
      /\ row.status = "pending" /\ row.deadline > now
      /\ ScopeReady(row.scope, p, pol, durable)

\* Store.confirm; a secret 0 was never issued, so its hash matches no row.
ConfirmAllowed(d, p, i, generation, secret, pol, durable, now) ==
  LET row == d.reg[i]
  IN  /\ Exists(d, i)
      /\ row.owner = p
      /\ row.generation = generation
      /\ row.status = "pending"
      /\ row.deadline > now
      /\ secret # 0
      /\ row.challenge = secret
      /\ ScopeReady(row.scope, p, pol, durable)

\* (slip: the queued challenge stays)
ConfirmKeepingHints(d, i) ==
  [d EXCEPT !.reg[i].status = "active", !.reg[i].challenge = 0]

Confirm(d, i) ==
  [DropHints(d, i) EXCEPT !.reg[i].status = "active", !.reg[i].challenge = 0]

\* (slip: the generation is not advanced)
RevokeInPlace(d, i) ==
  LET row == [d.reg[i] EXCEPT !.status = "revoked", !.challenge = 0,
                              !.endpoint = None]
  IN  CancelChallenges([DropHints(d, i) EXCEPT !.reg = [@ EXCEPT ![i] = row]], i)

\* Store.revoke_in: terminal for the generation, with its endpoint erased.
RevokeIn(d, i) ==
  LET row == [d.reg[i] EXCEPT !.generation = @ + 1, !.status = "revoked",
                              !.challenge = 0, !.endpoint = None]
  IN  CancelChallenges([DropHints(d, i) EXCEPT !.reg = [@ EXCEPT ![i] = row]], i)

\* Store.revoke: DELETE before the first PUT leaves a tombstone.
RevokeAllowed(d, p, i, pol) ==
  IF Exists(d, i)
  THEN d.reg[i].owner = p
  ELSE /\ pol.readable
       /\ Admitted(pol, p)
       /\ Cardinality(Registered(d)) < MaxRegistrations

Revoke(d, p, i) ==
  IF ~ Exists(d, i)
  THEN [d EXCEPT !.reg[i] = [NoRow EXCEPT !.owner = p, !.generation = 1,
                                          !.status = "revoked"]]
  ELSE IF d.reg[i].status # "revoked" THEN RevokeIn(d, i) ELSE d

\* Store.__init__: rows written before revisions existed are revoked but may
\* be renewed, and every nonce in use counts as used.
Legacy(d, i) == d.reg[i].revision = 0 /\ d.reg[i].status \in {"pending", "active"}

\* (slip: nonces in use are not remembered)
MigrateForgettingNonces(d) ==
  [d EXCEPT
     !.reg = [i \in Installation |->
                IF Legacy(d, i)
                THEN [RevokeIn(d, i).reg[i] EXCEPT !.status = "upgrade_required"]
                ELSE @[i]],
     !.outbox = {j \in @ : ~ Legacy(d, j.installation)}]

Migrate(d) ==
  [d EXCEPT
     !.reg = [i \in Installation |->
                IF Legacy(d, i)
                THEN [RevokeIn(d, i).reg[i] EXCEPT !.status = "upgrade_required"]
                ELSE @[i]],
     !.outbox = {j \in @ : ~ Legacy(d, j.installation)},
     !.events = Cancel(@, UNION {Challenges(d, i) :
                                   i \in {k \in Installation : Legacy(d, k)}}),
     !.nonces = @ \cup {<<i, d.reg[i].nonce>> :
                          i \in {k \in Installation : d.reg[k].nonce # None}}]

-----------------------------------------------------------------------------
(* Events *)

\* Store._allows_event
AllowsEvent(row, ev, pol) ==
  ev.kind \in row.kinds /\ ScopeAllows(row.scope, row.owner, ev.session, pol)

\* Store.targets: the generations that may hear of ev as things stand.
CaptureTargets(d, ev, pol) ==
  [i \in Installation |->
     IF d.reg[i].status = "active" /\ AllowsEvent(d.reg[i], ev, pol)
     THEN d.reg[i].generation ELSE 0]

\* (slip: the captured generation is not compared)
RecipientsNow(d, ev, targets, pol) ==
  {i \in Installation : /\ d.reg[i].status = "active"
                        /\ AllowsEvent(d.reg[i], ev, pol)}

\* The installations Store.record queues a hint for: captured at this very
\* generation, and still allowed by the policy it is given.
Recipients(d, ev, targets, pol) ==
  {i \in Installation : /\ d.reg[i].status = "active"
                        /\ targets[i] = d.reg[i].generation
                        /\ AllowsEvent(d.reg[i], ev, pol)}

\* The scan of registrations has no ORDER BY: any order of the recipients.
ScanOrders(R) == Bijection(R, 1 .. Cardinality(R))

\* The attention row of a request, resolved for ever once it was resolved.
NoteAttention(d, ev, now) ==
  LET old == {a \in d.attention : a.session = ev.session /\ a.ref = ev.ref}
      new == [row |-> IF old = {} THEN Top({a.row : a \in d.attention}) + 1
                      ELSE (CHOOSE a \in old : TRUE).row,
              session |-> ev.session, ref |-> ev.ref,
              resolved |-> \/ ev.kind = "input_resolved"
                           \/ \E a \in old : a.resolved,
              expires |-> now + 2 * TTL]
  IN  [d EXCEPT !.attention = (@ \ old) \cup {new}]

ResolveSession(d, s) ==
  [d EXCEPT !.attention =
     {IF a.session = s THEN [a EXCEPT !.resolved = TRUE] ELSE a : a \in @}]

\* What an event means for the attention of its session.
Settle(d, ev, now) ==
  CASE ev.kind = "input" -> NoteAttention(d, ev, now)
    [] ev.kind = "input_resolved" ->
         CancelAttention(NoteAttention(d, ev, now), ev.session, {ev.ref})
    [] OTHER -> ResolveSession(CancelAttention(d, ev.session, Ref), ev.session)

IsEvent(e, p, ev) ==
  e.owner = p /\ e.kind = ev.kind /\ e.session = ev.session /\ e.ref = ev.ref

\* One event per owner (INSERT OR IGNORE on the dedup key) and one hint per
\* recipient and generation.  A recipient's place in the scan numbers its hint,
\* and the event of its owner; numbers are only compared, so gaps change nothing.
Enqueue(d, ev, R, order, expires, now) ==
  LET owners == {d.reg[i].owner : i \in R}
      fresh  == {p \in owners : ~ \E e \in d.events : IsEvent(e, p, ev)}
      leader(p) == CHOOSE i \in R : d.reg[i].owner = p
      added  == {[cursor |-> d.cursor + order[leader(p)], owner |-> p,
                  kind |-> ev.kind, session |-> ev.session, ref |-> ev.ref,
                  installation |-> None, expires |-> expires,
                  cancelled |-> FALSE] : p \in fresh}
      events == d.events \cup added
      cursorOf(i) == (CHOOSE e \in events : IsEvent(e, d.reg[i].owner, ev)).cursor
      queued == {i \in R : \E j \in d.outbox :
                    /\ j.event = cursorOf(i)
                    /\ j.installation = i
                    /\ j.generation = d.reg[i].generation}
  IN  [d EXCEPT
         !.events = events,
         !.cursor = IF fresh = {} THEN @ ELSE @ + Cardinality(R),
         !.outbox = @ \cup
           {NewJob(Top(JobIds(d)) + order[i], cursorOf(i), i,
                   d.reg[i].generation, ev.kind, now) : i \in R \ queued}]

\* (slip: an input is always announced)
NeverIgnored(d, ev) == FALSE

\* A request that is known to be resolved is not announced again.
Ignored(d, ev) ==
  /\ ev.kind = "input"
  /\ \E a \in d.attention : a.session = ev.session /\ a.ref = ev.ref /\ a.resolved

\* Store.record
Record(d, ev, targets, pol, order, expires, now) ==
  LET e == Prune(d, now)
  IN  IF expires <= now THEN d
      ELSE IF Ignored(e, ev) THEN e
      ELSE Prune(Enqueue(Settle(e, ev, now), ev, Recipients(d, ev, targets, pol),
                         order, expires, now), now)

-----------------------------------------------------------------------------
(* Delivery *)

\* Store.claim: prune, close what ran out of attempts, and lease the oldest
\* row that is due.
CloseExhausted(d, now) ==
  LET spent == {j \in d.outbox : j.attempts >= MaxAttempts /\ j.until <= now}
  IN  [d EXCEPT !.outbox =
         (@ \ spent) \cup {[j EXCEPT !.done = TRUE, !.hint = ""] : j \in spent}]

BeforeClaim(d, now) == CloseExhausted(Prune(d, now), now)

\* (slip: a lease is only given back, it never runs out)
DueUnleased(d, now) ==
  {j \in d.outbox : ~ j.done /\ j.next <= now /\ j.token = None
                    /\ j.attempts < MaxAttempts}

Due(d, now) ==
  {j \in d.outbox : ~ j.done /\ j.next <= now /\ j.until <= now
                    /\ j.attempts < MaxAttempts}

OldestDue(d, now) ==
  {j \in Due(d, now) : \A k \in Due(d, now) : j.id <= k.id}

ClaimRow(d, j, r, now) ==
  ReplaceJob(d, j, [j EXCEPT !.token = r, !.until = now + Lease,
                             !.attempts = @ + 1])

\* What becomes of a leased row: dropped unsent, settled, or due again later.
DropJob(d, j) == ReplaceJob(d, j, [j EXCEPT !.done = TRUE, !.hint = ""])

\* (slip: only the lease is given back)
ReleaseJob(d, j) == ReplaceJob(d, j, [j EXCEPT !.token = None, !.until = 0])

SettleJob(d, j) ==
  ReplaceJob(d, j, [j EXCEPT !.done = TRUE, !.hint = "", !.token = None,
                             !.until = 0])

Backoff(n) == IF 2 ^ n \in 0 .. BackoffCap THEN 2 ^ n ELSE BackoffCap

\* (slip: a retry starts to count again)
RetryJobAfresh(d, j, now) ==
  ReplaceJob(d, j, [j EXCEPT !.token = None, !.until = 0, !.attempts = 0,
                             !.next = now + Backoff(j.attempts)])

RetryJob(d, j, now) ==
  ReplaceJob(d, j, [j EXCEPT !.token = None, !.until = 0,
                             !.next = now + Backoff(j.attempts)])

-----------------------------------------------------------------------------
(* Consistency of a database *)

\* What a status still owes: a pending generation its challenge, an active one
\* ordinary events, every other status nothing.  A blank hint is a closed row.
HintFits(row, hint) ==
  CASE row.status = "pending" -> hint \in {"challenge", ""}
    [] row.status = "active"  -> hint \in HookKinds \cup {""}
    [] OTHER -> FALSE

QueueCurrent(d) ==
  \A j \in d.outbox :
    /\ j.generation = d.reg[j.installation].generation
    /\ HintFits(d.reg[j.installation], j.hint)

\* A registration that may still be sent to has somewhere to send to.
LiveRowsBound(d) ==
  \A i \in Installation :
    d.reg[i].status \in {"pending", "active"} => d.reg[i].endpoint # None

Consistent(d) == d \in DB /\ QueueCurrent(d) /\ LiveRowsBound(d)

\* The keys of the schema.  Of a hint: which event, for which authority.
SameKey(j, k) ==
  /\ j.event = k.event
  /\ j.installation = k.installation
  /\ j.generation = k.generation

EventsKeyed(d) ==
  /\ \A e, f \in d.events : e.cursor = f.cursor => e = f
  /\ \A e \in d.events : e.cursor <= d.cursor

\* One row per id and one per event and authority; no hint without its event.
HintsKeyed(d) ==
  /\ \A j, k \in d.outbox : j.id = k.id \/ SameKey(j, k) => j = k
  /\ \A j \in d.outbox : \E e \in d.events : e.cursor = j.event

AttentionKeyed(d) ==
  \A a, b \in d.attention :
    a.row = b.row \/ (a.session = b.session /\ a.ref = b.ref) => a = b

\* A registration that was never made has no row and used no nonce.
RowsKeyed(d) ==
  \A i \in Installation :
    IF Exists(d, i)
    THEN d.reg[i].generation # 0
    ELSE d.reg[i] = NoRow /\ \A n \in Nonce : <<i, n>> \notin d.nonces

\* A secret is one challenge event's, and one registration waits for it: the
\* pending one whose queue holds that challenge and nothing else.
ChallengesFit(d) ==
  /\ \A i \in Installation : d.reg[i].challenge <= d.cursor
  /\ \A i, k \in Installation :
       d.reg[i].challenge = d.reg[k].challenge /\ d.reg[i].challenge # 0 => i = k
  /\ \A j \in d.outbox :
       j.hint = "challenge" => j.event = d.reg[j.installation].challenge
  /\ \A j \in d.outbox, e \in d.events :
       e.cursor = j.event =>
         (e.kind = "challenge" <=> d.reg[j.installation].status = "pending")

\* A row is closed when its payload is blanked, and was leased at most as often
\* as the policy allows.
HintsClose(d) ==
  \A j \in d.outbox : /\ j.done <=> j.hint = ""
                      /\ j.attempts <= MaxAttempts

\* A request that is known to be resolved has no live event and no hint.
Unannounced(d) ==
  \A e \in d.events, a \in d.attention :
    /\ e.kind = "input"
    /\ a.session = e.session /\ a.ref = e.ref
    /\ a.resolved
    => e.cancelled /\ ~ \E j \in d.outbox : j.event = e.cursor

Finite(d) ==
  IsFiniteSet(d.events) /\ IsFiniteSet(d.outbox) /\ IsFiniteSet(d.attention)

Bounded(d) ==
  /\ Cardinality(d.events) <= MaxEvents
  /\ Cardinality(d.attention) <= MaxEvents

Sound(d) ==
  /\ Finite(d)
  /\ EventsKeyed(d) /\ HintsKeyed(d) /\ AttentionKeyed(d) /\ RowsKeyed(d)
  /\ ChallengesFit(d) /\ HintsClose(d) /\ Unannounced(d)

=============================================================================
