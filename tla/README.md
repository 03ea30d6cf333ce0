# A verification project for Hermes Android

Hermes Android is a Flutter client for a Hermes agent gateway, with Kotlin platform code
and a Python plugin (`server/mobile-push`) that runs inside the agent host and sends
content-free push hints to phones. This directory holds TLA+ modules translated from that
source, TLC configurations that check them on small instances, and TLAPS proofs of the
most important properties for every instance. `src/` below is the root of the repository.

The modules written so far cover three subsystems. The `Push` modules are the mobile-push
server: HTTP handlers, agent threads, delivery threads of several processes, an operator and
the clock around one database, and a phone that pages through its events. The `Turn` modules
are turn recovery: how the phone finds out what became of a prompt when its connection, its
process, its clock or its key store failed it, without ever sending the prompt again.
`TurnLedgerServer` and `FixturePrompts` are the gateway fixture, the server against which the
phone is tested: its durable ledger of turns, and the tasks in which its classic protocol runs
prompts. In all three a mistake is one that a user cannot see and a unit test hardly reaches.
The section *Plan* says what follows.

## The system and its parts

| Part | State it keeps | Operations | Hard behaviour |
|---|---|---|---|
| Store, `server/mobile-push/mobile_push/store.py` | SQLite tables `registrations`, `registration_nonces`, `events`, `outbox`, `attention` | `put`, `confirm`, `revoke`, `revoke_in`, `targets`, `record`, `claim`, `events`, migration in `__init__` | every caller is concurrent with every other; rowids of `outbox` are reused; retention evicts rows others point to |
| Policy and scope, `config.py`, `scope.py` | `config.json`, read anew at each use | `policy`, `allowed`, `admitted`, `SessionScope.allows`, `ready` | an operator edits it between two reads of one handler |
| HTTP handlers, `api.py` | none, but a handler holds its admission during a DNS lookup | PUT, confirm, DELETE, GET status and events | a late PUT or confirmation meets a newer registration |
| Observer hooks, `service.py` `Runtime._record`; inbox, `inbox.py` | SQLite `inbox` | `session_end`, `human_input`, `human_resolved`; `put`, `peek`, `remove` | run on agent threads, decide early, write late; fall back on the inbox while a send holds the store |
| Delivery worker, `service.py` `Runtime.run` | a thread, its lease | `deliver_one`, `start`, `stop` | leases, retries, crashes, a transaction that stays open during an HTTP exchange |
| Transport, `transport.py` | none | `validate_endpoint`, `Sender.send` | byte-level I/O |
| Phone push client, `lib/core/services/mobile_push_service.dart`, `mobile_push_api.dart`, `connection_mutation_barrier.dart` and the Kotlin `MobilePush*.kt` | registrations per account, hint queue | enable, disable, renew, confirm, handle a hint | account switches during awaits; process death between persist and PUT |
| Turn journal, `gateway_turn_journal.dart` | one value in the key store: a binding per chat, an entry per prompt; in memory the chats that are stopped | `upsertBinding`, `upsert`, `remove`, compaction, `recordProcessPoison` | a write that fails or only seems to; a full journal; a clock that runs backwards |
| Turn recovery, `gateway_turn_recovery.dart`, `gateway_turn_contract.dart` | a state per prompt: the gateway's id, status, cursor, events in memory, what is uncertain | `applyAck`, `applyEvent`, `applyReconcilePage`, `rehydrate` | gaps, duplicates, pages and snapshots in any order |
| Turn coordination, `gateway_turn_coordinator.dart` | maps of active and settled prompts, a socket, a queue of calls | `ensureOpen`, `submit`, `interrupt`, `recoverPending`, `close`, live events, loss of the transport | every await may end in a world where the connection, the process or the turn is gone |
| Gateway fixture, turn ledger: `tools/fake_gateway/turn_recovery_contract.py` | a ledger of sessions, turns and their events, in memory and in a file; per connection the session it opened and the fault it ordered | `session.open`, `prompt.submit`, `turn.reconcile`, `turn.interrupt`, pruning, restart | reads a frame after the phone has given it up; handlers of several connections interleave at every send; a write fails, the process dies |
| Gateway fixture, classic protocol: `tools/fake_gateway/fake_gateway.py` | histories; per connection the tasks of its prompts and the requests that wait for an answer | `session.create`, `session.branch`, `prompt.submit`, `session.interrupt`, `approval.respond`, `secret.respond`, `clarify.respond`, `/v1/chat/completions` | a task is cancelled at any await, before its first step too; requests expire; a connection is lost |
| Gateway session and sockets, `normal_gateway_application_session.dart`, `ws_client.dart`, `desktop_gateway_client.dart`, `connection_manager.dart` | connections, request tables | connect, request, close | reconnect generations |
| Notifications and approval authority, `turn_notification_service.dart`, `notification_approval_authority.dart` | shown notifications, single-use authorities | notify, approve | an answer from a stale notification |
| Phone stores (`quick_chat_store.dart`, `chat_pins.dart`, `session_archive_ledger.dart`, `composer_draft_store.dart`, ...) | preferences | load, save | sequential |
| Projects, sessions, attachments, media, voice, delegated tasks, backup, certificates, updates, UI, localisation, build scripts, vendored code | | | see `PROJECT.json`, which gives every part its status and reason |

### How the parts of the push server interact

A phone PUTs a registration (endpoint, keys, nonce, kinds, scope, revision); the store gives
it a new *generation*, empties its queue and queues a *challenge* hint. The worker sends the
hint to the endpoint; the phone returns the secret in a confirmation, and the generation is
active. An observer hook (a turn ended, the agent wants input, an input was resolved) captures
the generations that may hear of it, then records an event with one outbox row per recipient,
directly or through the inbox when a send holds the store. The worker moves the inbox to the
store, leases the oldest due row in one transaction, and in a second one checks consent,
policy and scope again, sends, and writes the outcome before the commit. A 404 or 410
revokes the registration; other failures are retried.

### How the parts of turn recovery interact

`submit` draws a random client turn id, writes an entry to the journal (*write-ahead*), then
sends `prompt.submit` once. The gateway makes the turn durable, acknowledges it and pushes its
events down every connection that submitted or reconciled it (the fixture writes down the
submitting one only, see below). The coordinator runs its calls
and the events of its socket one after another through a queue; each result goes through the
reducer of `gateway_turn_recovery.dart`, is written to the journal and, when the turn is done,
*settled*: moved to a list of tombstones and reported. Whatever makes a turn uncertain (no
answer, a gap, a lost socket, a restart) is resolved by `turn.reconcile`, which pages through
the gateway's events. A frame that breaks the contract, and a write that fails, *quarantine*
the turn: its entry fails closed and the connection is given up. A quarantine that cannot be
written *poisons* the chat: it is stopped until the process ends.

### How the parts of the gateway fixture interact

One event loop serves all connections; each connection takes its frames one after another. In
the turn protocol (`turn_recovery_contract.py`) the handler of a frame serves the prompt itself:
it writes the ledger to its file, sends the acknowledgement, then writes and sends one event
after another, and other connections are served wherever it awaits its socket. A test orders a
fault for the next prompt of its connection: the handler closes the connection at one of four
places and runs the turn to its end without it. In the classic protocol (`fake_gateway.py`) a
prompt is a task that the handler starts and leaves: it registers the request it asks its user
for, waits, streams, puts the exchange into the history and sends `turn.end`. A new prompt of the
session, an interrupt and the end of the connection cancel it.

### What makes each part correct

* Store: a queue never outlives the authority it was filled for; a registration becomes
  active only through its own challenge; revisions, generations and nonces are never reused;
  tables stay within their limits; a resolved request is not announced.
* Handlers: what they decided before an await is compared again with the row they write.
* Hooks: the set of recipients may shrink but never grow after the event.
* Worker: one send at a time, a bounded number per hint, none after a recorded acceptance,
  and every hint settled in the end whoever crashes.
* Journal: what it writes it can read; room is never made at the cost of a prompt whose fate
  is open; an outcome is final; a stopped chat stays stopped.
* Reducer and coordinator: the phone never knows other than the gateway's log says up to its
  cursor; a prompt that may run is in the journal; a failure is durable or the chat stops;
  every turn of the gateway is resolved in the end.
* Turn ledger: its file can be loaded whenever the process dies; what was acknowledged keeps its
  identity; a turn is run once, whoever sends it again; pages have no gap and, across crashes
  and failed writes, an event keeps its number.
* Classic protocol: one prompt of a session runs; no request outlives its prompt and an answer
  reaches the one that waits; the history has what the client was told was completed; a prompt
  that began says how it ended, and every prompt is over some time that neither its user nor an
  unread send holds up.

## Modules

| Module | Code | Contents |
|---|---|---|
| `PushPolicy` | `config.py`, `scope.py` | pure: `Allowed`, `Admitted`, `ScopeAllows`, `ScopeReady`, `WellFormedScope` |
| `PushStore` | `store.py` | a database is a record of tables; every transaction is an operator from a database to a database (`Put`, `Confirm`, `Revoke`, `RevokeIn`, `Migrate`, `CaptureTargets`, `Record`, `BeforeClaim`, `ClaimRow`, `DropJob`, `SettleJob`, `RetryJob`), every refusal a predicate (`PutAllowed`, ...) |
| `PushState` | all | the variables, their types, `Init`, the lock |
| `PushApi` | `api.py` | `SubmitPut` (the checks before DNS) and `CommitPut` (the transaction); `SubmitConfirm`, `CommitConfirm`; `RevokeRegistration`; `OpenStore` (the constructor's migration); handlers that end without effect |
| `PushObserver` | `service.py:148-224`, `inbox.py:32-43` | one action per read or write of a callback: `HookBegin`, `HookCapture`, `HookPeek`, `HookWrite`, `HookBusy`, `HookQueue`, `HookFail` |
| `PushWorker` | `service.py:33-146`, `__init__.py` | `Start`, `Stop`, `Exit`, `BeginPass`, `DrainPeek`, `DrainStore`, `DrainRemove`, `CheckInbox`, `ClaimJob`, then `LostLease`, `DropUnpermitted` or `BeginSend` with one of `SendAccepted`, `SendRejected`, `SendGone`, `SendFailed`; `WorkerBusy`, `Crash` |
| `PushServer` | the composition | `Next`, `Spec`, `FairSpec`, all properties |
| `PushLifecycle` | an abstract specification | what the server promises an installation, without queue, lease or database |
| `PushReader` | `api.py` GET events, `store.py` `events` | the server with a phone that reads: `ReadAnew`, `ReadPage`; `EventPage` is what one query answers |
| `PushInvariants` | | the parts of the inductive invariants beyond types: keys, the record of the wire, captured targets |
| `PushStoreProofs`, `PushHistoryProofs`, `PushAuthorityProofs`, `PushReaderProofs` | | the proofs of the push server |
| `MCPush`, `MCPushReader` | | values for the constants |
| `TurnRecovery` | `gateway_turn_recovery.dart` | pure: `ApplyAck`, `ApplyEvent`, `ApplyPage`, `MarkUncertain`, `Fail`, `Rehydrate` |
| `TurnJournal` | `gateway_turn_journal.dart` | pure: `Upsert`, `UpsertBinding`, `Discard`, `Compact` with `Evict` and `EvictBindings`, `UpdateAllowed`, `RecordPoison` |
| `TurnJournalStore`, `MCJournal` | the same, as chats use it | `Bind`, `Save`, `Forget`, `Poison`, `Restart`, `ClockChange` and the journal's own properties |
| `TurnState` | all of turn recovery | the variables; the coordinator's maps (`Remember`, `Settle`); a write that succeeds, is refused, or fails with either content (`Writes`, `Persist`) |
| `TurnGateway` | `turn_recovery_contract.py` | `Accept`, `Refuse`, `Progress`, `Prune`; `Interrupted`, `ReplyTo` |
| `TurnCoordinator` | `gateway_turn_coordinator.dart` | one action between two awaits: `Open`; `RecoverPending`, `RecoverStep`; `SubmitBegin`, `Revoke`, `Send`, `SendBroken`, `Acknowledged`, `AckMismatched`, `AckMissing`, `Rejected`; `InterruptBegin`, `InterruptAsked`; the loop of `_reconcile`; `LiveApplied`, `LiveRefused`, `LiveGarbled`; `TransportLost`, `Close` and the loops that quarantine and mark turns (`QuarantineStep`, `UncertainStep`, `Severed`); `SocketCloses`, `Crash`, `ClockChange` |
| `TurnSystem`, `MCTurn` | the composition | `Next`, `Spec`, `FairSpec`, all properties |
| `TurnInvariants` | | the inductive invariants `TurnInv` and `RecordInv`, and `Roomy`, a journal with room for the next prompt |
| `TurnLedger` | `turn_recovery_contract.py` | pure: the ledger, the course of a turn (`Advance`, `Finish`), `Pruned`, what may be loaded (`Loads`), the page of a reconciliation (`Page`, with `Newer` for its comprehension) |
| `TurnLedgerServer`, `MCLedger` | the same, as a process | `SessionOpen`, `Submit`, `SubmitAgain`, `Interrupt`, `Prune`, `ForgetRuntimes`; the handler of a prompt between its awaits: `AckSent`, `EventSent`, `Closed`, `SendFails`; `Disconnect`, `Lose`, `Restart` |
| `TurnBook` | an abstract specification | what a phone relies on in the durable record: identities, numbered events, a whole answer is final |
| `TurnJournalProofs`, `TurnSystemProofs`, `TurnLedgerProofs`, `FixturePromptsProofs` | | the proofs of the journal, of a chat's recovery, of the fixture's ledger and of its tasks |
| `FixturePrompts`, `MCFixture` | `fake_gateway.py` | a task between its awaits: `Start`, `RequestSent`, `Answered`, `Expire`, `StreamEnds`, `EndSent`, `Interrupted`; `Create`, `BranchOff`, `Submit`, `Interrupt`, `Approve`, `Respond`, `AnswerQuestion`; `Drop`, `Close`, `LossNoticed`; `Complete` |

Variables and code: `db` is `outbox.sqlite3`, `inbox`/`inboxSeq` is `inbox.sqlite3` and its
AUTOINCREMENT counter, `policy` is `config.json`, `durable` the sessions of `state.db`, `puts`
and `confirms` are HTTP handlers between admission and transaction, `rt[r]` the local variables
and program counter of the delivery thread of a process, `hook[h]` those of a callback. `wire`,
`accepted` and `captured` are history: no guard reads them, except that a client can only
present a challenge secret that `wire` shows was sent.

### Abstractions

* A short transaction is one step. The only transaction that others can meet half-way is the
  worker's second one, which spans an HTTP exchange: while a runtime is at `sending`, `Locked`
  holds, every writer of the store waits or takes its SQLITE_BUSY path, and readers see the
  committed database, as in WAL mode.
* Random identities are named by what they equal: an `event_id` is its row's cursor
  (AUTOINCREMENT), a challenge secret is the cursor of its challenge event, a lease token is
  the runtime whose latest claim drew it. Row ids of `outbox` are *not* unique over time, as in
  SQLite, and are modelled so.
* A dedup key, a JSON list, is the record of its parts. Timestamps that nothing reads
  (`created_at`) are omitted. A hint's payload is its kind, or blank.
* The policy's timing constants and limits are CONSTANTS: `config.json` cannot set them.
* `Enqueue` numbers rows by their place in the unordered scan of registrations; numbers are only
  compared, so the gaps it leaves change nothing.
* A failure of `Sender` before the request reaches the wire (key file, DNS) counts as a send:
  `wire` over-approximates.
* Inbox rows of versions that captured no targets are omitted.

`reader` in `PushReader` is the phone's side: the registration its queries name, the cursor of the
last page, what the pages held. A query reads `config.json` before it opens the store and the
durable sessions after it has closed it, so a page is judged by any policy and any set of
sessions of the instance, whatever they are at the moment of its snapshot. The `LIMIT` of the SQL
query is `max_events`, at least the size of the table, and is left out.

### Variables and abstractions of the turn modules

`gw` is the fixture's ledger; `wire`, `stray`, `subs` and `live` are submit frames on the
current and on earlier connections, the subscriptions of the current one and its frames in the
coordinator's queue; `sock` is the coordinator's `_client` (`lost`: closed, the callback still
queued); `mem` its maps, `op` the call it is working on with its local variables; `db` and
`poison` the journal and its process ledger; `now` the phone's clock; `used` the client turn
ids drawn so far. `mem.settles` counts the calls of `onTurnSettled`, up to two.

* One chat and one coordinator; chats meet only in the journal, which `TurnJournalStore` models.
* A text is the set of the deltas it was put together from. Payload sizes, attachments,
  capability negotiation, identity checks and legacy schemas are left out; a frame or page that
  the contract's parsers reject is garbled, and garbling is free of the budget of faults.
* The calls of a coordinator are atomic between awaits, and interleave with the gateway, the
  socket, the process and the clock there. Calls that are queued while another runs are the
  calls that `Operational` enables when it ends. The fault `overtake` lets a queued call run
  between the closing of a socket and its callback. A call queued between an `open` that failed
  and the coordinator's close is left out: it meets a coordinator without a socket.
* A failing journal write leaves the old or the new content, which is what `_writeData` leaves
  when its own undo succeeds or fails; the caller cannot tell. A removal likewise.
* The first event, `accepted`, may be in the ledger or not when a turn is acknowledged: the
  tests answer with cursor 0, the fixture with 1. The stop of a turn is not pushed to its
  subscribers, as in the fixture. Interrupts of other clients are left out.
* The fixture counts a connection that reconciled a turn among its subscribers
  (`turn_recovery_contract.py:874`), yet writes the events to the socket of the submit alone (758, 774).
  `TurnGateway` delivers to all subscribers, which is what the subscription is for and what
  the coordinator waits for; the safety runs have the narrower delivery as well, by the fault `miss`.
  `turn_liveness` rests on the wider one: with the fixture's, a turn that was reconciled while it ran
  stays open until the next reconnection.
* The list of 64 tombstones is not full in any instance. The code orders entries of one
  millisecond, and the turns of a map, in some order; the model in any.

### Variables and abstractions of the fixture modules

In `TurnLedgerServer`, `durable` is the ledger in memory and `saved` the one in the file; `link`
says whether the client of a connection is still there, `runtime` which session the connection
opened last, `task` at which await the handler of its prompt is; `told` is history, the bindings
and turns that clients were given, and `trouble` counts what went wrong in earnest: crashes, lost
connections and writes that failed. The faults a test orders are not trouble.

* A write replaces the file as a whole: `_save` writes a temporary file and renames it. A write
  that fails leaves the old file and the new memory, ends the handler, and its connection.
* Turn ids are numbered in the order of commit, as the fixture does; the text of a prompt and its
  attachments are a digest; parsing and canonical identifiers are left out. A connection that
  ended is taken by the next one: its key is not used again, so that nothing of it is left.
* A reconciliation changes nothing on the fixture's side, so that it is an operator (`Page`)
  and no action. What a phone does with the answers is the subject of the turn modules, whose
  `TurnGateway` is this ledger as one phone observes it.

In `FixturePrompts`, `prompts` are the tasks in the order they were created, with where each
waits and what its client was told (`ends`, history); `active`, `approvals` and `pending` are
`active_prompts`, `pending_approvals` and the maps of secrets and clarifications; `messages`
the histories as sequences of prompts. `link` is `gone` while the loss of a connection is not
noticed, `lost` when the handler raised and nobody cleans up.

* A send suspends a task only if the client does not read: `slow` chooses one of the two for a
  behaviour. The sends of deltas are one step with the wait for the stream.
* A fair event loop hears of a cancellation before it runs a task that was created later; which
  of the tasks that are ready comes first is open otherwise.
* Sudo and secrets are one kind, as are single clarifications. `Kinds` names those of the run:
  a secret that is answered in time behaves as an approval that is keyed by its own id.

## Runs

The push server, runs of `MCPush` and `MCPushReader`. Bounds common to all: one session, two
request or turn ids, a clock
that stops at `MaxTime`, and at most `MaxInFlight` handlers between admission and commit.

| Run | Question | Instance |
|---|---|---|
| `registration` | Can handlers in flight, a migration, expired challenges, a send or a crash leave a stale queue, an unproved active row, an authority that moves back, a reused nonce, or a step outside `PushLifecycle`? | one phone, one runtime, two different PUTs, two handlers in flight, empty or legacy file, push may be disabled, three seconds |
| `delivery` | At most `MaxAttempts` sends per hint, none after acceptance? Is the first inductive invariant of the proofs (`PushInv`), with one send at a time and an undisturbed registration under it, true with two senders? | two runtimes, one hint queued at start and another by a callback, both leased at once, retries, leases that run out, revocation |
| `callbacks` | Is a resolved request never announced, and do all tables stay within their limit? | three callbacks (a request, its resolution, a turn end) in every order, directly and through the inbox, limit two, expiry after a second |
| `consent` | Is a hint queued only for captured generations? Does a phone that reads page by page see every event it may see? | grants and durable sessions come and go, a renewal in flight, a second principal, one event a page, a clock that stands: nothing expires here, which `registration`, `delivery` and `callbacks` cover |
| `push_liveness` | Is the inbox emptied again and again, and every hint settled, crashes notwithstanding? | fair; one runtime that crashes and restarts, one hint queued at start and a callback during its send, sessions may be deleted, events outlive the clock |

Turn recovery, runs of `MCTurn` and `MCJournal`. Bounds: the faults of a run are of the kinds
its `Faults` names and at most `MaxFaults`; a turn has at most `MaxLog` events, the last one
terminal; at most `MaxLive` frames wait at the phone; the journal holds two entries.

| Run | Question | Instance |
|---|---|---|
| `turn_core` | Does the phone ever know other than the gateway? Is a prompt that may run always recorded, readably, and is its outcome final? Is a failure that the user saw durable, or the chat stopped, without a connection? | one prompt, three events, pages of two, a clock set forwards and back, entries that expire at once; two faults out of broken connections, restarts, lost answers, missing frames, failing writes, pruned ledgers and calls that overtake a loss; garbled frames at any time |
| `turn_liveness` | Is every turn of the gateway resolved? | fair; one prompt, two breaks, restarts or prunings |
| `journal` | Is the journal readable, does it keep what is pending, does it lock nobody out? | three chats, four prompts, two entries, two bindings, a clock of three |
| `turn_poison`, `turn_others` | Do two comments of the code hold? (they do not, see *Findings*) | the smallest instances that show it: four events and no fault; two prompts and one restart |

The gateway fixture, runs of `MCLedger` and `MCFixture`:

| Run | Question | Instance |
|---|---|---|
| `ledger` | Can the file always be loaded, is what was acknowledged kept, have pages no gap, is a turn served once, and does the file implement `TurnBook`? | two connections, two mobile sessions, one client turn id with two digests, all four faults, at most three openings, two submissions and one pruning, pages of two events; one crash, lost connection or failed write |
| `gateway` | Does one prompt of a session run, do answers reach it, is the history earned, does a started prompt say how it ended, and is every prompt over some time that neither its user nor a client that does not read holds up? | fair; one connection, two sessions of which the second is the branch of the first, two prompts that are plain, ask for an approval, expire or ask a batch of two questions; a client that reads or one that does not |

Two submissions are what a prompt that is sent again needs, two digests what a conflict needs;
two connections let the second submit, interrupt and prune at every await of the first. The
seven events of a turn give pages of two an uneven end. With two troubles the instance is
beyond minutes; one trouble is met at every await of both handlers. In `gateway` two prompts are
a prompt and its successor, in the same session or in the other; a third one would meet a
successor as the second meets the first. `gateway` does not check deadlock: users need not
answer, and the instance stops when its prompts are used up.

`turn_core` and `turn_liveness` do not check deadlock: a poisoned chat stops until the process
ends, and once the faults are spent it does not. Three events let a turn start, go on in one of
the ways its status can change, and end, over more than one page; two faults are the least with
which one can meet the repair of another. The coordinator's properties speak of one prompt
each, and prompts share only the connection, the journal and the recovery's loop. What sharing
the journal does is the subject of `journal`; what sharing the loop does is seen in
`turn_others`. That two prompts of one chat keep the properties of `turn_core` under every fault
is beyond what TLC finishes in minutes; it is what the proofs add (*Turn recovery of one chat*),
for any number of prompts, events and faults.

Why the bounds of the push runs are enough: with one lease second and two attempts a hint can
be leased, lost, leased by the other runtime and exhausted within the clock; two handlers in
flight are what a stale commit needs; two rows are the least table in which eviction chooses;
two installations would compete only for the capacity, a guard inside one serialised transaction
(`store.py:161`), which no run spends states on. Phones otherwise do not interact, which is also
what the proofs, for any number of them, confirm for the queue.

### Fairness

`FairSpec` assumes that the delivery thread is scheduled, that a send ends (five-second
deadline in `transport.py`), that a callback returns and that time passes: weak fairness of
`WorkerRun`, `HookRun` and `Tick`. A host need not start or keep a runtime and an operator need
not enable push: both liveness properties have the premise that some runtime eventually keeps
serving. `HintsSettle` excuses a hint whose next step is due after the model's clock stops;
hints due before must be settled, and events outlive the clock, so expiry never does it.

For turns, `FairSpec` assumes that a call that was begun goes on (weak fairness of `CallStep`: the
30-second timeout of `WsClient.send` ends every wait), that the gateway reads what it is sent
and its turns end (`GatewayRuns`), that queued events of a socket are handled although calls
compete (strong fairness of `Live \/ TransportLost`: `_serialized` is a queue, first come first
served) and that the user returns to the chat, which opens it again (strong fairness of
`Open("ensure")`: `chat_screen.dart:1837-1844`). `turn_liveness` leaves out two faults on
purpose: a last frame that is missed, or an interrupt and its reconciliation that time out,
while the connection stays up. Nothing in the code asks the ledger again in that situation
until the chat is opened anew; it is listed as a hazard.

`FairSpec` of `FixturePrompts` assumes that the event loop runs a task that can go on (weak
fairness of `TaskStep`) and that a lost connection is noticed (`LossNoticed`: the handler reads
or writes a socket that is gone). Users need not answer, and nobody need send anything: a prompt
that waits for its user may wait as long as its connection is not cleaned up. Nor need a client
read: the code awaits each send without a timeout (`fake_gateway.py:1036`, 1228, 1279), so that a
task suspended in one (`Unread`) can go on only when it is cancelled or the connection is
lost. Fairness says nothing of it before, and `PromptsSettle` excuses it. A connection closed in
order counts as one that may still hold unread frames. What is left to check of a client that
does not read: a task before its first send, one that is cancelled, one whose connection is lost or
cleaned up. The modules of the
ledger state no liveness: a turn whose connection is lost in earnest stays running for good (see
*Findings*).

### Findings

Two comments say more than the code does; each has a run.

* `turn_poison`: `gateway_turn_recovery.dart:291-293` says that a gap is recovered from the durable
  server. Without any fault, a page may take a turn from `accepted` over `running` to
  `waiting_input`; the coordinator writes once per page, and the journal refuses `accepted` to
  `waiting_input` (`gateway_turn_journal.dart:966`). The quarantine that follows is refused for
  the same reason, and the chat is stopped until the process ends.
* `turn_others`: `gateway_turn_coordinator.dart:1465-1467` says that other turns reconcile later. One
  quarantined entry makes every later recovery throw before it reaches the others (1167).

The modules also contain the following behaviours, which a reader of the comments would not
expect. No run is spent on them.

* A hint that is already leased when push is disabled is closed for good (`service.py:94-96`),
  although `docs/mobile-push-server.md:188` says that disabling halts sends but keeps pending state
  until expiry.
* A runtime stopped between its two transactions closes its own hint, because `_permitted`
  reads the stop flag (`service.py:121`), although `docs/mobile-push-server.md:476` says that
  committed jobs survive restarts.
* The inbox is checked before the claim and not again (`service.py:73`): a resolution queued in
  between is sent after its input, although `docs/mobile-push-server.md:471` says that
  resolutions are drained before further hints.
* If the socket closes while the write-ahead is written, `WsClient.send` throws a plain exception
  and the prompt is quarantined as a protocol violation (`gateway_turn_coordinator.dart:741`),
  although `gateway_turn_recovery.dart:69-71` says that it may only reconcile. A connection that
  breaks under the recovery from a gap has the same effect (1341).
* `onTurnSettled`, "called exactly once" (`gateway_turn_coordinator.dart:524`), is called again by
  every recovery of the journal for a done turn (1165, 1180), and by a quarantine after its own
  write (1466).
* A call that opens a new socket before the loss of the old one is handled finds the running
  turn certain in memory and skips it; the new connection never gets its events
  (`gateway_turn_coordinator.dart:537-541` says that reconcile runs on resume).
* Fixture, turn ledger. A turn that another connection interrupts while its handler waits for
  its socket is completed afterwards (`turn_recovery_contract.py:746-756` looks at no status), although a terminal
  turn is immutable for the phone (`gateway_turn_recovery.dart:281`). `TurnBook` therefore
  promises finality for a whole answer only.
* Fixture, turn ledger. A turn stays running for good when its connection is lost without having been ordered
  to (`send_str` raises out of line 758), when the process dies, or when a write of the file fails.
  After a failed write the memory is ahead of the file: the prompt sent again is acknowledged,
  and never run; after a crash its turn id is given to another turn. A turn that is interrupted and then
  pruned answers 4410 to every old cursor (line 836 asks for a text).
* Fixture, classic protocol. A prompt that is interrupted before its first step never sends `turn.end`
  (the `try` of `stream_prompt` was not entered), where `test_fake_gateway.py:818-822` expects
  one after an interrupt. One that is cancelled while `turn.end` with `completed` is being sent sends a second
  one with `interrupted`.
* Fixture, classic protocol. A cancelled prompt whose last send waits for its client removes, in its `finally`, the
  approval that its successor has registered (1288-1289: the key is the session); the user's
  answer then resolves nothing. `ApprovalsReach` is stated for clients that read, and for the same reason an
  answer meant for the old request can resolve the new one.
* Fixture, classic protocol. A secret whose time is over says `ok` to an answer that came in time and then
  `secret.expire` all the same (1181-1195). A branch made twice replaces the first (657). A
  handler that raises on its reply leaves the prompts of its connection waiting: the clean-up at
  1531 is not in a `finally`. A prompt whose client stays connected and does not read is held
  in its send for as long as nobody interrupts it; its successor, once it interrupted it, does not
  depend on it, but it stays suspended in the `turn.end` of its interruption.
* Fixture, `/v1/chat/completions`. A stream whose closing fails after `[DONE]` was written, and one
  without a session's header, is kept in no history (533-547). `HistoryIsEarned` asks it of prompts only.

Three more things that can go wrong are visible in the push and the turn modules and are stated by
no property: an event is lost if SQLite is busy for the store and then for the inbox
(`service.py:168`); a burst evicts the oldest events, those whose hint was accepted included
(`store.py:431`: `NothingIsSkipped` speaks of rows that are still there); the 65th tombstone evicts the
first, whose late frames are then of an unknown turn (`gateway_turn_coordinator.dart:1685`).

## What is proved

Every theorem is of `Spec` and for every value of the constants; TLAPS checks each proof to its
last leaf. `PROJECT.json` lists the theorems with the properties they state.

### The push server

The proofs go through transactions, not through actors. `PushStoreProofs` shows, transaction by
transaction, that a `Consistent` database is mapped to a `Consistent` one: its tables are typed,
every outbox row belongs to the current generation and fits the status of its registration
(`QueueCurrent`), and every pending or active registration has an endpoint (`LiveRowsBound`).
The first part of `PushHistoryProofs` shows that every step of every actor is such a transaction or leaves the
database alone, and proves `PushInvariant`: `[]PushInv`, with `TypesHold`, `QueueStaysCurrent`,
`SendStaysCurrent` and `SendersExclude` as consequences. `SendIsCurrent` needs that nobody writes
during a send, which is `OneSender` (the writers' guard `~ Locked` covers everybody but another
sender); it needs, when a send begins, that the leased row is current and its registration bound,
which is `Consistent(db)`; the attempt number of a send is a number only if `wire` is finite; and
a callback writes a typed event only if it holds one (`HooksHold`). One case split carries the
sends: a step is invisible to a send, ends the only send, or begins one.

`PushStoreProofs` adds, in its second part, what SQLite's keys give (`Sound`): cursors of events, ids and dedup keys of
hints, refs of attention rows identify their rows, nothing names a cursor that was not drawn, a
challenge belongs to its registration, and no live hint announces a resolved request
(`Unannounced`). Each transaction is described once by what it may do to the rows (`Writes`:
which rows stay, which are new, which counters move), and `Sound` follows from the description.

The second part of `PushHistoryProofs` proves `HistoryInvariant`: `[]HistoryInv`, where `Recorded` ties the tables
to the histories `wire` and `accepted`. `AttemptsBounded` alone is not inductive, because
retention evicts rows: it needs that a hint that was sent keeps its outbox row, and with it its
count, for as long as its event could be announced to the same generation again
(`SentKeepsRow`); that a row counts at least its sends (`AttemptsCounted`), one more while it is
leased (`LeaseCounted`); and that a lease is of the row that was claimed (`SendRecorded`).
`MCPush` extends `PushInvariants`, so that `HistoryInv` and the invariants below can be named in the
configuration of any push run: TLC finds `HistoryInv` true in `delivery`, `ProofInv` in
`registration`, `CaptureInv` in `consent` and `LimitInv` in `callbacks`, at some minutes more than
these runs take. From it follow

* `AttemptsStayBounded`, `AcceptedStaysSent` (through `AcceptedClosed`: an accepted hint is closed
  in every table it can be in) and `ResolvedStaysSilent`;
* `RetentionStaysBounded`, with `Bounded(db)` of every transaction and, for the inbox, that its ids
  are keys (`InboxKeyed`);
* `QueuedStaysCaptured`, with `TargetsCaptured`: wherever an event waits, in a callback, the inbox
  or a worker, it carries the targets of the moment it happened.

`PushAuthorityProofs` proves `AuthorityStaysForward` and `NoncesStayFresh` from a description of
what a transaction may do to a registration row (`RowsStay`), and `ActiveStaysProved`: the
confirmation that activates a row presents a secret that was sent (`SecretsSent`), secrets of one
registration are never sent to another (`SecretsKept`), and every renewal ends the secret.
`ServerImplementsLifecycle` is the refinement of `PushLifecycle`, step by step: a transaction is
one of five kinds of change of authority (none, a registration, a confirmation, an end, a
migration), and each, together with what it does to the wire, is an action of `PushLifecycle`
or a stutter. That authority changes only while no hint is on the wire is again `OneSender` and
the lock.

`PushReaderProofs` proves `NothingStaysSkipped` of the server with a phone that pages. The invariant
is `ReadInv`: the cursor is at most what the phone has read up to, and this at most the table's
cursor. That a page passes over whole the rows between its two cursors is `PageIsWhole`: the rows before
the first permitted one that did not fit are closed downwards, so the largest of them bounds them
all, and each was shown or refused. That no step of the server puts a readable row before a cursor it
has handed out is `EventsStay`: a transaction draws new cursors or keeps the old row's cursor,
owner and expiry, an event once cancelled stays so, and the clock does not go back. TLC
finds `ReadInv` true in the `consent` instance.

Assumptions: `StoreAssumption` (installations are finitely many; limits are numbers; `None` is not
a value) and `StateAssumption` (inputs are typed; the database found at start satisfies its own
schema: `Consistent`, `Sound`, `Bounded`). TLC evaluates both in every run. Two theorems have one
more hypothesis, because the histories `wire` and `captured` begin with the server:
`ActiveStaysProved` assumes that the first file has no active registration but of the old format
(`FirstFileUnproved`), `QueuedStaysCaptured` that it has no event queued to an active
registration (`FirstFileQuiet`). An active row, or a queued event, of an earlier life of the
server is proved or captured in a history the model does not see. The empty file satisfies both;
the `registration` run starts from files with the first property and checks `ActiveIsProved`, the
`consent` run from a file with the second and checks `QueuedWasCaptured`.

### The turn journal

`TurnJournalProofs` proves `JournalInvariant` and from it `JournalTypes`, `JournalStaysReadable`,
`OpenPromptsAreKept`, `FailuresAreNeverForgotten` and `NobodyIsLockedOut`: all the properties of
the `journal` run, for any number of chats and prompts, any limits and any clock. The invariant says
that rows are typed and legible (every entry has its binding, keys are unique), that the tables
fit their limits, and that they are finite, without which "at most `MaxEntries`" says nothing.
The heart is compaction: `Evict` removes a smallest set of rows, oldest and deadest first, that
makes room. That such a set exists is shown without induction over its size: among the finitely
many subsets that make room, well-foundedness of strict inclusion gives a minimal one
(`SmallestMember`), likewise the oldest row (`OldestExist`). Readability then needs that a
binding is only evicted with no entry left (`EvictBindingsKeeps`), and `NoLockout` that a journal
whose pending entries are fewer than `MaxEntries` has something `Evict` may take
(`EvictFindsRoom`).

### Turn recovery of one chat

`TurnSystemProofs` proves the safety properties of the `turn_core` run for any number of prompts,
events, waiting frames, faults and entries, any page size, any retention and any clock. TLC found
both invariants and `Roomy` true on the instance of `turn_core`, and on one with two prompts, two events and
one failing write (6.8 million states); neither instance with two prompts nor `Roomy` as an
invariant is among the runs.

`PartsAgree` is `[]TurnInv`, without any hypothesis. The gateway's log only grows (`Extends`), and
everything the phone holds of a turn is about a prefix of it: a state, a tombstone, an entry, a frame
on its way, an answer not yet looked at, the two cursors of a reconciliation, the entries still to be
recovered. Each part of `TurnInv` is a predicate of the values it relates and not of the
variables, so that it can be told of the state in the middle of a step: the page
half applied, the map that was changed before its write, the call that fails. `WorldGrows`
shows once that every such predicate survives a growing log; each operation of the reducer is shown
to keep them (`AckKeeps`, `EventKeeps`, `PageKeeps`, `RehydrateKeeps`, `FailKeeps`, ...), then each action of
the coordinator. A page is a fold over its events; that the fold exists and steps as it should is
obtained without induction over sequences, from the least place where it would not (`LeastNumber`,
`FoldExists`, `FoldSteps`). From `TurnInv` follow

* `Types`, and `PhoneMirrorsGateway`: neither duplicates, gaps, late answers, snapshots nor
  restarts put memory or journal beside the gateway's log;
* `RestartReadsJournal`: what is written is a state of the reducer, and what those have in common
  (`ReducerOK`) is what `rehydrate` asks of an entry;
* `PoisonedIsSilent`: a poisoned chat has no call but the one that gives its connection up.

`JournalKeepsUp` is `Spec /\ []Roomy => []RecordInv`. `PromptsAreRecorded` is not inductive: that
the recovery does not take an old entry for the fate of a prompt needs that the journal has not been
overtaken. `RecordInv` says that what is open in memory is open in the journal (`FreshOK`), what
failed in memory failed in the journal or stopped the chat (`SealedOK`), and the entries that
a recovery still has in hand are not staler than what the journal says (`AheadOK`). From it follow
`PromptsAreWrittenAhead`, `FailuresAreWritten` and `OutcomesStay`.

The hypothesis is needed. `Roomy` says that, whichever prompt is written next, fewer than
`MaxEntries` entries of other prompts have not expired. A journal that is full of younger entries evicts settled outcomes
before their time, then failed entries and those older than the active retention
(`gateway_turn_journal.dart:689-741`), and then an entry can be gone while its turn is
remembered. The code's limit is 64 entries per device; `FewPromptsFit` shows
that the hypothesis is met by every behaviour with no more prompts than places, as in the run. What
compaction does to a full journal is the subject of `TurnJournalProofs`, which has no such
hypothesis: it never drops a prompt whose fate is open before it is old (`OpenPromptsAreKept`).

`TurnAssumption` gives the numbers their ranges, and a turn at least two events, the acceptance and
an end, which is what a turn of the ledger has.

### The fixture's ledger

`TurnLedgerProofs` proves `LedgerInvariant` and from it `LedgerTypes`, `LedgerStaysLoadable`,
`AcksStayKept`, `TurnsStayServedOnce`, `PagesStayContiguous` and the refinement
`LedgerImplementsBook`, for any number of connections, sessions, turns, faults and failures: all
properties of the `ledger` run. The argument has three parts.

* A ledger `Fits` (bindings are distinct and count up to their number, events are consecutive up to
  the last one, the index and the turns name each other) and every operation makes it grow
  (`Grows`): bindings keep their identity and get newer, turns keep theirs, their events stay what
  they were or are pruned from the front, a whole answer is the last thing. The file is always
  behind the memory, `Grows(saved, durable)`: a write that fails leaves the old file, and
  the one step that takes the memory back, `Restart`, takes it back to the file. A write carries the
  file to something the memory has grown to, so that the file grows at every step
  (`MovesKeep`), crashes included. `LedgerLoads` is `Fits`; `AcksAreKept` and each step of
  `TurnBook` are what growth says of one binding and of one turn (`ToldStays`, `EntryGoes`).
* `TurnsAreServedOnce` is not inductive: that a handler ends its turn needs that it waits where the turn
  has got to (`OnCourse`), whoever interrupted or pruned the turn meanwhile. In particular the
  course of a turn ends it even if it was interrupted on the way, and a handler that closes its
  connection between two deltas has exactly two steps left. `HandlerFits` says so for every
  handler, and `Abides` is what each step leaves to the other handlers; that no two handlers
  serve the same turn is what makes the write of one harmless to the rest.
* `PagesAreContiguous` follows from `Fits` and from what a comprehension over consecutive events
  returns: the rest of the events behind the cursor (`NewerIsRest`), so that a page begins behind the
  cursor and has no gap (`NewerAreNext`). `Newer` writes the comprehension by positions,
  because `SelectSeq` is recursive and beyond the prover; that the two agree is checked by TLC on
  bounded sequences (`NewerSelects` in `MCLedger`).

`ServerAssumption` and `LedgerAssumption` are used for: the sessions are finitely many (a new
identity is one more than those that are bound), `None` is no fault, bounds are numbers. `TypeOK`
gives the version of a binding as a number; that it is at most `MaxOpens` would be a statement
about the sum of a fold.

### The fixture's tasks

`FixturePromptsProofs` proves `PromptsInvariant` and from it `PromptTypes`, `OnePromptRuns`,
`AnswersAlwaysReach`, `HistoryIsAlwaysEarned` and `StartedPromptsAlwaysEnd`: all the safety
properties of the `gateway` run, for any number of connections, sessions, questions and prompts, so
that the bound of two prompts in the run is enough. A step changes the table of prompts in one of
three ways: one prompt moves on, some are cancelled, one is added. Each conjunct of the invariant
is shown to survive each of the three (`CurrentMoves`, `AskedStays`, `ToldMoves`, `CancelKeeps`,
`AddKeeps`, ...), and each action is shown to be one of them. `OnlyOneRuns` needs that the current prompt
is the last of its session (`OneCurrent`); `ApprovalsReach` needs that a prompt begins only
after those before it were heard out, or it would register an approval that the end of its
predecessor removes (`Begun`: the fairness of the event loop towards cancellations);
`HistoryIsEarned` needs that what stands in a history is at its end or past it (`Chronicle`), and
has told nothing else first. `PromptsAssumption` has one part that only a proof notices:
`None` is neither a connection nor a history.

### Only model-checked

* Liveness (`InboxDrains`, `HintsSettle`, `TurnsAreResolved`, `PromptsSettle`): fairness and
  ENABLED are out of the prover's reach.
* The instances of the two findings, `turn_poison` and `turn_others`: they refute, so there is
  nothing to prove.
* That `Newer` is the library's `SelectSeq`, for all sequences: an induction over data.
* No module here declares a recursive operator, so that none is out of the prover's reach for
  that reason.

## Plan

1. Done: the push server, its lifecycle refinement, the invariant proofs.
2. Done: the turn journal, the reducer, the coordinator and the gateway's contract.
3. Done: `Store.events` with a phone that pages (`PushReader`).
4. Done: the gateway fixture, its turn ledger with the refinement of `TurnBook`, and the tasks of
   its classic protocol.
5. Next: `PushPhone`, `mobile_push_service.dart` with its fence and the native queue, composed with
   `PushServer` through PUT, confirm, DELETE and hints. Wanted: a disabled account is never
   renewed, a hint of another generation or nonce is ignored, a lost response is repaired.
6. A registry of several chats over one journal, and the application controller with its
   generations; an abstract specification of a turn (unknown, running, resolved) that
   `TurnSystem` implements; single use of an approval authority.
7. Proofs, done: the push server, with the phone that reads, and the ledger, with their
   refinements; the journal; the recovery of a chat; the fixture's tasks: every safety property
   that a run checks. Next: the two invariants of a chat for a registry of chats over one journal
   (item 6), where another chat's prompts take the room.

### Not modelled

* Of the push server: byte-level I/O (endpoint validation, DNS, TLS, encryption), parsing and file
  modes of `config.json`, authentication, the size limits of bodies, and the queries that only read
  besides the event pages. They keep no state between calls.
* Of the fixture: tickets and log-in, configuration, titles, attachments, the deletion of sessions, and the
  scripted disconnect scenarios: each touches a table of its own that no prompt reads, or plays a
  fixed sequence of frames.
* The scripts (`scripts/*.py`, the smaller programs under `tools/`): they run once, from top to
  bottom, and build, verify or publish files.
* The phone's user interface, media, voice, backup and update code, and its sequential preference
  stores; see `PROJECT.json` for each part.
