----------------------------- MODULE PushState ------------------------------
(***************************************************************************)
(* The state the parts of a mobile-push server share: the two SQLite files *)
(* (the store and the hook inbox), the operator's configuration, and what  *)
(* each plugin runtime, observer hook and HTTP handler holds in memory     *)
(* between two of its steps.  Several processes of one profile may load    *)
(* the plugin, each with a Runtime of its own.                             *)
(***************************************************************************)
EXTENDS PushStore

CONSTANTS
  Hook,           \* observer callbacks, each invoked at most once
  HookCalls,      \* what they may report
  Bodies,         \* registration bodies clients send
  Policies,       \* policies the operator may install
  DurableSets,    \* sets of sessions state.db may hold
  InitialDBs,     \* databases an earlier run, or version, may have left
  DrainLimit,     \* inbox items one pass of the worker moves (32)
  MaxInFlight,    \* bound: API handlers in flight at once
  MaxTime         \* bound: the clock stops here

ASSUME StateAssumption ==
  /\ HookCalls \subseteq HookEvent
  /\ Bodies \subseteq Body
  /\ Policies \subseteq Policy
  /\ DurableSets \subseteq SUBSET Session
  /\ DrainLimit \in Nat \ {0}
  /\ {MaxInFlight, MaxTime} \subseteq Nat
  /\ \A d \in InitialDBs : Consistent(d) /\ Sound(d) /\ Bounded(d)

VARIABLES
  db,        \* outbox.sqlite3
  inbox,     \* inbox.sqlite3: rows not yet moved to the store
  inboxSeq,  \* its AUTOINCREMENT counter
  policy,    \* config.json
  durable,   \* the sessions state.db holds
  now,       \* the clock, in seconds
  puts,      \* register handlers that passed admission (DNS lookup running)
  confirms,  \* confirm handlers that have read the policy
  rt,        \* each runtime's worker
  hook,      \* each observer callback
  wire,      \* history: the hints whose send was begun
  accepted,  \* history: the hints a push service's 2xx was recorded for
  captured   \* history: the targets every recorded hook event was given

storeVars == <<db, inbox, inboxSeq>>
operatorVars == <<policy, durable>>
apiVars == <<puts, confirms>>
historyVars == <<wire, accepted, captured>>
vars == <<db, inbox, inboxSeq, policy, durable, now, puts, confirms, rt, hook,
          wire, accepted, captured>>

-----------------------------------------------------------------------------
(* What the processes hold *)

NoPolicy ==
  [readable |-> FALSE, enabled |-> FALSE, grants |-> [p \in Principal |-> {}],
   admits |-> {}, owners |-> {}]

NoTargets == [i \in Installation |-> 0]

\* A row of the hook inbox; its payload carries the captured targets.
Item == [id : Nat, event : HookEvent, targets : Targets, expires : Nat]

\* down: no worker.  idle: between two calls of deliver_one.  drain, store,
\* remove: moving the inbox.  check, claim: before and at Store.claim.
\* leased: a row is claimed.  sending: the write lock is held for the send.
WorkerPc ==
  {"down", "idle", "drain", "store", "remove", "check", "claim", "leased",
   "sending"}

\* policy is the snapshot deliver_one starts with, item the inbox row it
\* peeked (a set of at most one), job the id of the row it leased.
Worker ==
  [pc : WorkerPc, stopping : BOOLEAN, policy : Policy, item : SUBSET Item,
   moved : Nat, job : Nat]

DownWorker ==
  [pc |-> "down", stopping |-> FALSE, policy |-> NoPolicy, item |-> {},
   moved |-> 0, job |-> 0]

\* todo: not invoked.  read: policy read.  targeted: targets captured.  write:
\* the inbox was empty, record directly.  queue: go through the inbox.
HookPc == {"todo", "read", "targeted", "write", "queue", "done"}

Observer ==
  [pc : HookPc, runtime : Runtime \cup {None}, event : HookEvent \cup {None},
   policy : Policy, targets : Targets]

NewObserver ==
  [pc |-> "todo", runtime |-> None, event |-> None, policy |-> NoPolicy,
   targets |-> NoTargets]

PutCall == [principal : Principal, installation : Installation, body : Body]

ConfirmCall ==
  [principal : Principal, installation : Installation, generation : Nat,
   secret : Nat, policy : Policy]

\* A send as the push service sees it; the n-th of its hint.
Sent ==
  [event : Nat, kind : HookKinds \cup {"challenge", ""},
   installation : Installation, generation : Nat,
   endpoint : Endpoint \cup {None}, nth : Nat]

Delivery == [event : Nat, installation : Installation, generation : Nat]
Capture == [event : HookEvent, installation : Installation, generation : Nat]

\* The type of every variable, for the values the constants allow.
TypeOK ==
  /\ db \in DB
  /\ inbox \subseteq Item
  /\ inboxSeq \in Nat
  /\ policy \in Policy
  /\ durable \in SUBSET Session
  /\ now \in Nat
  /\ puts \subseteq PutCall
  /\ confirms \subseteq ConfirmCall
  /\ rt \in [Runtime -> Worker]
  /\ hook \in [Hook -> Observer]
  /\ wire \subseteq Sent
  /\ accepted \subseteq Delivery
  /\ captured \subseteq Capture

Init ==
  /\ db \in InitialDBs
  /\ inbox = {}
  /\ inboxSeq = 0
  /\ policy \in Policies
  /\ durable \in DurableSets
  /\ now = 0
  /\ puts = {}
  /\ confirms = {}
  /\ rt = [r \in Runtime |-> DownWorker]
  /\ hook = [h \in Hook |-> NewObserver]
  /\ wire = {}
  /\ accepted = {}
  /\ captured = {}

-----------------------------------------------------------------------------
(* Shared conditions *)

\* (slip: the send is moved out of the transaction)
NeverLocked == FALSE

\* A send happens inside BEGIN IMMEDIATE: until it ends every other writer of
\* the store times out (25 ms) with SQLITE_BUSY.
Locked == \E r \in Runtime : rt[r].pc = "sending"

\* Store(path) has migrated the file; every handler and runtime opens it so.
Opened == Migrate(db) = db

\* policy_for: 503 while the plugin is disabled or its file is unreadable, 403
\* for a principal the operator does not name.
PolicyFor(p) == policy.readable /\ policy.enabled /\ Admitted(policy, p)

=============================================================================
